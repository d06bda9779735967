--------------------------- MODULE LoggerPageProofs ---------------------------
(***************************************************************************)
(* Proofs about the logger page: for any dialogs, messages, stations and   *)
(* managers, any length of the browser's history and any number of edits.  *)
(***************************************************************************)
EXTENDS LoggerPage, Sequences, FiniteSetTheorems, TLAPS

-----------------------------------------------------------------------------
(* The dialogs and the photo viewer. *)

\* What is and is not the viewer's: one way to close it at a time, and its panel; and the history, which never
\* has more traversals to come than entries behind the page's current one.
Entries ==
    /\ at \in Nat /\ top \in Nat /\ backs \in Nat
    /\ at <= top /\ top <= MaxEntries /\ 1 <= top
    /\ backs <= at
    /\ photo => at - backs >= 1

Viewer ==
    /\ photo => panel
    /\ ~(watcher /\ active)
    /\ ~orphaned => at - backs >= 1 /\ ((watcher \/ active) => photo)
    /\ ~orphaned /\ photo => watcher \/ (active /\ at - backs > 1)

HistoryInv == Entries /\ Viewer

LEMMA HistoryStart == Init => HistoryInv
  BY ModalsAssumption DEF Init, HistoryInv, Entries, Viewer, ModalsAssumption

\* Most handlers leave the viewer, its panel and the history alone.
LEMMA Untouched ==
    ASSUME HistoryInv, UNCHANGED <<panel, viewer, navigation, orphaned>>
    PROVE  HistoryInv'
  BY DEF HistoryInv, Entries, Viewer, viewer, navigation

LEMMA HistoryKept == HistoryInv /\ [Next]_vars => HistoryInv'
<1> SUFFICES ASSUME HistoryInv, [Next]_vars PROVE HistoryInv'
  OBVIOUS
<1> USE ModalsAssumption DEF ModalsAssumption
<1>close. ASSUME ClosePhoto PROVE HistoryInv'
  <2>1. /\ photo /\ ~photo' /\ ~watcher' /\ ~active'
        /\ at' = at /\ top' = top /\ panel' = panel /\ orphaned' = orphaned
    BY <1>close DEF ClosePhoto, Closed
  <2>2. CASE active
    <3>1. backs' = backs + 1
      BY <1>close, <2>2 DEF ClosePhoto, Closed
    <3> QED
      BY <2>1, <2>2, <3>1 DEF HistoryInv, Entries, Viewer
  <2>3. CASE ~active
    <3>1. backs' = backs
      BY <1>close, <2>3 DEF ClosePhoto, Closed
    <3> QED
      BY <2>1, <2>3, <3>1 DEF HistoryInv, Entries, Viewer
  <2> QED
    BY <2>2, <2>3
<1>dialogs. ASSUME NEW d \in Dialogs, Open(d) \/ Close(d) PROVE HistoryInv'
  BY <1>dialogs, Untouched DEF Open, Close, viewer, navigation
<1>unpin. ASSUME Unpin PROVE HistoryInv'
  BY <1>unpin, Untouched DEF Unpin, viewer, navigation
<1>1. ASSUME NEW d \in Closable \cup Firm, Open(d) \/ Close(d) PROVE HistoryInv'
  BY <1>1, <1>dialogs DEF Dialogs
<1>2. ASSUME Pin \/ AskEdit \/ EditAnswered \/ Save \/ SaveAnswered PROVE HistoryInv'
  BY <1>2, Untouched DEF Pin, AskEdit, EditAnswered, Save, SaveAnswered, viewer, navigation
<1>3. ASSUME ToggleSelector \/ SelectorToggled \/ ToggleModule \/ ChatLoads PROVE HistoryInv'
  BY <1>3, Untouched DEF ToggleSelector, SelectorToggled, ToggleModule, ChatLoads, viewer, navigation
<1>4. ASSUME Refresh PROVE HistoryInv'
  BY <1>4 DEF Refresh, HistoryInv, Entries, Viewer, viewer, navigation
<1>5. ASSUME RemovePanel PROVE HistoryInv'
  BY <1>5 DEF RemovePanel, HistoryInv, Entries, Viewer, navigation
<1>6. ASSUME OpenPhoto PROVE HistoryInv'
  <2>1. CASE UNCHANGED <<watcher, active, navigation>> /\ (watcher \/ active)
    BY <1>6, <2>1 DEF OpenPhoto, HistoryInv, Entries, Viewer, navigation
  <2>2. CASE watcher' = TRUE /\ active' = FALSE /\ UNCHANGED navigation
    BY <1>6, <2>2 DEF OpenPhoto, HistoryInv, Entries, Viewer, navigation
  <2>3. CASE ~watcher /\ active' = TRUE /\ at' = at + 1 /\ top' = at + 1 /\ UNCHANGED <<watcher, backs>>
    BY <1>6, <2>3 DEF OpenPhoto, HistoryInv, Entries, Viewer
  <2> QED
    BY <1>6, <2>1, <2>2, <2>3 DEF OpenPhoto, Watched
<1>7. ASSUME WatcherCloses PROVE HistoryInv'
  BY <1>7 DEF WatcherCloses, Closed, HistoryInv, Entries, Viewer
<1>8. ASSUME at > 0, Traversed PROVE HistoryInv'
  BY <1>8 DEF Traversed, Popped, HistoryInv, Entries, Viewer, viewer
<1>9. ASSUME Navigate PROVE HistoryInv'
  BY <1>9 DEF Navigate, Popped, HistoryInv, Entries, Viewer, viewer
<1>10. ASSUME Escape PROVE HistoryInv'
  <2>1. CASE Unpin
    BY <2>1, <1>unpin
  <2>2. CASE ClosePhoto
    BY <2>2, <1>close
  <2>3. CASE "edit" \in shown /\ Close("edit")
    BY <2>3, <1>dialogs DEF Dialogs
  <2>4. CASE Close("help") \/ Close("commands")
    BY <2>4, Untouched DEF Close, viewer, navigation
  <2> QED
    BY <1>10, <2>1, <2>2, <2>3, <2>4 DEF Escape
<1>11. CASE UNCHANGED vars
  BY <1>11, Untouched DEF vars, viewer, navigation
<1> QED
  BY <1>close, <1>unpin, <1>1, <1>2, <1>3, <1>4, <1>5, <1>6, <1>7, <1>8, <1>9, <1>10, <1>11 DEF Next

-----------------------------------------------------------------------------
(* The chat. *)

\* A handler that ends with syncNativeChatVisibility.
LEMMA SyncedCovers == Synced => ChatIsCovered'
  BY DEF Synced, Covered, ChatIsCovered

LEMMA ChatKept == ChatIsCovered /\ [Next]_vars => ChatIsCovered'
<1> SUFFICES ASSUME ChatIsCovered, [Next]_vars PROVE ChatIsCovered'
  OBVIOUS
<1>dialogs. ASSUME NEW d, Open(d) \/ Close(d) PROVE ChatIsCovered'
  BY <1>dialogs, SyncedCovers DEF Open, Close
<1>sync. ASSUME \/ Pin \/ Unpin \/ AskEdit \/ EditAnswered \/ SaveAnswered \/ SelectorToggled \/ ToggleModule
                \/ Refresh \/ OpenPhoto \/ ClosePhoto \/ WatcherCloses
         PROVE  ChatIsCovered'
  BY <1>sync, SyncedCovers DEF Pin, Unpin, AskEdit, EditAnswered, SaveAnswered, SelectorToggled, ToggleModule,
     Refresh, OpenPhoto, ClosePhoto, WatcherCloses
<1>1. ASSUME Save \/ ChatLoads PROVE ChatIsCovered'
  BY <1>1 DEF Save, ChatLoads, ChatIsCovered, chat, dialogs, viewer
<1>2. ASSUME ToggleSelector PROVE ChatIsCovered'
  BY <1>2 DEF ToggleSelector, ChatIsCovered, chat
<1>3. ASSUME RemovePanel PROVE ChatIsCovered'
  BY <1>3 DEF RemovePanel, ChatIsCovered
<1>pop. ASSUME UNCHANGED <<viewer, suspended>> \/ Popped, UNCHANGED <<panel, docked, collapsed, dialogs>>
        PROVE  ChatIsCovered'
  BY <1>pop DEF Popped, ChatIsCovered, dialogs, viewer
<1>4. ASSUME Traversed PROVE ChatIsCovered'
  BY <1>4, <1>pop DEF Traversed
<1>5. ASSUME Navigate PROVE ChatIsCovered'
  BY <1>5, <1>pop DEF Navigate
<1>6. ASSUME Escape PROVE ChatIsCovered'
  BY <1>6, <1>dialogs, <1>sync DEF Escape
<1>7. CASE UNCHANGED vars
  BY <1>7 DEF vars, ChatIsCovered, chat, dialogs, viewer
<1> QED
  BY <1>dialogs, <1>sync, <1>1, <1>2, <1>3, <1>4, <1>5, <1>6, <1>7 DEF Next

LEMMA ChatStart == Init => ChatIsCovered
  BY DEF Init, ChatIsCovered

-----------------------------------------------------------------------------
(* The types of the dialogs. *)

\* The numbers of the history have theirs from HistoryInv.
Flags ==
    /\ {panel, loaded, docked, suspended, collapsed, pinned, selector, toggled, asked, saving} \subseteq BOOLEAN
    /\ {photo, watcher, active, orphaned} \subseteq BOOLEAN
    /\ shown \subseteq Dialogs

LEMMA FlagsKept ==
    ASSUME Flags, [Next]_vars
    PROVE  Flags'
<1> USE DEF Flags, Synced, Covered
<1>1. ASSUME NEW d \in Dialogs, Open(d) \/ Close(d) PROVE Flags'
  BY <1>1 DEF Open, Close, Show, Hide, viewer
<1>2. ASSUME NEW d \in Closable \cup Firm, Open(d) \/ Close(d) PROVE Flags'
  BY <1>1, <1>2 DEF Dialogs
<1>3. ASSUME Pin \/ Unpin \/ AskEdit PROVE Flags'
  BY <1>3 DEF Pin, Unpin, AskEdit, WithStation, Dialogs, viewer
<1>4. ASSUME EditAnswered \/ Save \/ SaveAnswered PROVE Flags'
  BY <1>4 DEF EditAnswered, Save, SaveAnswered, Show, Hide, Dialogs, viewer, chat
<1>5. ASSUME ToggleSelector \/ SelectorToggled \/ ToggleModule \/ ChatLoads PROVE Flags'
  BY <1>5 DEF ToggleSelector, SelectorToggled, ToggleModule, ChatLoads, dialogs, viewer, chat
<1>6. ASSUME Refresh \/ RemovePanel PROVE Flags'
  BY <1>6 DEF Refresh, RemovePanel, WithStation, Dialogs, viewer
<1>7. ASSUME OpenPhoto PROVE Flags'
  BY <1>7 DEF OpenPhoto, Watched, dialogs
<1>8. ASSUME ClosePhoto \/ WatcherCloses PROVE Flags'
  BY <1>8 DEF ClosePhoto, WatcherCloses, Closed, dialogs
<1>9. ASSUME Traversed \/ Navigate PROVE Flags'
  BY <1>9 DEF Traversed, Navigate, Popped, dialogs, viewer
<1>10. ASSUME Escape PROVE Flags'
  <2>1. ASSUME NEW d \in {"edit", "help", "commands"}, d \in shown, Close(d) PROVE Flags'
    BY <2>1, <1>1
  <2> QED
    BY <1>10, <1>3, <1>8, <2>1 DEF Escape
<1>11. CASE UNCHANGED vars
  BY <1>11 DEF vars, chat, dialogs, viewer
<1> QED
  BY <1>2, <1>3, <1>4, <1>5, <1>6, <1>7, <1>8, <1>9, <1>10, <1>11 DEF Next

\* Every reachable state of the dialogs is well typed (LoggerModals).
LEMMA ModalsTyped ==
    /\ Init => HistoryInv /\ Flags
    /\ HistoryInv /\ Flags /\ [Next]_vars => (HistoryInv /\ Flags)'
    /\ HistoryInv /\ Flags => TypeOK
<1>1. Init => Flags
  BY DEF Init, Flags
<1>2. HistoryInv /\ Flags => TypeOK
  BY ModalsAssumption DEF HistoryInv, Entries, Flags, TypeOK, ModalsAssumption
<1> QED
  BY <1>1, <1>2, HistoryStart, HistoryKept, FlagsKept

-----------------------------------------------------------------------------
(* What the chat lays over the page. *)

\* Menus are open one at a time, and none with the actions of a message.
Single == (\A x, y \in open : x = y) /\ (actions # None => open = {})

\* Uncrossed, the lightbox and the logger's lock are not there together, and each has found a page that scrolled.
Apart ==
    ~crossed =>
        /\ ~(lightbox /\ lock.on)
        /\ lightbox => previous = "free"
        /\ lock.on => lock.prior = "free"

OverlayInv ==
    /\ Overlays!TypeOK /\ Single /\ Overlays!MarksAgree
    /\ Apart /\ Overlays!ScrollComesBack

LEMMA OverlayStart == Overlays!Init => OverlayInv
<1> SUFFICES ASSUME Overlays!Init PROVE OverlayInv
  OBVIOUS
<1> USE PartsAssumption DEF PartsAssumption, Overlays!OfAssumption
<1>1. Overlays!TypeOK
  BY DEF Overlays!Init, Overlays!TypeOK, Overlays!Conversations, Overlays!Overflows, Overlays!drawn
<1>2. Single /\ Overlays!MarksAgree
  BY DEF Overlays!Init, Single, Overlays!MarksAgree, Overlays!drawn
<1>3. Apart /\ Overlays!ScrollComesBack
  BY DEF Overlays!Init, Apart, Overlays!ScrollComesBack
<1> QED
  BY <1>1, <1>2, <1>3 DEF OverlayInv

\* The part of the invariant that is about menus and marks.
MenusOK ==
    /\ open \subseteq Overlays!Menus /\ actions \in Messages \cup {None}
    /\ kept \subseteq Messages /\ marked \subseteq Overlays!drawn
    /\ selected \in Overlays!Conversations /\ unread \subseteq Peers
    /\ Single /\ Overlays!MarksAgree

\* The part that is about scrolling.
ScrollOK ==
    /\ {lightbox, logger, phone, crossed} \subseteq BOOLEAN
    /\ {previous, overflow} \subseteq Overlays!Overflows
    /\ lock \in [on : BOOLEAN, prior : Overlays!Overflows]
    /\ Apart /\ Overlays!ScrollComesBack

LEMMA OverlayParts == OverlayInv <=> MenusOK /\ ScrollOK
  BY DEF OverlayInv, MenusOK, ScrollOK, Overlays!TypeOK

\* A handler that closes the actions and leaves at most one menu.
LEMMA ClosedIsFine ==
    ASSUME Overlays!ActionsClosed,
           open' \subseteq Overlays!Menus, \A x, y \in open' : x = y,
           kept' \subseteq Messages, selected' \in Overlays!Conversations, unread' \subseteq Peers
    PROVE  MenusOK'
  BY PartsAssumption
  DEF PartsAssumption, Overlays!OfAssumption, Overlays!ActionsClosed, MenusOK, Single, Overlays!MarksAgree, Overlays!drawn

LEMMA MenusKept ==
    ASSUME MenusOK, [Overlays!Next]_overlayVars
    PROVE  MenusOK'
<1> USE DEF Overlays!Menus
<1>open. /\ open \subseteq Overlays!Menus /\ \A x, y \in open : x = y
         /\ kept \subseteq Messages /\ selected \in Overlays!Conversations /\ unread \subseteq Peers
  BY DEF MenusOK, Single
<1>none. None \notin Messages
  BY PartsAssumption DEF PartsAssumption, Overlays!OfAssumption
<1>hide. ASSUME NEW menu, Overlays!Hide(menu), UNCHANGED <<kept, selected, unread>> PROVE MenusOK'
  BY <1>hide DEF Overlays!Hide, MenusOK, Single, Overlays!MarksAgree, Overlays!drawn
<1>toggle. ASSUME NEW menu \in Overlays!Menus, Overlays!Toggle(menu), UNCHANGED <<kept, selected, unread>>
           PROVE  MenusOK'
  <2>1. CASE Overlays!Show(menu)
    BY <2>1, <1>open, <1>toggle, ClosedIsFine DEF Overlays!Show
  <2> QED
    BY <2>1, <1>toggle, <1>hide DEF Overlays!Toggle
<1>switch. ASSUME NEW peer \in Overlays!Conversations, Overlays!Switch(peer) PROVE MenusOK'
  BY <1>switch, <1>open, ClosedIsFine DEF Overlays!Switch
<1>1. ASSUME Overlays!ToggleEmoji \/ Overlays!ToggleRecipients PROVE MenusOK'
  BY <1>1, <1>toggle DEF Overlays!ToggleEmoji, Overlays!ToggleRecipients
<1>2. ASSUME Overlays!ClickUnread PROVE MenusOK'
  BY <1>2, <1>toggle, <1>switch DEF Overlays!ClickUnread, Overlays!Conversations
<1>3. ASSUME NEW peer \in Overlays!Conversations, Overlays!Choose(peer) PROVE MenusOK'
  BY <1>3, <1>switch DEF Overlays!Choose
<1>4. ASSUME NEW m \in Messages, Overlays!ToggleActions(m) PROVE MenusOK'
  <2>1. CASE actions = m
    BY <2>1, <1>4, <1>open, ClosedIsFine DEF Overlays!ToggleActions
  <2>2. CASE actions # m
    BY <2>2, <1>4, <1>open DEF Overlays!ToggleActions, MenusOK, Single, Overlays!MarksAgree, Overlays!drawn
  <2> QED
    BY <2>1, <2>2
<1>5. ASSUME NEW target, Overlays!PointerDown(target) PROVE MenusOK'
  <2>1. CASE target = "actions"
    BY <2>1, <1>5 DEF Overlays!PointerDown, MenusOK, Single, Overlays!MarksAgree, Overlays!drawn
  <2>2. CASE target # "actions"
    BY <2>2, <1>5, <1>open, ClosedIsFine DEF Overlays!PointerDown
  <2> QED
    BY <2>1, <2>2
<1>6. ASSUME Overlays!Scroll PROVE MenusOK'
  BY <1>6, <1>open, ClosedIsFine DEF Overlays!Scroll
<1>7. ASSUME Overlays!InsertEmoji PROVE MenusOK'
  BY <1>7, <1>hide DEF Overlays!InsertEmoji
<1>8. ASSUME Overlays!Escape PROVE MenusOK'
  <2>1. CASE Overlays!ActionsClosed /\ UNCHANGED open
    BY <2>1, <1>8, <1>open, ClosedIsFine DEF Overlays!Escape
  <2> QED
    BY <2>1, <1>8, <1>hide DEF Overlays!Escape
<1>9. ASSUME NEW m \in Messages, Overlays!Arrives(m) PROVE MenusOK'
  BY <1>9 DEF Overlays!Arrives, Overlays!Drawn, MenusOK, Single, Overlays!MarksAgree, Overlays!drawn
<1>10. ASSUME NEW m \in Messages, Overlays!Goes(m) PROVE MenusOK'
  BY <1>10 DEF Overlays!Goes, MenusOK, Single, Overlays!MarksAgree, Overlays!drawn
<1>11. ASSUME NEW peers \in SUBSET Peers, Overlays!UnreadChanges(peers) PROVE MenusOK'
  BY <1>11 DEF Overlays!UnreadChanges, MenusOK, Single, Overlays!MarksAgree, Overlays!drawn
<1>12. ASSUME Overlays!SelectedGoes PROVE MenusOK'
  BY <1>12 DEF Overlays!SelectedGoes, MenusOK, Single, Overlays!MarksAgree, Overlays!drawn, Overlays!Conversations
<1>13. ASSUME Overlays!ByHand PROVE MenusOK'
  BY <1>13, <1>1, <1>2, <1>3, <1>4, <1>5, <1>6, <1>7, <1>8 DEF Overlays!ByHand
<1>14. ASSUME Overlays!Sent PROVE MenusOK'
  BY <1>14, <1>9, <1>10, <1>11, <1>12 DEF Overlays!Sent
<1>15. ASSUME UNCHANGED Overlays!menus PROVE MenusOK'
  BY <1>15 DEF Overlays!menus, MenusOK, Single, Overlays!MarksAgree, Overlays!drawn
<1> QED
  BY <1>13, <1>14, <1>15
  DEF Overlays!Next, Overlays!OpenLightbox, Overlays!CloseLightbox, Overlays!AddPanel, Overlays!Turn, Overlays!RemovePanel,
      overlayVars, Overlays!menus

LEMMA ScrollKept ==
    ASSUME ScrollOK, [Overlays!Next]_overlayVars
    PROVE  ScrollOK'
<1> USE DEF Overlays!Overflows
<1>1. ASSUME NEW m \in Messages, Overlays!OpenLightbox(m) PROVE ScrollOK'
  BY <1>1 DEF Overlays!OpenLightbox, ScrollOK, Apart, Overlays!ScrollComesBack
<1>2. ASSUME Overlays!CloseLightbox PROVE ScrollOK'
  BY <1>2 DEF Overlays!CloseLightbox, ScrollOK, Apart, Overlays!ScrollComesBack
<1>types. /\ lightbox \in BOOLEAN /\ logger \in BOOLEAN /\ phone \in BOOLEAN /\ crossed \in BOOLEAN
          /\ previous \in {"free", "hidden"} /\ overflow \in {"free", "hidden"}
          /\ lock \in [on : BOOLEAN, prior : {"free", "hidden"}]
  BY DEF ScrollOK
\* The logger locks or unlocks: what the lightbox has found does not matter when it is there.
<1>unlock. ASSUME crossed' = (crossed \/ lightbox), UNCHANGED <<lightbox, previous>>,
                  logger' \in BOOLEAN, phone' \in BOOLEAN, Overlays!Unlocked
           PROVE  ScrollOK'
  <2>1. CASE lock.on
    BY <2>1, <1>unlock, <1>types DEF Overlays!Unlocked, ScrollOK, Apart, Overlays!ScrollComesBack
  <2>2. CASE ~lock.on
    BY <2>2, <1>unlock, <1>types DEF Overlays!Unlocked, ScrollOK, Apart, Overlays!ScrollComesBack
  <2> QED
    BY <2>1, <2>2, <1>types
<1>lock. ASSUME crossed' = (crossed \/ lightbox), UNCHANGED <<lightbox, previous>>,
                logger' \in BOOLEAN, phone' \in BOOLEAN, NEW onPhone, Overlays!Locked(onPhone)
         PROVE  ScrollOK'
  <2>1. CASE lock.on /\ UNCHANGED <<lock, overflow>>
    BY <2>1, <1>lock, <1>types DEF ScrollOK, Apart, Overlays!ScrollComesBack
  <2>2. CASE ~lock.on /\ lock' = [on |-> TRUE, prior |-> overflow] /\ overflow' = "hidden"
    BY <2>2, <1>lock, <1>types DEF ScrollOK, Apart, Overlays!ScrollComesBack
  <2> QED
    BY <2>1, <2>2, <1>lock, <1>unlock DEF Overlays!Locked
<1>3. ASSUME Overlays!AddPanel PROVE ScrollOK'
  BY <1>3, <1>lock, <1>types DEF Overlays!AddPanel
<1>turn. ASSUME Overlays!Turn PROVE ScrollOK'
  BY <1>turn, <1>lock, <1>types DEF Overlays!Turn
<1>remove. ASSUME Overlays!RemovePanel PROVE ScrollOK'
  BY <1>remove, <1>unlock, <1>types DEF Overlays!RemovePanel
<1>4. ASSUME UNCHANGED Overlays!page PROVE ScrollOK'
  BY <1>4 DEF Overlays!page, ScrollOK, Apart, Overlays!ScrollComesBack
<1> QED
  BY <1>1, <1>2, <1>3, <1>turn, <1>remove, <1>4 DEF Overlays!Next, Overlays!ByHand, Overlays!Sent, overlayVars, Overlays!page

LEMMA OverlayKept == OverlayInv /\ [Overlays!Next]_overlayVars => OverlayInv'
<1> SUFFICES ASSUME OverlayInv, [Overlays!Next]_overlayVars PROVE OverlayInv'
  OBVIOUS
<1>1. MenusOK' /\ ScrollOK'
  BY MenusKept, ScrollKept, OverlayParts
<1>2. OverlayInv' <=> MenusOK' /\ ScrollOK'
  BY DEF OverlayInv, MenusOK, ScrollOK, Overlays!TypeOK
<1> QED
  BY <1>1, <1>2

\* What the instance calls a cardinality is one.
LEMMA SameCardinality == \A S : Overlays!Cardinality(S) = Cardinality(S)
  BY DEF Overlays!Cardinality, Cardinality

\* At most one of the menus and the actions is open.
LEMMA OneIsOpen == OverlayInv => Overlays!OneOpen
<1> SUFFICES ASSUME OverlayInv PROVE Overlays!OneOpen
  OBVIOUS
<1>1. (\A x, y \in open : x = y) /\ (actions # None => open = {})
  BY DEF OverlayInv, Single
<1>2. Cardinality(open) \in {0, 1}
  <2>1. CASE open = {}
    <3>1. Cardinality({}) = 0
      BY FS_EmptySet
    <3> QED
      BY <2>1, <3>1
  <2>2. ASSUME NEW menu \in open PROVE Cardinality(open) = 1
    <3>1. open = {menu}
      BY <1>1
    <3>2. Cardinality({menu}) = 1
      BY FS_Singleton
    <3> QED
      BY <3>1, <3>2
  <2> QED
    BY <2>1, <2>2
<1> QED
  BY <1>1, <1>2, SameCardinality DEF Overlays!OneOpen

-----------------------------------------------------------------------------
(* The groups of stations. *)

\* Groups of roles nobody takes are empty, and so is every group before the first version is indexed.
NoneIn ==
    /\ index = None => \A g \in Groups!Groups : groups[g] = {}
    /\ \A g \in {"loggers", "relays", "netcontrols"} \ Groups!RoleGroups : groups[g] = {}

GroupsInv == Groups!TypeOK /\ NoneIn /\ Groups!GroupsTrue

LEMMA GroupsStart == Groups!Init => GroupsInv
  BY PartsAssumption DEF Groups!Init, GroupsInv, Groups!TypeOK, NoneIn, Groups!GroupsTrue, Groups!Stations, Groups!RoleGroups,
     PartsAssumption, Groups!RolesAssumption, Groups!Groups

\* What a role says of a group, one by one.
LEMMA RoleGroupIs ==
    /\ Groups!RoleGroup("netuser") = {}
    /\ Groups!RoleGroup("netlogger") = {"loggers"}
    /\ Groups!RoleGroup("netrelay") = {"relays"}
    /\ Groups!RoleGroup("netcontrol") = {"netcontrols"}
  BY DEF Groups!RoleGroup

LEMMA RoleGroupsAre ==
    /\ Groups!RoleGroups \subseteq {"loggers", "relays", "netcontrols"}
    /\ \A r \in RolesTaken : Groups!RoleGroup(r) \subseteq Groups!RoleGroups
    /\ \A r, s \in RolesTaken : r # s => Groups!RoleGroup(r) \cap Groups!RoleGroup(s) = {}
  BY PartsAssumption, RoleGroupIs DEF Groups!RoleGroups, PartsAssumption, Groups!RolesAssumption

\* A station that is there is in the groups which its states name, whatever it was in.
LEMMA StatesPlace ==
    ASSUME NEW now, NEW c, now[c] # None
    PROVE  /\ Groups!InGroup("attendees", c, now)
           /\ Groups!Changed(c, now, "hand") => (Groups!InGroup("hand-up", c, now) <=> now[c].hand)
           /\ ~Groups!Changed(c, now, "hand") => (Groups!InGroup("hand-up", c, now) <=> c \in groups["hand-up"])
           /\ Groups!Changed(c, now, "checkedState") =>
                 /\ Groups!InGroup("checked-out", c, now) <=> now[c].checkedState = "out"
                 /\ Groups!InGroup("checked-in-ever", c, now) <=> now[c].checkedState # "lurk"
           /\ ~Groups!Changed(c, now, "checkedState") =>
                 /\ Groups!InGroup("checked-out", c, now) <=> c \in groups["checked-out"]
                 /\ Groups!InGroup("checked-in-ever", c, now) <=> c \in groups["checked-in-ever"]
  BY RoleGroupsAre DEF Groups!InGroup

\* ... and in the group of its role, and in no other that had it for the role it gave up.
LEMMA RolePlaces ==
    ASSUME NEW now \in Groups!Stations, NEW c \in Calls, now[c] # None, Groups!TypeOK,
           NEW g \in {"loggers", "relays", "netcontrols"}
    PROVE  /\ ~Groups!Changed(c, now, "role") => (Groups!InGroup(g, c, now) <=> c \in groups[g])
           /\ g \notin Groups!RoleGroups => (Groups!InGroup(g, c, now) <=> c \in groups[g])
           /\ Groups!Changed(c, now, "role") /\ g \in Groups!RoleGroup(now[c].role) => Groups!InGroup(g, c, now)
           /\ Groups!Changed(c, now, "role") /\ g \notin Groups!RoleGroup(now[c].role) /\ c \notin groups[g]
                 => ~Groups!InGroup(g, c, now)
           /\ Groups!Changed(c, now, "role") /\ g \notin Groups!RoleGroup(now[c].role)
                 /\ Groups!Prior(c) # None /\ g \in Groups!RoleGroup(Groups!Prior(c).role)
                 => ~Groups!InGroup(g, c, now)
<1>1. now[c].role \in RolesTaken /\ (Groups!Prior(c) # None => Groups!Prior(c).role \in RolesTaken)
  BY DEF Groups!Stations, Groups!Station, Groups!TypeOK, Groups!Prior
<1>2. /\ Groups!RoleGroup(now[c].role) \subseteq Groups!RoleGroups
      /\ Groups!Prior(c) # None => Groups!RoleGroup(Groups!Prior(c).role) \subseteq Groups!RoleGroups
  BY <1>1, RoleGroupsAre
<1>3. ASSUME Groups!Changed(c, now, "role"), Groups!Prior(c) # None
      PROVE  Groups!RoleGroup(now[c].role) \cap Groups!RoleGroup(Groups!Prior(c).role) = {}
  BY <1>1, <1>3, RoleGroupsAre DEF Groups!Changed
<1> QED
  BY <1>2, <1>3 DEF Groups!InGroup

\* The groups of the roles alone depend on the past: nothing else is true of a station for having been.
LEMMA Places ==
    ASSUME GroupsInv, NEW now \in Groups!Stations, NEW g \in Groups!Groups, NEW c \in Calls, now[c] # None,
           g \in Groups!RoleGroups => c \notin returned /\ ~(index # None /\ index[c] = None)
    PROVE  Groups!InGroup(g, c, now) <=>
             CASE g = "hand-up" -> now[c].hand
               [] g = "checked-out" -> now[c].checkedState = "out"
               [] g = "checked-in-ever" -> now[c].checkedState # "lurk"
               [] g = "attendees" -> TRUE
               [] OTHER -> g \in Groups!RoleGroup(now[c].role)
<1>1. now[c] \in Groups!Station
  BY DEF Groups!Stations
<1>2. CASE index = None
  <2>1. Groups!Changed(c, now, "hand") /\ Groups!Changed(c, now, "checkedState") /\ Groups!Changed(c, now, "role")
    BY <1>2 DEF Groups!Changed, Groups!Prior
  <2>2. c \notin groups[g]
    BY <1>2 DEF GroupsInv, NoneIn
  <2>3. CASE g \in {"hand-up", "checked-out", "checked-in-ever", "attendees"}
    BY <2>1, <2>3, StatesPlace
  <2>4. CASE g \in {"loggers", "relays", "netcontrols"}
    BY <2>1, <2>2, <2>4, RolePlaces, RoleGroupsAre DEF GroupsInv
  <2> QED
    BY <2>3, <2>4 DEF Groups!Groups
<1>3. CASE index # None /\ index[c] = None
  <2>1. /\ Groups!Changed(c, now, "hand") /\ Groups!Changed(c, now, "checkedState") /\ Groups!Changed(c, now, "role")
        /\ g \notin Groups!RoleGroups
    BY <1>3 DEF Groups!Changed, Groups!Prior
  <2>2. CASE g \in {"hand-up", "checked-out", "checked-in-ever", "attendees"}
    BY <2>1, <2>2, StatesPlace
  <2>3. CASE g \in {"loggers", "relays", "netcontrols"}
    <3>1. groups[g] = {} /\ Groups!RoleGroup(now[c].role) \subseteq Groups!RoleGroups
      BY <1>1, <2>1, <2>3, RoleGroupsAre DEF GroupsInv, NoneIn, Groups!Station
    <3> QED
      BY <2>1, <2>3, <3>1, RolePlaces DEF GroupsInv
  <2> QED
    BY <2>2, <2>3 DEF Groups!Groups
<1>4. CASE index # None /\ index[c] # None
  <2>1. index[c] \in Groups!Station /\ Groups!Prior(c) = index[c] /\ c \in Groups!Present(index)
    BY <1>4 DEF GroupsInv, Groups!TypeOK, Groups!Stations, Groups!Prior, Groups!Present
  <2>2. (g \in Groups!RoleGroups => c \notin returned) => (c \in groups[g] <=> Groups!Belongs(g, c))
    BY <1>4, <2>1 DEF GroupsInv, Groups!GroupsTrue
  <2>3. CASE g \in {"hand-up", "checked-out", "checked-in-ever", "attendees"}
    BY <1>1, <2>1, <2>2, <2>3, RoleGroupsAre, StatesPlace DEF Groups!Belongs, Groups!Changed, Groups!Station
  <2>4. CASE g \in {"loggers", "relays", "netcontrols"}
    <3>1. Groups!Belongs(g, c) <=> g \in Groups!RoleGroup(index[c].role)
      BY <2>4 DEF Groups!Belongs
    <3>2. CASE g \in Groups!RoleGroups
      <4>1. c \in groups[g] <=> g \in Groups!RoleGroup(index[c].role)
        BY <2>2, <3>1, <3>2
      <4>2. ~Groups!Changed(c, now, "role") => index[c].role = now[c].role
        BY <1>4, <2>1 DEF Groups!Changed
      <4>3. CASE Groups!Changed(c, now, "role")
        BY <1>4, <2>1, <2>4, <4>1, <4>3, RolePlaces DEF GroupsInv
      <4>4. CASE ~Groups!Changed(c, now, "role")
        BY <2>4, <4>1, <4>2, <4>4, RolePlaces DEF GroupsInv
      <4> QED
        BY <4>3, <4>4
    <3>3. CASE g \notin Groups!RoleGroups
      <4>1. groups[g] = {} /\ Groups!RoleGroup(now[c].role) \subseteq Groups!RoleGroups
        BY <1>1, <2>4, <3>3, RoleGroupsAre DEF GroupsInv, NoneIn, Groups!Station
      <4> QED
        BY <2>4, <3>3, <4>1, RolePlaces DEF GroupsInv
    <3> QED
      BY <3>2, <3>3
  <2> QED
    BY <2>3, <2>4 DEF Groups!Groups
<1> QED
  BY <1>2, <1>3, <1>4

\* A new version of the net in the store.
LEMMA Reindexed ==
    ASSUME GroupsInv, NEW now \in Groups!Stations, Groups!Process(now), cache' = now, UNCHANGED known
    PROVE  GroupsInv' /\ \A g \in Groups!Groups : groups'[g] # groups[g] => flags'[g]
<1>1. CASE UNCHANGED <<index, groups, flags, returned>>
  BY <1>1 DEF GroupsInv, Groups!TypeOK, NoneIn, Groups!GroupsTrue, Groups!Belongs, Groups!Present
<1>2. CASE /\ index' = now /\ Groups!Present(now) # {}
           /\ groups' = [g \in Groups!Groups |-> {c \in Calls : Groups!InGroup(g, c, now)}]
           /\ flags' = [g \in Groups!Groups |-> Groups!Flagged(g, now)]
           /\ returned' = returned \cup {c \in Calls : index # None /\ index[c] = None /\ now[c] # None}
  <2>1. Groups!TypeOK'
    <3>1. groups' \in [Groups!Groups -> SUBSET Calls]
      BY <1>2
    <3>2. flags' \in [Groups!Groups -> BOOLEAN]
      <4>1. \A g \in Groups!Groups : Groups!Flagged(g, now) \in BOOLEAN
        BY DEF Groups!Flagged
      <4> QED
        BY <1>2, <4>1
    <3> QED
      BY <1>2, <3>1, <3>2 DEF GroupsInv, Groups!TypeOK
  <2>2. index' # None
    BY <1>2, PartsAssumption DEF PartsAssumption, Groups!RolesAssumption
  <2>3. NoneIn'
    <3>1. ASSUME NEW g \in {"loggers", "relays", "netcontrols"} \ Groups!RoleGroups PROVE groups'[g] = {}
      <4>1. \A c \in Calls : Groups!InGroup(g, c, now) <=> c \in groups[g]
        BY RoleGroupsAre DEF Groups!InGroup
      <4>2. groups[g] = {} /\ g \in Groups!Groups
        BY DEF GroupsInv, NoneIn, Groups!Groups
      <4> QED
        BY <1>2, <4>1, <4>2
    <3> QED
      BY <2>2, <3>1 DEF NoneIn
  <2>4. Groups!GroupsTrue'
    <3>1. ASSUME NEW g \in Groups!Groups, NEW c \in Calls, now[c] # None, g \in Groups!RoleGroups => c \notin returned'
          PROVE  c \in groups'[g] <=> Groups!Belongs(g, c)'
      <4>1. g \in Groups!RoleGroups => c \notin returned /\ ~(index # None /\ index[c] = None)
        BY <1>2, <3>1
      <4>2. c \in groups'[g] <=> Groups!InGroup(g, c, now)
        BY <1>2
      <4> QED
        BY <1>2, <3>1, <4>1, <4>2, Places DEF Groups!Belongs
    <3> QED
      BY <1>2, <3>1 DEF Groups!GroupsTrue, Groups!Present
  <2>5. ASSUME NEW g \in Groups!Groups, groups'[g] # groups[g] PROVE flags'[g]
    <3>1. groups[g] \in SUBSET Calls /\ groups'[g] = {c \in Calls : Groups!InGroup(g, c, now)}
      BY <1>2 DEF GroupsInv, Groups!TypeOK
    <3>2. PICK c \in Calls : ~(c \in groups[g] <=> Groups!InGroup(g, c, now))
      BY <2>5, <3>1
    <3>3. index = None \/ Groups!Touched(g, c, now)
      <4>1. CASE c \in groups[g]
        BY <3>2, <4>1 DEF Groups!Touched
      <4>2. CASE c \notin groups[g]
        <5>1. Groups!InGroup(g, c, now)
          BY <3>2, <4>2
        <5>2. CASE g \in {"hand-up", "checked-out", "checked-in-ever"}
          <6>1. Groups!Changed(c, now, IF g = "hand-up" THEN "hand" ELSE "checkedState")
            BY <4>2, <5>1, <5>2, RoleGroupsAre DEF Groups!InGroup
          <6> QED
            BY <5>1, <5>2, <6>1 DEF Groups!Touched
        <5>3. CASE g = "attendees"
          <6>1. now[c] # None
            BY <5>1, <5>3, RoleGroupsAre DEF Groups!InGroup
          <6>2. index # None /\ c \in Groups!Present(index) /\ g \notin Groups!RoleGroups =>
                  (c \in groups[g] <=> Groups!Belongs(g, c))
            BY DEF GroupsInv, Groups!GroupsTrue
          <6>3. index = None \/ index[c] = None
            BY <4>2, <5>3, <6>2, RoleGroupsAre DEF Groups!Present, Groups!Belongs
          <6> QED
            BY <5>1, <5>3, <6>3 DEF Groups!Touched, Groups!Prior
        <5>4. CASE g \in {"loggers", "relays", "netcontrols"}
          <6>1. Groups!Changed(c, now, "role") /\ g \in Groups!RoleGroup(now[c].role)
            BY <4>2, <5>1, <5>4, RoleGroupsAre DEF Groups!InGroup
          <6> QED
            BY <5>1, <5>4, <6>1 DEF Groups!Touched
        <5> QED
          BY <5>2, <5>3, <5>4 DEF Groups!Groups
      <4> QED
        BY <4>1, <4>2
    <3> QED
      BY <1>2, <3>3 DEF Groups!Flagged
  <2> QED
    BY <2>1, <2>3, <2>4, <2>5 DEF GroupsInv
<1> QED
  BY <1>1, <1>2 DEF Groups!Process

LEMMA GroupsKept ==
    ASSUME GroupsInv, [Groups!Next]_groupVars
    PROVE  GroupsInv' /\ \A g \in Groups!Groups : groups'[g] # groups[g] => flags'[g]
<1>1. ASSUME Groups!NewVersion
      PROVE  GroupsInv' /\ \A g \in Groups!Groups : groups'[g] # groups[g] => flags'[g]
  <2>1. cache' \in Groups!Stations
    BY <1>1 DEF Groups!NewVersion, GroupsInv, Groups!TypeOK, Groups!Stations
  <2> QED
    BY <1>1, <2>1, Reindexed DEF Groups!NewVersion
<1>2. ASSUME NEW c \in Calls, Groups!Interact(c)
      PROVE  GroupsInv' /\ \A g \in Groups!Groups : groups'[g] # groups[g] => flags'[g]
  <2>1. cache' \in Groups!Stations
    <3>1. cache \in Groups!Stations /\ cache[c] \in Groups!Station
      BY <1>2 DEF Groups!Interact, GroupsInv, Groups!TypeOK, Groups!Stations
    <3>2. CASE \E state \in BOOLEAN : cache' = [cache EXCEPT ![c].hand = state]
      BY <3>1, <3>2 DEF Groups!Stations, Groups!Station
    <3>3. CASE \E state \in {"in", "out"} : cache' = [cache EXCEPT ![c].checkedState = state]
      BY <3>1, <3>3 DEF Groups!Stations, Groups!Station, Groups!CheckedStates
    <3> QED
      BY <1>2, <3>2, <3>3 DEF Groups!Interact
  <2> QED
    BY <1>2, <2>1, Reindexed DEF Groups!Interact
<1>3. CASE Groups!ClientKnown \/ UNCHANGED groupVars
  BY <1>3 DEF Groups!ClientKnown, groupVars, GroupsInv, Groups!TypeOK, NoneIn, Groups!GroupsTrue, Groups!Belongs, Groups!Present
<1> QED
  BY <1>1, <1>2, <1>3 DEF Groups!Next

-----------------------------------------------------------------------------
(* The photos of stations. *)

On(q) == {q[i] : i \in 1..Len(q)}
Distinct(q) == \A i, j \in 1..Len(q) : q[i] = q[j] => i = j
Waiting(q) == q \in Seq(Calls) /\ Distinct(q)

\* Who waits has been asked for once at most; who is not blocked was not asked for yet, or is asked for now.
Asked ==
    \A c \in Calls :
        /\ lookups[c] <= 2
        /\ c \in On(queue) => lookups[c] <= 1
        /\ c \notin blocked => lookups[c] <= 1
        /\ c \notin blocked /\ current # {c} => lookups[c] = 0

\* The processor is at work while there is a queue, unless it was broken, and then it stays so.
Served ==
    /\ queue # <<>> /\ ~broken => current # {}
    /\ running <=> current # {} \/ broken
    /\ broken => current = {}

Loads == /\ pending \cap resolved = {} /\ pending \cap failed = {} /\ resolved \cap failed = {}
         /\ \A c \in Calls : (image[c] = "loading" => c \in pending) /\ (image[c] = "photo" => c \in resolved)

\* The two halves: the queue with its processor, and the images.
QueueOK ==
    /\ Waiting(queue) /\ Asked /\ Served
    /\ present \subseteq Calls /\ fresh \subseteq Calls /\ blocked \subseteq Calls
    /\ running \in BOOLEAN /\ full \in BOOLEAN /\ broken \in BOOLEAN
    /\ current \in {{}} \cup {{c} : c \in Calls \cup {Rest}}
    /\ editor \in {{}} \cup {{c} : c \in Calls}
    /\ lookups \in [Calls -> Nat]
ImagesOK ==
    /\ Loads
    /\ image \in [Calls -> {"default", "loading", "photo"}]
    /\ qrzPhoto \subseteq Calls /\ pending \subseteq Calls /\ resolved \subseteq Calls /\ failed \subseteq Calls

PhotosInv == QueueOK /\ ImagesOK

LEMMA PhotosStart == Photos!Init => PhotosInv
<1> SUFFICES ASSUME Photos!Init PROVE PhotosInv
  OBVIOUS
<1>1. Waiting(queue) /\ On(queue) = {}
  BY DEF Photos!Init, Waiting, Distinct, On
<1>2. Asked /\ Served
  BY <1>1 DEF Photos!Init, Photos!Nothing, Asked, Served
<1>3. Loads
  BY DEF Photos!Init, Loads
<1> QED
  BY <1>1, <1>2, <1>3 DEF Photos!Init, Photos!Nothing, PhotosInv, QueueOK, ImagesOK

LEMMA PhotosHold == PhotosInv => Photos!TypeOK /\ Photos!QueueServed /\ Photos!SourcesAgree
  BY DEF PhotosInv, QueueOK, ImagesOK, Waiting, Asked, Served, Loads, Photos!TypeOK, Photos!QueueServed, Photos!SourcesAgree,
     Photos!Nothing, Photos!Images

\* The operators of the instance.
LEMMA SameRange == \A q \in Seq(Calls) : Photos!Range(q) = On(q)
  BY DEF Photos!Range, On

LEMMA OrdersAre ==
    ASSUME NEW S, S \subseteq Calls, NEW s \in Photos!Orders(S)
    PROVE  Waiting(s) /\ On(s) \subseteq S
<1>1. IsFiniteSet(S)
  <2>1. \A T : Photos!IsFiniteSet(T) <=> IsFiniteSet(T)
    BY DEF Photos!IsFiniteSet, IsFiniteSet
  <2> QED
    BY <2>1, FS_Subset, PartsAssumption DEF PartsAssumption, Photos!PhotosAssumption
<1>2. PICK n \in Nat : n = Photos!Cardinality(S)
  <2>1. Photos!Cardinality(S) = Cardinality(S)
    BY DEF Photos!Cardinality, Cardinality
  <2> QED
    BY <1>1, <2>1, FS_CardinalityType
<1>3. s \in {f \in [1..n -> S] : \A i, j \in 1..n : i # j => f[i] # f[j]}
  BY <1>2 DEF Photos!Orders, Photos!SetToSeqs
<1>4. s \in Seq(Calls) /\ Len(s) = n
  BY <1>3
<1> QED
  BY <1>3, <1>4 DEF Waiting, Distinct, On

LEMMA Joined ==
    ASSUME NEW q, Waiting(q), NEW s, Waiting(s), On(q) \cap On(s) = {}
    PROVE  Waiting(q \o s) /\ On(q \o s) = On(q) \cup On(s)
<1>1. q \in Seq(Calls) /\ s \in Seq(Calls)
  BY DEF Waiting
<1>2. /\ q \o s \in Seq(Calls) /\ Len(q \o s) = Len(q) + Len(s)
      /\ \A i \in 1..Len(q) : (q \o s)[i] = q[i]
      /\ \A i \in 1..Len(s) : (q \o s)[i + Len(q)] = s[i]
  BY <1>1
<1>3. \A i \in 1..Len(q \o s) : i \in 1..Len(q) \/ (i - Len(q) \in 1..Len(s) /\ (q \o s)[i] = s[i - Len(q)])
  BY <1>1, <1>2
<1>4. On(q \o s) = On(q) \cup On(s)
  <2>1. ASSUME NEW i \in 1..Len(q \o s) PROVE (q \o s)[i] \in On(q) \cup On(s)
    BY <1>2, <1>3 DEF On
  <2>2. ASSUME NEW i \in 1..Len(q) PROVE q[i] \in On(q \o s)
    <3>1. i \in 1..Len(q \o s) /\ q[i] = (q \o s)[i]
      BY <1>1, <1>2
    <3> QED
      BY <3>1 DEF On
  <2>3. ASSUME NEW i \in 1..Len(s) PROVE s[i] \in On(q \o s)
    <3>1. i + Len(q) \in 1..Len(q \o s) /\ s[i] = (q \o s)[i + Len(q)]
      BY <1>1, <1>2
    <3> QED
      BY <3>1 DEF On
  <2> QED
    BY <2>1, <2>2, <2>3 DEF On
<1>5. ASSUME NEW i \in 1..Len(q \o s), NEW j \in 1..Len(q \o s), (q \o s)[i] = (q \o s)[j] PROVE i = j
  <2>1. CASE i \in 1..Len(q) /\ j \in 1..Len(q)
    BY <1>2, <1>5, <2>1 DEF Waiting, Distinct
  <2>2. CASE i - Len(q) \in 1..Len(s) /\ (q \o s)[i] = s[i - Len(q)] /\ j - Len(q) \in 1..Len(s) /\ (q \o s)[j] = s[j - Len(q)]
    <3>1. i - Len(q) = j - Len(q)
      BY <1>5, <2>2 DEF Waiting, Distinct
    <3> QED
      BY <1>1, <3>1
  <2>3. CASE i \in 1..Len(q) /\ j - Len(q) \in 1..Len(s) /\ (q \o s)[j] = s[j - Len(q)]
    BY <1>2, <1>5, <2>3 DEF On
  <2>4. CASE j \in 1..Len(q) /\ i - Len(q) \in 1..Len(s) /\ (q \o s)[i] = s[i - Len(q)]
    BY <1>2, <1>5, <2>4 DEF On
  <2> QED
    BY <1>3, <2>1, <2>2, <2>3, <2>4
<1> QED
  BY <1>2, <1>4, <1>5 DEF Waiting, Distinct

LEMMA First ==
    ASSUME NEW q, Waiting(q), q # <<>>
    PROVE  /\ Waiting(Tail(q)) /\ Head(q) \in Calls
           /\ On(Tail(q)) = On(q) \ {Head(q)} /\ Head(q) \in On(q)
<1>1. /\ q \in Seq(Calls) /\ Len(q) > 0 /\ Head(q) = q[1]
      /\ Tail(q) \in Seq(Calls) /\ Len(Tail(q)) = Len(q) - 1 /\ \A i \in 1..Len(Tail(q)) : Tail(q)[i] = q[i + 1]
  BY DEF Waiting
<1>2. Distinct(Tail(q))
  BY <1>1 DEF Waiting, Distinct
<1>3. On(Tail(q)) = On(q) \ {Head(q)}
  <2>1. \A c \in On(Tail(q)) : c \in On(q) /\ c # Head(q)
    BY <1>1 DEF Waiting, Distinct, On
  <2>2. ASSUME NEW c \in On(q), c # Head(q) PROVE c \in On(Tail(q))
    <3>1. PICK i \in 1..Len(q) : c = q[i] /\ i # 1
      BY <1>1, <2>2 DEF On
    <3>2. i - 1 \in 1..Len(Tail(q)) /\ Tail(q)[i - 1] = q[i]
      BY <1>1, <3>1
    <3> QED
      BY <3>1, <3>2 DEF On
  <2> QED
    BY <2>1, <2>2
<1>4. Head(q) \in On(q) /\ Head(q) \in Calls
  BY <1>1 DEF On
<1> QED
  BY <1>1, <1>2, <1>3, <1>4 DEF Waiting

\* The processor starts with a queue of stations not blocked, asked for once at most.
LEMMA Starts ==
    ASSUME QueueOK, NEW q, Waiting(q), Photos!Start(q),
           \A c \in On(q) : lookups[c] <= 1, ~running => \A c \in On(q) : c \notin blocked,
           UNCHANGED <<blocked, broken>>
    PROVE  /\ Waiting(queue') /\ Asked' /\ Served' /\ running' \in BOOLEAN
           /\ current' \in {{}} \cup {{c} : c \in Calls \cup {Rest}} /\ lookups' \in [Calls -> Nat]
<1>1. CASE running \/ q = <<>>
  <2>1. queue' = q /\ UNCHANGED <<running, current, lookups>>
    BY <1>1 DEF Photos!Start
  <2>2. Asked'
    BY <2>1 DEF QueueOK, Asked
  <2>3. Served'
    BY <1>1, <2>1 DEF QueueOK, Served
  <2> QED
    BY <2>1, <2>2, <2>3 DEF QueueOK
<1>2. CASE ~running /\ q # <<>>
  <2>1. /\ running' = TRUE /\ queue' = Tail(q) /\ current' = {Head(q)}
        /\ lookups' = [lookups EXCEPT ![Head(q)] = lookups[Head(q)] + 1]
    BY <1>2 DEF Photos!Start, Photos!Ask
  <2>2. /\ Waiting(queue') /\ Head(q) \in Calls /\ On(queue') = On(q) \ {Head(q)} /\ Head(q) \in On(q)
    BY <1>2, <2>1, First
  <2>3. current = {} /\ lookups[Head(q)] = 0
    BY <1>2, <2>2 DEF QueueOK, Served, Asked
  <2>4. lookups' \in [Calls -> Nat]
    <3>1. \A n : n = 0 => n + 1 \in Nat
      OBVIOUS
    <3>2. lookups[Head(q)] + 1 \in Nat
      BY <2>3, <3>1
    <3> QED
      BY <2>1, <2>2, <3>2 DEF QueueOK
  <2>5. \A c \in Calls : lookups'[c] = IF c = Head(q) THEN 1 ELSE lookups[c]
    BY <2>1, <2>2, <2>3 DEF QueueOK
  <2>6. Asked'
    BY <2>1, <2>2, <2>3, <2>5 DEF QueueOK, Asked
  <2>7. Served'
    BY <1>2, <2>1 DEF QueueOK, Served
  <2> QED
    BY <2>1, <2>2, <2>4, <2>6, <2>7
<1> QED
  BY <1>1, <1>2

\* What a rendering adds to the queue is neither blocked nor in it.
LEMMA Longer ==
    ASSUME QueueOK, NEW calls, calls \subseteq Calls, NEW fresher, NEW s \in Photos!Orders(Photos!Queued(calls, fresher))
    PROVE  /\ Waiting(queue \o s) /\ On(queue \o s) = On(queue) \cup On(s)
           /\ On(s) \subseteq Calls \ (fresher \cup blocked)
<1>1. Photos!Range(queue) = On(queue)
  BY SameRange DEF QueueOK, Waiting
<1>2. Photos!Queued(calls, fresher) \subseteq Calls \ (fresher \cup blocked \cup On(queue))
  BY <1>1 DEF Photos!Queued
<1>3. Waiting(s) /\ On(s) \subseteq Photos!Queued(calls, fresher)
  BY <1>2, OrdersAre
<1> QED
  BY <1>2, <1>3, Joined DEF QueueOK

\* A rendering in which the processor may start.
LEMMA Rendered ==
    ASSUME QueueOK, NEW calls, calls \subseteq Calls, NEW fresher, NEW s \in Photos!Orders(Photos!Queued(calls, fresher)),
           Photos!Start(queue \o s), UNCHANGED <<blocked, broken>>
    PROVE  /\ Waiting(queue') /\ Asked' /\ Served' /\ running' \in BOOLEAN
           /\ current' \in {{}} \cup {{c} : c \in Calls \cup {Rest}} /\ lookups' \in [Calls -> Nat]
<1>1. Waiting(queue \o s) /\ On(queue \o s) = On(queue) \cup On(s) /\ On(s) \subseteq Calls \ blocked
  BY Longer
<1>2. On(queue) \subseteq Calls /\ \A c \in On(queue \o s) : lookups[c] <= 1
  BY <1>1 DEF QueueOK, Waiting, Asked, On
<1>3. ~running => On(queue) = {}
  BY DEF QueueOK, Served, On
<1> QED
  BY <1>1, <1>2, <1>3, Starts

LEMMA QueueKept == PhotosInv /\ [Photos!Next]_photoVars => QueueOK'
<1> SUFFICES ASSUME PhotosInv, [Photos!Next]_photoVars PROVE QueueOK'
  OBVIOUS
<1>inv. QueueOK
  BY DEF PhotosInv
<1>rest. Rest \notin Calls /\ \A c \in Calls : {c} # {} /\ {c} # {Rest}
  BY PartsAssumption DEF PartsAssumption, Photos!PhotosAssumption
<1>idle. ASSUME UNCHANGED <<queue, running, current, lookups, blocked, broken>>
         PROVE  /\ Waiting(queue') /\ Asked' /\ Served' /\ running' \in BOOLEAN
                /\ current' \in {{}} \cup {{c} : c \in Calls \cup {Rest}} /\ lookups' \in [Calls -> Nat]
  BY <1>inv, <1>idle DEF QueueOK, Asked, Served
<1>1. ASSUME NEW calls \in SUBSET Calls, Photos!Refresh(calls) PROVE QueueOK'
  <2>1. /\ present' = calls /\ UNCHANGED <<editor, fresh, blocked, full, broken>>
    BY <1>1 DEF Photos!Refresh, Photos!outcomes
  <2>2. /\ Waiting(queue') /\ Asked' /\ Served' /\ running' \in BOOLEAN
        /\ current' \in {{}} \cup {{c} : c \in Calls \cup {Rest}} /\ lookups' \in [Calls -> Nat]
    <3>1. CASE full
      BY <1>1, <1>idle, <2>1, <3>1 DEF Photos!Refresh, Photos!Idle
    <3>2. CASE ~full
      <4>1. PICK s \in Photos!Orders(Photos!Queued(calls, fresh)) : Photos!Start(queue \o s)
        BY <1>1, <3>2 DEF Photos!Refresh
      <4> QED
        BY <1>inv, <2>1, <4>1, Rendered
    <3> QED
      BY <3>1, <3>2
  <2> QED
    BY <1>inv, <2>1, <2>2 DEF QueueOK
<1>2. ASSUME Photos!LookupEnds PROVE QueueOK'
  <2>0. PICK call \in Calls : current = {call} /\ \E outcome \in Photos!OutcomesOf(call) : Photos!Answered(call, outcome)
    BY <1>2 DEF Photos!LookupEnds
  <2>1. PICK outcome \in Photos!OutcomesOf(call) : Photos!Answered(call, outcome)
    BY <2>0
  <2>2. /\ UNCHANGED <<present, editor, full, lookups, running>> /\ blocked' = blocked \cup {call}
        /\ broken' = (broken \/ full) /\ current' = IF full THEN {} ELSE {Rest}
        /\ fresh' = IF outcome \in Photos!Names THEN fresh \cup {call} ELSE fresh
    BY <1>2, <2>1 DEF Photos!LookupEnds, Photos!Answered, Photos!Details, Photos!Nothing
  <2>3. Waiting(queue') /\ \A c \in On(queue') : c \in On(queue) \/ (c \in Calls \ blocked /\ c # call)
    <3>1. CASE queue' = queue
      BY <1>inv, <3>1 DEF QueueOK
    <3>2. CASE queue' # queue
      <4>1. PICK s \in Photos!Orders(Photos!Queued(present, fresh')) : queue' = queue \o s
        BY <2>1, <3>2 DEF Photos!Answered, Photos!Longer
      <4>2. outcome \in Photos!Names
        BY <2>1, <3>2 DEF Photos!Answered
      <4>3. call \in fresh'
        BY <2>2, <4>2
      <4>4. present \subseteq Calls
        BY <1>inv DEF QueueOK
      <4>5. /\ Waiting(queue \o s) /\ On(queue \o s) = On(queue) \cup On(s)
            /\ On(s) \subseteq Calls \ (fresh' \cup blocked)
        BY <1>inv, <4>4, Longer
      <4> QED
        BY <4>1, <4>3, <4>5
    <3> QED
      BY <3>1, <3>2
  <2>4. Asked'
    <3> SUFFICES ASSUME NEW c \in Calls
                 PROVE  /\ lookups'[c] <= 2
                        /\ c \in On(queue') => lookups'[c] <= 1
                        /\ c \notin blocked' => lookups'[c] <= 1
                        /\ c \notin blocked' /\ current' # {c} => lookups'[c] = 0
      BY DEF Asked
    <3> QED
      BY <1>inv, <2>0, <2>2, <2>3 DEF QueueOK, Asked
  <2>5. Served'
    BY <1>inv, <1>rest, <2>0, <2>2 DEF QueueOK, Served
  <2> QED
    BY <1>inv, <2>0, <2>2, <2>3, <2>4, <2>5 DEF QueueOK
<1>3. ASSUME Photos!RestEnds PROVE QueueOK'
  <2>1. current = {Rest} /\ UNCHANGED <<present, editor, fresh, blocked, full, broken>>
    BY <1>3 DEF Photos!RestEnds, Photos!outcomes
  <2>2. CASE queue = <<>>
    <3>1. running' = FALSE /\ current' = {} /\ UNCHANGED <<queue, lookups>>
      BY <1>3, <2>2 DEF Photos!RestEnds, Photos!Nothing
    <3>2. Asked'
      BY <1>inv, <1>rest, <2>1, <3>1 DEF QueueOK, Asked
    <3>3. Served'
      BY <1>inv, <1>rest, <2>1, <2>2, <3>1 DEF QueueOK, Served
    <3> QED
      BY <1>inv, <2>1, <3>1, <3>2, <3>3 DEF QueueOK
  <2>3. CASE queue # <<>>
    <3>1. /\ queue' = Tail(queue) /\ current' = {Head(queue)} /\ UNCHANGED running
          /\ lookups' = [lookups EXCEPT ![Head(queue)] = lookups[Head(queue)] + 1]
      BY <1>3, <2>3 DEF Photos!RestEnds, Photos!Ask
    <3>2. /\ Waiting(queue') /\ Head(queue) \in Calls /\ On(queue') = On(queue) \ {Head(queue)} /\ Head(queue) \in On(queue)
      BY <1>inv, <2>3, <3>1, First DEF QueueOK
    <3>3. \A c \in Calls : lookups'[c] = IF c = Head(queue) THEN lookups[c] + 1 ELSE lookups[c]
      BY <1>inv, <3>1 DEF QueueOK
    <3>4. lookups' \in [Calls -> Nat]
      BY <1>inv, <3>1, <3>2 DEF QueueOK
    <3>5. Asked'
      <4> SUFFICES ASSUME NEW c \in Calls
                   PROVE  /\ lookups'[c] <= 2
                          /\ c \in On(queue') => lookups'[c] <= 1
                          /\ c \notin blocked' => lookups'[c] <= 1
                          /\ c \notin blocked' /\ current' # {c} => lookups'[c] = 0
        BY DEF Asked
      <4>1. lookups[c] \in Nat
        BY <1>inv DEF QueueOK
      <4> QED
        BY <1>inv, <1>rest, <2>1, <3>1, <3>2, <3>3, <4>1 DEF QueueOK, Asked
    <3>6. Served'
      BY <1>inv, <2>1, <3>1 DEF QueueOK, Served
    <3> QED
      BY <1>inv, <2>1, <3>1, <3>2, <3>4, <3>5, <3>6 DEF QueueOK
  <2> QED
    BY <2>2, <2>3
<1>4. ASSUME NEW call \in Calls, Photos!EditorAsks(call) PROVE QueueOK'
  <2>1. editor' = {call} /\ UNCHANGED <<present, queue, running, current, fresh, blocked, full, broken, lookups>>
    BY <1>4 DEF Photos!EditorAsks, Photos!outcomes
  <2> QED
    BY <1>inv, <1>idle, <2>1 DEF QueueOK
<1>5. ASSUME Photos!EditorHears PROVE QueueOK'
  <2>1. editor' = {} /\ UNCHANGED <<present, blocked, full, broken>>
    BY <1>5 DEF Photos!EditorHears, Photos!Nothing
  <2>0. PICK call \in editor : \E outcome \in Photos!OutcomesOf(call) :
           IF outcome \in Photos!Names
           THEN Photos!Details(call, outcome) /\ \E q \in Photos!Longer(fresh') : IF full THEN Photos!Idle ELSE Photos!Start(q)
           ELSE UNCHANGED <<fresh, qrzPhoto, image, pending>> /\ Photos!Idle
    BY <1>5 DEF Photos!EditorHears
  <2>2. PICK outcome \in Photos!OutcomesOf(call) :
           IF outcome \in Photos!Names
           THEN Photos!Details(call, outcome) /\ \E q \in Photos!Longer(fresh') : IF full THEN Photos!Idle ELSE Photos!Start(q)
           ELSE UNCHANGED <<fresh, qrzPhoto, image, pending>> /\ Photos!Idle
    BY <2>0
  <2>3. call \in Calls
    BY <1>inv DEF QueueOK
  <2>4. fresh' \subseteq Calls
    BY <1>inv, <2>2, <2>3 DEF QueueOK, Photos!Details
  <2>5. /\ Waiting(queue') /\ Asked' /\ Served' /\ running' \in BOOLEAN
        /\ current' \in {{}} \cup {{c} : c \in Calls \cup {Rest}} /\ lookups' \in [Calls -> Nat]
    <3>1. CASE Photos!Idle
      BY <1>idle, <2>1, <3>1 DEF Photos!Idle
    <3>2. CASE ~full /\ \E q \in Photos!Longer(fresh') : Photos!Start(q)
      <4>1. PICK s \in Photos!Orders(Photos!Queued(present, fresh')) : Photos!Start(queue \o s)
        BY <3>2 DEF Photos!Longer
      <4>2. present \subseteq Calls
        BY <1>inv DEF QueueOK
      <4> QED
        BY <1>inv, <2>1, <4>1, <4>2, Rendered
    <3> QED
      BY <2>2, <3>1, <3>2
  <2> QED
    BY <1>inv, <2>1, <2>4, <2>5 DEF QueueOK
<1>6. ASSUME Photos!StorageChanges PROVE QueueOK'
  <2>1. full' = ~full /\ UNCHANGED <<present, queue, running, current, editor, fresh, blocked, broken, lookups>>
    BY <1>6 DEF Photos!StorageChanges, Photos!outcomes
  <2> QED
    BY <1>inv, <1>idle, <2>1 DEF QueueOK
<1>7. ASSUME NEW call \in Calls, Photos!OutcomeExpires(call) PROVE QueueOK'
  <2>1. /\ fresh' = fresh \ {call} /\ blocked' = blocked \ {call} /\ lookups' = [lookups EXCEPT ![call] = 0]
        /\ UNCHANGED <<present, queue, running, current, editor, full, broken>>
    BY <1>7 DEF Photos!OutcomeExpires
  <2>2. Asked'
    BY <1>inv, <2>1 DEF QueueOK, Asked
  <2>3. Served'
    BY <1>inv, <2>1 DEF QueueOK, Served
  <2> QED
    BY <1>inv, <2>1, <2>2, <2>3 DEF QueueOK
<1>8. ASSUME NEW call \in Calls, Photos!Loaded(call) \/ Photos!ImageFails(call) \/ Photos!FailureExpires(call) PROVE QueueOK'
  <2>1. UNCHANGED <<present, queue, running, current, editor, fresh, blocked, full, broken, lookups>>
    BY <1>8 DEF Photos!Loaded, Photos!ImageFails, Photos!FailureExpires, Photos!outcomes
  <2> QED
    BY <1>inv, <1>idle, <2>1 DEF QueueOK
<1>9. ASSUME UNCHANGED photoVars PROVE QueueOK'
  BY <1>inv, <1>9, <1>idle DEF photoVars, QueueOK
<1> QED
  BY <1>1, <1>2, <1>3, <1>4, <1>5, <1>6, <1>7, <1>8, <1>9 DEF Photos!Next, photoVars, Photos!vars

\* Rows that were just built show what is known of their sources, and wait for no other.
LEMMA Hydrates ==
    ASSUME ImagesOK, NEW calls, calls \subseteq Calls, NEW photos, Photos!Hydrated(calls, photos), UNCHANGED <<resolved, failed>>
    PROVE  Loads' /\ image' \in [Calls -> {"default", "loading", "photo"}] /\ pending' \subseteq Calls
<1>1. pending' = pending \cup ((calls \cap photos) \ (resolved \cup failed))
  BY DEF Photos!Hydrated, Photos!Wanted
<1>2. image' = [c \in Calls |->
          IF c \notin calls \cap photos \/ c \in failed \ resolved THEN "default"
          ELSE IF c \in resolved THEN "photo" ELSE "loading"]
  BY DEF Photos!Hydrated
<1>3. image' \in [Calls -> {"default", "loading", "photo"}]
  BY <1>2
<1>4. \A c \in Calls : (image'[c] = "loading" => c \in pending') /\ (image'[c] = "photo" => c \in resolved')
  BY <1>1, <1>2
<1> QED
  BY <1>1, <1>3, <1>4 DEF ImagesOK, Loads

LEMMA ImagesKept == PhotosInv /\ [Photos!Next]_photoVars => ImagesOK'
<1> SUFFICES ASSUME PhotosInv, [Photos!Next]_photoVars PROVE ImagesOK'
  OBVIOUS
<1>inv. ImagesOK /\ present \subseteq Calls /\ editor \in {{}} \cup {{c} : c \in Calls}
  BY DEF PhotosInv, QueueOK
<1>same. ASSUME UNCHANGED <<image, qrzPhoto, pending, resolved, failed>> PROVE ImagesOK'
  BY <1>inv, <1>same DEF ImagesOK, Loads
<1>details. ASSUME NEW call \in Calls, NEW outcome, Photos!Details(call, outcome), UNCHANGED <<present, resolved, failed>>
            PROVE  ImagesOK'
  <2>1. qrzPhoto' \subseteq Calls
    BY <1>inv, <1>details DEF Photos!Details, ImagesOK
  <2>2. CASE Photos!Hydrated(present, qrzPhoto')
    BY <1>inv, <1>details, <2>1, <2>2, Hydrates DEF ImagesOK
  <2>3. CASE UNCHANGED <<image, pending>>
    BY <1>inv, <1>details, <2>1, <2>3 DEF ImagesOK, Loads
  <2> QED
    BY <1>details, <2>2, <2>3 DEF Photos!Details
<1>1. ASSUME NEW calls \in SUBSET Calls, Photos!Refresh(calls) PROVE ImagesOK'
  <2>1. UNCHANGED <<qrzPhoto, resolved, failed>>
    BY <1>1 DEF Photos!Refresh, Photos!outcomes
  <2>2. CASE full
    <3>1. image' = [c \in Calls |-> "default"] /\ UNCHANGED pending
      BY <1>1, <2>2 DEF Photos!Refresh
    <3> QED
      BY <1>inv, <2>1, <3>1 DEF ImagesOK, Loads
  <2>3. CASE ~full
    <3>1. Photos!Hydrated(calls, qrzPhoto)
      BY <1>1, <2>3 DEF Photos!Refresh
    <3> QED
      BY <1>inv, <2>1, <3>1, Hydrates DEF ImagesOK
  <2> QED
    BY <2>2, <2>3
<1>2. ASSUME Photos!LookupEnds PROVE ImagesOK'
  BY <1>2, <1>details DEF Photos!LookupEnds, Photos!Answered
<1>3. ASSUME Photos!EditorHears PROVE ImagesOK'
  <2>1. UNCHANGED <<present, resolved, failed>>
    BY <1>3 DEF Photos!EditorHears
  <2>2. editor \subseteq Calls
    BY <1>inv
  <2>3. \/ \E call \in Calls : \E outcome \in Photos!OutcomesOf(call) : Photos!Details(call, outcome)
        \/ UNCHANGED <<qrzPhoto, image, pending>>
    BY <1>3, <2>2 DEF Photos!EditorHears
  <2> QED
    BY <1>details, <1>same, <2>1, <2>3
<1>4. ASSUME NEW call \in Calls, Photos!Loaded(call) PROVE ImagesOK'
  <2>1. call \in pending /\ pending' = pending \ {call} /\ UNCHANGED qrzPhoto
    BY <1>4 DEF Photos!Loaded, Photos!outcomes
  <2>2. CASE /\ resolved' = resolved \cup {call} /\ failed' = failed \ {call}
             /\ image' = [image EXCEPT ![call] = IF @ = "loading" THEN "photo" ELSE @]
    <3>1. \A c \in Calls : image'[c] = IF c = call /\ image[c] = "loading" THEN "photo" ELSE image[c]
      BY <1>inv, <2>2 DEF ImagesOK
    <3>2. image' \in [Calls -> {"default", "loading", "photo"}]
      BY <1>inv, <2>2 DEF ImagesOK
    <3> QED
      BY <1>inv, <2>1, <2>2, <3>1, <3>2 DEF ImagesOK, Loads
  <2>3. CASE /\ failed' = failed \cup {call} /\ UNCHANGED resolved
             /\ image' = [image EXCEPT ![call] = IF @ = "loading" THEN "default" ELSE @]
    <3>1. \A c \in Calls : image'[c] = IF c = call /\ image[c] = "loading" THEN "default" ELSE image[c]
      BY <1>inv, <2>3 DEF ImagesOK
    <3>2. image' \in [Calls -> {"default", "loading", "photo"}]
      BY <1>inv, <2>3 DEF ImagesOK
    <3> QED
      BY <1>inv, <2>1, <2>3, <3>1, <3>2 DEF ImagesOK, Loads
  <2> QED
    BY <1>4, <2>2, <2>3 DEF Photos!Loaded
<1>5. ASSUME NEW call \in Calls, Photos!ImageFails(call) PROVE ImagesOK'
  <2>1. /\ image[call] = "photo" /\ image' = [image EXCEPT ![call] = "default"]
        /\ failed' = failed \cup {call} /\ resolved' = resolved \ {call} /\ UNCHANGED <<pending, qrzPhoto>>
    BY <1>5 DEF Photos!ImageFails, Photos!outcomes
  <2>2. /\ \A c \in Calls : image'[c] = IF c = call THEN "default" ELSE image[c]
        /\ image' \in [Calls -> {"default", "loading", "photo"}]
    BY <1>inv, <2>1 DEF ImagesOK
  <2> QED
    BY <1>inv, <2>1, <2>2 DEF ImagesOK, Loads
<1>6. ASSUME NEW call \in Calls, Photos!FailureExpires(call) PROVE ImagesOK'
  <2>1. failed' = failed \ {call} /\ UNCHANGED <<image, qrzPhoto, pending, resolved>>
    BY <1>6 DEF Photos!FailureExpires, Photos!outcomes
  <2> QED
    BY <1>inv, <2>1 DEF ImagesOK, Loads
<1>7. ASSUME \/ Photos!RestEnds \/ Photos!StorageChanges \/ UNCHANGED photoVars
             \/ \E call \in Calls : Photos!EditorAsks(call) \/ Photos!OutcomeExpires(call)
      PROVE  ImagesOK'
  <2>1. UNCHANGED <<image, qrzPhoto, pending, resolved, failed>>
    BY <1>7 DEF Photos!RestEnds, Photos!StorageChanges, Photos!EditorAsks, Photos!OutcomeExpires, photoVars, Photos!outcomes, Photos!sources
  <2> QED
    BY <1>same, <2>1
<1> QED
  BY <1>1, <1>2, <1>3, <1>4, <1>5, <1>6, <1>7 DEF Photos!Next

LEMMA PhotosKept == PhotosInv /\ [Photos!Next]_photoVars => PhotosInv'
  BY QueueKept, ImagesKept DEF PhotosInv

-----------------------------------------------------------------------------
(* The profile of a station. *)

\* A field as it is read without what the room shows, and what somebody wrote into it.
Cur(d, f) == Profiles!FieldState(d, f, Blank)
Cont(s) == IF s.origin = "legacy" THEN None ELSE s
Raw(d) == \A f \in Fields : d[f] = None

\* What one who prepares the profile is about to write; what a visit last read of a profile that was prepared; and
\* what a window showed of a field.
Filled(c, d) ==
    /\ c \in Profiles!Docs /\ Profiles!Complete(c)
    /\ ~Profiles!Complete(d) => \A f \in Fields : c[f].rev = Cur(d, f).rev /\ Cont(c[f]) = Cont(Cur(d, f))
Copied(c, d, over) ==
    /\ c \in Profiles!Docs /\ Profiles!Complete(c)
    /\ ~over => \A f \in Fields : c[f].rev <= d[f].rev /\ (c[f].rev = d[f].rev => c[f] = d[f])
Sees(f, rev, seen, d) == rev <= Cur(d, f).rev /\ (rev = Cur(d, f).rev => Cont(Cur(d, f)) = seen)

EditOK(r, d, over) ==
    /\ r \in Profiles!EditRequest
    /\ r.at = "fill" => Filled(r.copy, d)
    /\ r.at \in {"cas", "show"} => Profiles!Complete(d)
    /\ ~over => Sees(r.field, r.expected, r.seen, d)
VisitOK(r, d, over) ==
    /\ r \in Profiles!VisitRequest
    /\ r.at = "fill" => Filled(r.copy, d)
    /\ r.at = "cas" => Profiles!Complete(d) /\ Copied(r.copy, d, over)
    /\ r.at = "write" => IF r.copy = None THEN r.shown \in Profiles!Shows ELSE Profiles!Complete(r.copy)
Window == [Fields -> [rev : Nat, seen : Profiles!Field \cup {None}]]
WindowOK(w, d, over) == w \in Window /\ (~over => \A f \in Fields : Sees(f, w[f].rev, w[f].seen, d))

\* The profile is as it was found or prepared, and what there is of requests and windows is of that profile or of an
\* earlier state of it.
DocOK(d) == d \in Profiles!Docs /\ (Profiles!Complete(d) \/ Raw(d))
Windows(w, d, over) == w \in [Editors -> Window \cup {None}] /\ \A m \in Editors : w[m] = None \/ WindowOK(w[m], d, over)
Requests(q, d, over) ==
    /\ DOMAIN q = Profiles!Writers
    /\ q["station"] = None \/ VisitOK(q["station"], d, over)
    /\ \A m \in Editors : q[m] = None \/ EditOK(q[m], d, over)
Others ==
    /\ room \in [shows : Profiles!Shows, told : [Fields -> Own \cup {Blank}]] /\ account \in [Fields -> Own]
    /\ lookup \in {"none", "pending", "done"}
    /\ refilled \in BOOLEAN /\ edits \in Nat /\ visits \in Nat

ProfilesInv == DocOK(doc) /\ Windows(modal, doc, refilled) /\ Requests(reqs, doc, refilled) /\ Others

\* What a step may do to the profile: nothing, prepare it, or take the revision of a field up by one.
Onward(d, over, e, after) ==
    /\ DocOK(e)
    /\ over => after
    /\ Profiles!Complete(d) => Profiles!Complete(e)
    /\ ~Profiles!Complete(e) => e = d
    /\ ~after => \A f \in Fields :
          /\ Profiles!Complete(d) => e[f] = d[f] \/ e[f].rev > d[f].rev
          /\ \/ Cur(e, f).rev > Cur(d, f).rev
             \/ Cur(e, f).rev = Cur(d, f).rev /\ Cont(Cur(e, f)) = Cont(Cur(d, f))

LEMMA ProfileNames ==
    /\ "old" \notin Fields /\ "station" \notin Editors
    /\ None \notin Profiles!Values /\ None \notin Profiles!Field /\ None \notin Profiles!Docs
    /\ Editors \subseteq Profiles!Values /\ Blank \in Profiles!Values /\ Qrz \in Profiles!Values /\ Own \subseteq Profiles!Values
  BY PartsAssumption DEF PartsAssumption, Profiles!ProfilesAssumption, Profiles!Values

\* A field as it is read.
LEMMA FieldIs ==
    ASSUME NEW d \in Profiles!Docs, NEW f \in Fields, NEW display \in Profiles!Values
    PROVE  /\ Profiles!FieldState(d, f, display) \in Profiles!Field
           /\ Profiles!Complete(d) => /\ Profiles!FieldState(d, f, display).rev = d[f].rev
                                      /\ Profiles!FieldState(d, f, display).origin = d[f].origin
                                      /\ Cur(d, f) = d[f] /\ d[f] \in Profiles!Field
           /\ Profiles!FieldState(d, f, display).rev = Cur(d, f).rev
           /\ d[f] = None => Cont(Profiles!FieldState(d, f, display)) = Cont(Cur(d, f))
<1> DEFINE s == Profiles!FieldState(d, f, display)
<1>1. /\ d["old"] \in Editors \cup {None} /\ d[f] \in Profiles!Field \cup {None}
  BY DEF Profiles!Docs
<1>2. CASE f = "name" /\ d["old"] # None /\ (d[f] # None => d[f].value = Blank /\ d[f].rev = 0)
  <2>1. s = [value |-> d["old"], rev |-> 1, origin |-> "manual"] /\ Cur(d, f) = s
    BY <1>2 DEF Profiles!FieldState, Cur
  <2>2. s \in Profiles!Field
    BY <1>1, <1>2, <2>1, ProfileNames DEF Profiles!Field
  <2> QED
    BY <1>2, <2>1, <2>2 DEF Profiles!Complete
<1>3. CASE ~(f = "name" /\ d["old"] # None /\ (d[f] # None => d[f].value = Blank /\ d[f].rev = 0)) /\ d[f] # None
  <2>1. d[f] \in Profiles!Field
    BY <1>1, <1>3
  <2>2. PICK v \in Profiles!Values : s = [d[f] EXCEPT !.value = v]
    BY <1>3, <2>1 DEF Profiles!FieldState, Profiles!Field
  <2>3. s \in Profiles!Field /\ s.rev = d[f].rev /\ s.origin = d[f].origin
    BY <2>1, <2>2 DEF Profiles!Field
  <2>4. Cur(d, f) = [d[f] EXCEPT !.value = d[f].value]
    BY <1>3 DEF Profiles!FieldState, Cur
  <2>5. Cur(d, f) = d[f]
    BY <2>1, <2>4 DEF Profiles!Field
  <2> QED
    BY <1>3, <2>1, <2>3, <2>5
<1>4. CASE ~(f = "name" /\ d["old"] # None /\ (d[f] # None => d[f].value = Blank /\ d[f].rev = 0)) /\ d[f] = None
  <2>1. s = [value |-> display, rev |-> 0, origin |-> "legacy"] /\ Cur(d, f) = [value |-> Blank, rev |-> 0, origin |-> "legacy"]
    BY <1>4 DEF Profiles!FieldState, Cur, Profiles!Empty
  <2>2. s \in Profiles!Field
    BY <2>1 DEF Profiles!Field
  <2> QED
    BY <1>4, <2>1, <2>2 DEF Profiles!Complete, Cont
<1> QED
  BY <1>2, <1>3, <1>4

\* Whatever was read stays an earlier state of the profile.
LEMMA SeesOn ==
    ASSUME NEW d, NEW over, NEW e, NEW after, d \in Profiles!Docs, Onward(d, over, e, after), ~after,
           NEW f \in Fields, NEW rev \in Nat, NEW seen, Sees(f, rev, seen, d)
    PROVE  Sees(f, rev, seen, e)
<1>1. /\ Blank \in Profiles!Values /\ e \in Profiles!Docs
      /\ \A x \in Profiles!Docs : Cur(x, f) \in Profiles!Field
  BY ProfileNames, FieldIs DEF Onward, DocOK, Cur
<1>2. Cur(d, f).rev \in Nat /\ Cur(e, f).rev \in Nat
  BY <1>1 DEF Profiles!Field
<1> QED
  BY <1>2 DEF Onward, Sees

LEMMA FilledOn ==
    ASSUME NEW d, NEW over, NEW e, NEW after, Onward(d, over, e, after), NEW c, Filled(c, d)
    PROVE  Filled(c, e)
  BY DEF Onward, Filled

LEMMA CopiedOn ==
    ASSUME NEW d \in Profiles!Docs, NEW over, NEW e, NEW after, Onward(d, over, e, after), Profiles!Complete(d),
           NEW c, Copied(c, d, over)
    PROVE  Copied(c, e, after)
<1> SUFFICES ASSUME ~after, NEW f \in Fields PROVE c[f].rev <= e[f].rev /\ (c[f].rev = e[f].rev => c[f] = e[f])
  BY DEF Copied
<1>1. c \in Profiles!Docs /\ e \in Profiles!Docs /\ Profiles!Complete(c) /\ Profiles!Complete(e)
  BY DEF Copied, Onward, DocOK
<1>2. c[f] \in Profiles!Field /\ d[f] \in Profiles!Field /\ e[f] \in Profiles!Field
  BY <1>1, ProfileNames, FieldIs
<1>3. c[f].rev \in Nat /\ d[f].rev \in Nat /\ e[f].rev \in Nat
  BY <1>2 DEF Profiles!Field
<1>4. c[f].rev <= d[f].rev /\ (c[f].rev = d[f].rev => c[f] = d[f]) /\ (e[f] = d[f] \/ e[f].rev > d[f].rev)
  BY DEF Copied, Onward
<1> QED
  BY <1>3, <1>4

LEMMA EditOn ==
    ASSUME NEW d \in Profiles!Docs, NEW over, NEW e, NEW after, Onward(d, over, e, after), NEW r, EditOK(r, d, over)
    PROVE  EditOK(r, e, after)
<1>1. r \in Profiles!EditRequest /\ (r.at = "fill" => Filled(r.copy, e))
  BY FilledOn DEF EditOK
<1>2. r.field \in Fields /\ r.expected \in Nat
  BY <1>1 DEF Profiles!EditRequest
<1>3. ~after => Sees(r.field, r.expected, r.seen, e)
  BY <1>2, SeesOn DEF EditOK, Onward
<1>4. r.at \in {"cas", "show"} => Profiles!Complete(e)
  BY DEF EditOK, Onward
<1> QED
  BY <1>1, <1>3, <1>4 DEF EditOK

LEMMA VisitOn ==
    ASSUME NEW d \in Profiles!Docs, NEW over, NEW e, NEW after, Onward(d, over, e, after), NEW r, VisitOK(r, d, over)
    PROVE  VisitOK(r, e, after)
<1>1. r.at = "fill" => Filled(r.copy, e)
  BY FilledOn DEF VisitOK
<1>2. r.at = "cas" => Profiles!Complete(e) /\ Copied(r.copy, e, after)
  BY CopiedOn DEF VisitOK, Onward
<1> QED
  BY <1>1, <1>2 DEF VisitOK

LEMMA WindowsOn ==
    ASSUME NEW d \in Profiles!Docs, NEW over, NEW e, NEW after, Onward(d, over, e, after), NEW w, Windows(w, d, over)
    PROVE  Windows(w, e, after)
<1> SUFFICES ASSUME NEW m \in Editors, w[m] # None PROVE WindowOK(w[m], e, after)
  BY DEF Windows
<1>1. w[m] \in Window /\ (~over => \A f \in Fields : Sees(f, w[m][f].rev, w[m][f].seen, d))
  BY DEF Windows, WindowOK
<1>2. \A f \in Fields : w[m][f].rev \in Nat
  BY <1>1 DEF Window
<1>3. ~after => \A f \in Fields : Sees(f, w[m][f].rev, w[m][f].seen, e)
  BY <1>1, <1>2, SeesOn DEF Onward
<1> QED
  BY <1>1, <1>3 DEF WindowOK

\* Nothing happens to the profile.
LEMMA Still == ASSUME NEW d, DocOK(d), NEW over PROVE Onward(d, over, d, over)
  BY DEF Onward

\* One request goes on, and the profile with it.
LEMMA OneRequest ==
    ASSUME ProfilesInv, Onward(doc, refilled, doc', refilled'), NEW k \in Profiles!Writers, NEW r, Profiles!Put(k, r),
           r = None \/ (IF k = "station" THEN VisitOK(r, doc', refilled') ELSE EditOK(r, doc', refilled'))
    PROVE  /\ Requests(reqs, doc, refilled)'
           /\ \A m \in Editors : Profiles!At(m, "cas") /\ reqs'[m].at = "show" => m = k /\ r.at = "show"
<1> DEFINE q == reqs'
<1>1. DOMAIN q = Profiles!Writers /\ \A j \in Profiles!Writers : q[j] = IF j = k THEN r ELSE reqs[j]
  BY DEF ProfilesInv, Requests, Profiles!Put
<1>2. doc \in Profiles!Docs
  BY DEF ProfilesInv, DocOK
<1>3. q["station"] = None \/ VisitOK(q["station"], doc', refilled')
  BY <1>1, <1>2, VisitOn DEF ProfilesInv, Requests, Profiles!Writers
<1>4. ASSUME NEW m \in Editors PROVE q[m] = None \/ EditOK(q[m], doc', refilled')
  BY <1>1, <1>2, ProfileNames, EditOn DEF ProfilesInv, Requests, Profiles!Writers
<1>5. ASSUME NEW m \in Editors, Profiles!At(m, "cas"), q[m].at = "show" PROVE m = k /\ r.at = "show"
  BY <1>1, <1>5 DEF Profiles!At, Profiles!Writers
<1> QED
  BY <1>1, <1>3, <1>4, <1>5 DEF Requests

\* What a step may not do: save an edit over what its manager did not see, or take from a manager what he wrote.
Conflicts == \A m \in Editors : Profiles!At(m, "cas") /\ reqs'[m].at = "show" /\ ~refilled
                => Profiles!Content(reqs[m].field) = reqs[m].seen
Stands == \A f \in Fields : doc[f] # None /\ doc[f].origin = "manual" /\ doc'[f] # doc[f] /\ ~refilled'
                => doc'[f].origin \in {"manual", "qrz"}
Good == ProfilesInv' /\ Conflicts /\ Stands

LEMMA ContentIs == \A f : Profiles!Content(f) = Cont(Cur(doc, f))
  BY DEF Profiles!Content, Cont, Cur

\* Steps that leave the profile alone.
LEMMA Elsewhere ==
    ASSUME ProfilesInv, UNCHANGED <<doc, refilled>>, NEW k \in Profiles!Writers, NEW r, Profiles!Put(k, r),
           r = None \/ (IF k = "station" THEN VisitOK(r, doc, refilled) ELSE EditOK(r, doc, refilled)),
           ~(Profiles!At(k, "cas") /\ r.at = "show"),
           Windows(modal', doc, refilled), Others'
    PROVE  Good
<1>1. DocOK(doc') /\ Onward(doc, refilled, doc', refilled')
  BY Still DEF ProfilesInv
<1>2. /\ Requests(reqs, doc, refilled)'
      /\ \A m \in Editors : Profiles!At(m, "cas") /\ reqs'[m].at = "show" => m = k /\ r.at = "show"
  BY <1>1, OneRequest
<1>3. Windows(modal, doc, refilled)'
  OBVIOUS
<1> QED
  BY <1>1, <1>2, <1>3 DEF Good, ProfilesInv, Conflicts, Stands

LEMMA WindowSteps ==
    ASSUME ProfilesInv, NEW m \in Editors, Profiles!OpenEdit(m) \/ Profiles!SaveEdit(m) \/ Profiles!CloseEdit(m)
    PROVE  Good
<1>m. m \in Profiles!Writers /\ m # "station"
  BY ProfileNames DEF Profiles!Writers
<1>1. ASSUME Profiles!OpenEdit(m) PROVE Good
  <2>1. UNCHANGED <<doc, room, account, lookup, reqs, edits, visits, refilled>>
    BY <1>1 DEF Profiles!OpenEdit
  <2>2. PICK w : /\ w = [f \in Fields |-> [rev |-> Profiles!FieldState(doc, f, room.shows[f]).rev, seen |-> Profiles!Content(f)]]
                 /\ modal' = [modal EXCEPT ![m] = w]
    BY <1>1 DEF Profiles!OpenEdit
  <2>3. ASSUME NEW f \in Fields
        PROVE  w[f].rev \in Nat /\ w[f].seen \in Profiles!Field \cup {None} /\ Sees(f, w[f].rev, w[f].seen, doc)
    <3>1. room.shows[f] \in Profiles!Values /\ doc \in Profiles!Docs /\ Blank \in Profiles!Values
      BY ProfileNames DEF ProfilesInv, Others, Profiles!Shows, DocOK
    <3>2. /\ Cur(doc, f) \in Profiles!Field /\ Profiles!FieldState(doc, f, room.shows[f]).rev = Cur(doc, f).rev
      BY <3>1, FieldIs DEF Cur
    <3>3. w[f].rev = Cur(doc, f).rev /\ w[f].seen = Cont(Cur(doc, f))
      BY <2>2, <3>2, ContentIs
    <3> QED
      BY <3>2, <3>3 DEF Sees, Cont, Profiles!Field
  <2>4. WindowOK(w, doc, refilled)
    <3>1. w \in Window
      BY <2>2, <2>3 DEF Window
    <3> QED
      BY <2>3, <3>1 DEF WindowOK
  <2>5. Windows(modal', doc, refilled)
    BY <2>2, <2>4 DEF ProfilesInv, Windows, WindowOK
  <2> QED
    BY <2>1, <2>5 DEF Good, ProfilesInv, Others, Conflicts, Stands, Profiles!At
<1>2. ASSUME Profiles!SaveEdit(m) PROVE Good
  <2>1. UNCHANGED <<doc, room, account, lookup, modal, visits, refilled>> /\ edits' = edits + 1 /\ modal[m] # None
    BY <1>2 DEF Profiles!SaveEdit
  <2>2. PICK f \in Fields, value \in {m, Blank} :
           reqs' = [reqs EXCEPT ![m] = [at |-> "sent", field |-> f, value |-> value, expected |-> modal[m][f].rev,
                       seen |-> modal[m][f].seen, copy |-> None, shown |-> None, left |-> {}, tries |-> 0]]
    BY <1>2 DEF Profiles!SaveEdit
  <2>3. PICK r : r = [at |-> "sent", field |-> f, value |-> value, expected |-> modal[m][f].rev,
                       seen |-> modal[m][f].seen, copy |-> None, shown |-> None, left |-> {}, tries |-> 0]
    OBVIOUS
  <2>4. WindowOK(modal[m], doc, refilled)
    BY <2>1 DEF ProfilesInv, Windows
  <2>5. modal[m][f].rev \in Nat /\ modal[m][f].seen \in Profiles!Field \cup {None}
    BY <2>4 DEF WindowOK, Window
  <2>6. r \in Profiles!EditRequest
    BY <2>3, <2>5, ProfileNames DEF Profiles!EditRequest
  <2>7. EditOK(r, doc, refilled)
    BY <2>3, <2>4, <2>6 DEF EditOK, WindowOK
  <2>8. Profiles!Put(m, r)
    BY <2>2, <2>3 DEF Profiles!Put
  <2>9. Windows(modal', doc, refilled) /\ Others'
    BY <2>1 DEF ProfilesInv, Others
  <2> QED
    BY <1>m, <2>1, <2>3, <2>7, <2>8, <2>9, Elsewhere
<1>3. ASSUME Profiles!CloseEdit(m) PROVE Good
  <2>1. /\ UNCHANGED <<doc, room, account, lookup, edits, visits, refilled>>
        /\ modal' = [modal EXCEPT ![m] = None] /\ Profiles!Put(m, None) /\ ~Profiles!At(m, "cas")
    BY <1>3 DEF Profiles!CloseEdit, Profiles!Put, Profiles!At
  <2>2. Windows(modal', doc, refilled)
    BY <2>1 DEF ProfilesInv, Windows
  <2>3. Others'
    BY <2>1 DEF ProfilesInv, Others
  <2> QED
    BY <1>m, <2>1, <2>2, <2>3, Elsewhere
<1> QED
  BY <1>1, <1>2, <1>3

\* A request there is, of a manager's edit or of a visit.
LEMMA RequestIs ==
    ASSUME ProfilesInv, NEW k \in Profiles!Writers, reqs[k] # None
    PROVE  /\ k = "station" => VisitOK(reqs[k], doc, refilled)
           /\ k # "station" => k \in Editors /\ EditOK(reqs[k], doc, refilled)
           /\ k \in Editors <=> k # "station"
  BY ProfileNames DEF ProfilesInv, Requests, Profiles!Writers

LEMMA EditSteps ==
    ASSUME ProfilesInv, NEW k \in Profiles!Writers, Profiles!ReadForEdit(k) \/ Profiles!ShowEdit(k)
    PROVE  Good
<1>1. k \in Editors /\ k # "station" /\ EditOK(reqs[k], doc, refilled)
  <2>1. reqs[k] # None /\ reqs[k].at \in {"sent", "show"}
    BY DEF Profiles!ReadForEdit, Profiles!ShowEdit, Profiles!At
  <2> QED
    BY <2>1, RequestIs DEF VisitOK, Profiles!VisitRequest
<1>2. reqs[k] \in Profiles!EditRequest
  BY <1>1 DEF EditOK
<1>3. UNCHANGED <<doc, account, lookup, modal, edits, visits, refilled>>
  BY DEF Profiles!ReadForEdit, Profiles!ShowEdit
<1>4. ASSUME Profiles!ReadForEdit(k) PROVE Good
  <2>1. PICK r : /\ Profiles!Put(k, r)
                 /\ \/ r = [reqs[k] EXCEPT !.at = "answered"]
                    \/ r = [reqs[k] EXCEPT !.at = "ensure", !.shown = room.shows]
                    \/ r = [reqs[k] EXCEPT !.at = "ensure", !.shown = room.shows, !.value = Qrz]
    BY <1>4 DEF Profiles!ReadForEdit
  <2>2. room.shows \in Profiles!Shows
    BY DEF ProfilesInv, Others
  <2>3. r \in Profiles!EditRequest /\ r.at \in {"answered", "ensure"}
    BY <1>2, <2>1, <2>2, ProfileNames DEF Profiles!EditRequest
  <2>4. r.field = reqs[k].field /\ r.expected = reqs[k].expected /\ r.seen = reqs[k].seen
    BY <1>2, <2>1 DEF Profiles!EditRequest
  <2>5. EditOK(r, doc, refilled)
    BY <1>1, <2>3, <2>4 DEF EditOK
  <2>6. Windows(modal', doc, refilled) /\ Others'
    BY <1>3, <1>4 DEF ProfilesInv, Others, Profiles!ReadForEdit
  <2> QED
    BY <1>1, <1>3, <2>1, <2>3, <2>5, <2>6, Elsewhere
<1>5. ASSUME Profiles!ShowEdit(k) PROVE Good
  <2>1. PICK r : r = [reqs[k] EXCEPT !.at = "answered"] /\ Profiles!Put(k, r)
    BY <1>5 DEF Profiles!ShowEdit
  <2>2. /\ r \in Profiles!EditRequest /\ r.at = "answered"
        /\ r.field = reqs[k].field /\ r.expected = reqs[k].expected /\ r.seen = reqs[k].seen
    BY <1>2, <2>1 DEF Profiles!EditRequest
  <2>3. EditOK(r, doc, refilled)
    BY <1>1, <2>2 DEF EditOK
  <2>4. room' \in [shows : Profiles!Shows, told : [Fields -> Own \cup {Blank}]]
    <3>1. PICK v : v = reqs[k].value
      OBVIOUS
    <3>2. v \in Profiles!Values /\ room' = [room EXCEPT !.shows[reqs[k].field] = v]
      BY <1>2, <1>5, <3>1 DEF Profiles!ShowEdit, Profiles!EditRequest
    <3>3. room'.shows = [room.shows EXCEPT ![reqs[k].field] = v] /\ room'.told = room.told
      BY <3>2 DEF ProfilesInv, Others
    <3> QED
      BY <3>2, <3>3 DEF ProfilesInv, Others, Profiles!Shows
  <2>5. Windows(modal', doc, refilled) /\ Others'
    BY <1>3, <2>4 DEF ProfilesInv, Others
  <2> QED
    BY <1>1, <1>3, <2>1, <2>2, <2>3, <2>5, Elsewhere
<1> QED
  BY <1>4, <1>5

LEMMA Reads ==
    ASSUME ProfilesInv, NEW k \in Profiles!Writers, Profiles!EnsureRead(k) \/ Profiles!Find(k)
    PROVE  Good
<1>doc. doc \in Profiles!Docs /\ (Profiles!Complete(doc) \/ Raw(doc))
  BY DEF ProfilesInv, DocOK
<1>1. UNCHANGED <<doc, room, account, lookup, modal, edits, visits, refilled>>
  BY DEF Profiles!EnsureRead, Profiles!Find
<1>2. Windows(modal', doc, refilled) /\ Others'
  BY <1>1 DEF ProfilesInv, Others
<1>3. Profiles!Complete(doc) => Copied(doc, doc, refilled)
  <2>1. ASSUME NEW f \in Fields, Profiles!Complete(doc) PROVE doc[f].rev <= doc[f].rev
    <3>1. doc[f] \in Profiles!Field
      BY <1>doc, <2>1, ProfileNames, FieldIs
    <3> QED
      BY <3>1 DEF Profiles!Field
  <2> QED
    BY <1>doc, <2>1 DEF Copied
<1>4. ASSUME Profiles!Find(k) PROVE Good
  <2>1. k = "station" /\ VisitOK(reqs[k], doc, refilled)
    <3>1. reqs[k] # None /\ reqs[k].at = "find"
      BY <1>4 DEF Profiles!Find, Profiles!At
    <3> QED
      BY <3>1, RequestIs DEF EditOK, Profiles!EditRequest
  <2>2. reqs[k] \in Profiles!VisitRequest
    BY <2>1 DEF VisitOK
  <2>3. PICK at1 : at1 = IF Profiles!Complete(doc) THEN "cas" ELSE "ensure"
    OBVIOUS
  <2>4. PICK r : r = [reqs[k] EXCEPT !.at = at1, !.copy = doc, !.shown = None] /\ Profiles!Put(k, r)
    BY <1>4, <2>3 DEF Profiles!Find
  <2>5. r \in Profiles!VisitRequest /\ r.at = at1 /\ r.copy = doc
    BY <1>doc, <2>2, <2>3, <2>4 DEF Profiles!VisitRequest
  <2>6. VisitOK(r, doc, refilled)
    BY <1>3, <2>3, <2>5 DEF VisitOK
  <2>7. r.at # "show"
    BY <2>3, <2>5
  <2> QED
    BY <1>1, <1>2, <2>1, <2>4, <2>6, <2>7, Elsewhere
<1>5. ASSUME Profiles!EnsureRead(k), Profiles!Complete(doc) PROVE Good
  <2>1. PICK r : r = [reqs[k] EXCEPT !.at = "cas", !.copy = doc] /\ Profiles!Put(k, r)
    BY <1>5 DEF Profiles!EnsureRead
  <2>2. reqs[k] # None
    BY <1>5 DEF Profiles!EnsureRead, Profiles!At
  <2>3. CASE k = "station"
    <3>1. r \in Profiles!VisitRequest /\ r.at = "cas" /\ r.copy = doc
      BY <1>doc, <2>1, <2>2, <2>3, RequestIs DEF VisitOK, Profiles!VisitRequest
    <3>2. VisitOK(r, doc, refilled)
      BY <1>3, <1>5, <3>1 DEF VisitOK
    <3> QED
      BY <1>1, <1>2, <2>1, <2>3, <3>1, <3>2, Elsewhere
  <2>4. CASE k # "station"
    <3>1. EditOK(reqs[k], doc, refilled)
      BY <2>2, <2>4, RequestIs
    <3>2. /\ r \in Profiles!EditRequest /\ r.at = "cas"
          /\ r.field = reqs[k].field /\ r.expected = reqs[k].expected /\ r.seen = reqs[k].seen
      BY <1>doc, <2>1, <3>1 DEF EditOK, Profiles!EditRequest
    <3>3. EditOK(r, doc, refilled)
      BY <1>5, <3>1, <3>2 DEF EditOK
    <3> QED
      BY <1>1, <1>2, <2>1, <2>4, <3>2, <3>3, Elsewhere
  <2> QED
    BY <2>3, <2>4
<1>6. ASSUME Profiles!EnsureRead(k), ~Profiles!Complete(doc) PROVE Good
  <2>1. PICK c : c = [f \in Fields \cup {"old"} |->
                        IF f = "old" THEN None ELSE Profiles!FieldState(doc, f, Profiles!Shown(reqs[k], f))]
    OBVIOUS
  <2>2. PICK r : r = [reqs[k] EXCEPT !.at = "fill", !.copy = c] /\ Profiles!Put(k, r)
    BY <1>6, <2>1 DEF Profiles!EnsureRead
  <2>3. reqs[k] # None
    BY <1>6 DEF Profiles!EnsureRead, Profiles!At
  <2>4. \A f \in Fields : Profiles!Shown(reqs[k], f) \in Profiles!Values
    <3>1. reqs[k].shown \in Profiles!Shows \cup {None}
      BY <2>3, RequestIs DEF VisitOK, EditOK, Profiles!VisitRequest, Profiles!EditRequest
    <3> QED
      BY <3>1, ProfileNames DEF Profiles!Shown, Profiles!Shows
  <2>5. ASSUME NEW f \in Fields
        PROVE  c[f] \in Profiles!Field /\ c[f].rev = Cur(doc, f).rev /\ Cont(c[f]) = Cont(Cur(doc, f))
    <3>1. doc[f] = None
      BY <1>doc, <1>6 DEF Raw
    <3>2. c[f] = Profiles!FieldState(doc, f, Profiles!Shown(reqs[k], f))
      BY <2>1, ProfileNames
    <3> QED
      BY <1>doc, <2>4, <3>1, <3>2, FieldIs
  <2>6. c["old"] = None
    BY <2>1
  <2>7. c \in Profiles!Docs /\ Profiles!Complete(c)
    <3>1. c \in [Fields \cup {"old"} -> Profiles!Field \cup Editors \cup {None}]
      BY <2>1, <2>5, <2>6
    <3> QED
      BY <2>5, <2>6, <3>1, ProfileNames DEF Profiles!Docs, Profiles!Complete
  <2>8. Filled(c, doc)
    BY <2>5, <2>7 DEF Filled
  <2>9. CASE k = "station"
    <3>1. r \in Profiles!VisitRequest /\ r.at = "fill" /\ r.copy = c
      BY <2>2, <2>3, <2>7, <2>9, RequestIs DEF VisitOK, Profiles!VisitRequest
    <3>2. VisitOK(r, doc, refilled)
      BY <2>8, <3>1 DEF VisitOK
    <3> QED
      BY <1>1, <1>2, <2>2, <2>9, <3>1, <3>2, Elsewhere
  <2>10. CASE k # "station"
    <3>1. EditOK(reqs[k], doc, refilled)
      BY <2>3, <2>10, RequestIs
    <3>2. /\ r \in Profiles!EditRequest /\ r.at = "fill" /\ r.copy = c
          /\ r.field = reqs[k].field /\ r.expected = reqs[k].expected /\ r.seen = reqs[k].seen
      BY <2>2, <2>7, <3>1 DEF EditOK, Profiles!EditRequest
    <3>3. EditOK(r, doc, refilled)
      BY <2>8, <3>1, <3>2 DEF EditOK
    <3> QED
      BY <1>1, <1>2, <2>2, <2>10, <3>2, <3>3, Elsewhere
  <2> QED
    BY <2>9, <2>10
<1> QED
  BY <1>4, <1>5, <1>6

LEMMA VisitSteps ==
    ASSUME ProfilesInv, Profiles!Visit \/ Profiles!Enrich \/ \E k \in Profiles!Writers : Profiles!VisitWritten(k)
    PROVE  Good
<1>station. "station" \in Profiles!Writers
  BY DEF Profiles!Writers
<1>1. ASSUME Profiles!Visit PROVE Good
  <2>1. PICK now \in [Fields -> Own] :
           /\ account' = now
           /\ Profiles!Put("station", [at |-> IF now = room.told THEN "write" ELSE "find", field |-> None, value |-> None,
                                       expected |-> 0, seen |-> None, copy |-> None, shown |-> room.shows,
                                       left |-> Fields, tries |-> 0])
    BY <1>1 DEF Profiles!Visit
  <2>2. PICK at1 : at1 = IF now = room.told THEN "write" ELSE "find"
    OBVIOUS
  <2>3. PICK r : /\ r = [at |-> at1, field |-> None, value |-> None, expected |-> 0, seen |-> None, copy |-> None,
                         shown |-> room.shows, left |-> Fields, tries |-> 0]
                 /\ Profiles!Put("station", r)
    BY <2>1, <2>2
  <2>4. /\ r \in Profiles!VisitRequest /\ r.at \in {"write", "find"}
        /\ r.copy = None /\ r.shown \in Profiles!Shows
    BY <2>2, <2>3 DEF Profiles!VisitRequest, ProfilesInv, Others
  <2>5. VisitOK(r, doc, refilled)
    BY <2>4 DEF VisitOK
  <2>6. UNCHANGED <<doc, room, lookup, modal, edits, refilled>> /\ visits' = visits + 1
    BY <1>1 DEF Profiles!Visit
  <2>7. Windows(modal', doc, refilled) /\ Others'
    BY <2>1, <2>6 DEF ProfilesInv, Others
  <2> QED
    BY <1>station, <2>3, <2>4, <2>5, <2>6, <2>7, Elsewhere
<1>2. ASSUME Profiles!Enrich PROVE Good
  <2>1. /\ lookup' = "done" /\ UNCHANGED <<doc, account, modal, reqs, edits, visits, refilled>>
        /\ room' = [room EXCEPT !.shows = [f \in Fields |-> IF room.shows[f] = Blank THEN Qrz ELSE room.shows[f]]]
    BY <1>2 DEF Profiles!Enrich
  <2>2. room' \in [shows : Profiles!Shows, told : [Fields -> Own \cup {Blank}]]
    BY <2>1, ProfileNames DEF ProfilesInv, Others, Profiles!Shows
  <2> QED
    BY <2>1, <2>2 DEF Good, ProfilesInv, Others, Conflicts, Stands, Profiles!At
<1>3. ASSUME NEW k \in Profiles!Writers, Profiles!VisitWritten(k) PROVE Good
  <2>1. reqs[k] # None /\ reqs[k].at = "write"
    BY <1>3 DEF Profiles!VisitWritten, Profiles!At
  <2>2. k = "station" /\ VisitOK(reqs[k], doc, refilled)
    BY <2>1, RequestIs DEF EditOK, Profiles!EditRequest
  <2>3. Profiles!Put(k, None) /\ UNCHANGED <<doc, account, lookup, modal, edits, visits, refilled>>
    BY <1>3 DEF Profiles!VisitWritten
  <2>4. PICK shows : /\ room' = [shows |-> shows, told |-> account]
                     /\ shows = IF reqs[k].copy = None THEN reqs[k].shown
                                ELSE [f \in Fields |-> Profiles!FieldState(reqs[k].copy, f, Blank).value]
    BY <1>3 DEF Profiles!VisitWritten
  <2>5. reqs[k].copy \in Profiles!Docs \cup {None}
    BY <2>2 DEF VisitOK, Profiles!VisitRequest
  <2>6. shows \in Profiles!Shows
    <3>1. CASE reqs[k].copy = None
      BY <2>1, <2>2, <2>4, <3>1 DEF VisitOK
    <3>2. CASE reqs[k].copy # None
      <4>1. \A f \in Fields : Profiles!FieldState(reqs[k].copy, f, Blank) \in Profiles!Field
        BY <2>5, <3>2, ProfileNames, FieldIs
      <4>2. \A f \in Fields : Profiles!FieldState(reqs[k].copy, f, Blank).value \in Profiles!Values
        BY <4>1 DEF Profiles!Field
      <4> QED
        BY <2>4, <3>2, <4>2 DEF Profiles!Shows
    <3> QED
      BY <3>1, <3>2
  <2>7. Windows(modal', doc, refilled) /\ Others'
    BY <2>3, <2>4, <2>6 DEF ProfilesInv, Others
  <2>8. ~Profiles!At(k, "cas")
    BY <2>1 DEF Profiles!At
  <2> QED
    BY <2>2, <2>3, <2>7, <2>8, Elsewhere
<1> QED
  BY <1>1, <1>2, <1>3

\* Steps that write the profile.
LEMMA Writes ==
    ASSUME ProfilesInv, Onward(doc, refilled, doc', refilled'), refilled' \in BOOLEAN,
           UNCHANGED <<room, account, lookup, modal, edits, visits>>,
           NEW k \in Profiles!Writers, NEW r, Profiles!Put(k, r),
           IF k = "station" THEN VisitOK(r, doc', refilled') ELSE EditOK(r, doc', refilled'),
           k \in Editors /\ Profiles!At(k, "cas") /\ r.at = "show" /\ ~refilled =>
               Profiles!Content(reqs[k].field) = reqs[k].seen,
           Stands
    PROVE  Good
<1>1. /\ Requests(reqs, doc, refilled)'
      /\ \A m \in Editors : Profiles!At(m, "cas") /\ reqs'[m].at = "show" => m = k /\ r.at = "show"
  BY OneRequest
<1>2. DocOK(doc') /\ doc \in Profiles!Docs
  BY DEF Onward, ProfilesInv, DocOK
<1>3. Windows(modal, doc, refilled)'
  BY <1>2, WindowsOn DEF ProfilesInv
<1>4. Others'
  BY DEF ProfilesInv, Others
<1> QED
  BY <1>1, <1>2, <1>3, <1>4 DEF Good, ProfilesInv, Conflicts

\* A profile that is prepared says what it said; one that was prepared before is marked.
LEMMA Prepares ==
    ASSUME ProfilesInv, NEW k \in Profiles!Writers, Profiles!EnsureWrite(k)
    PROVE  Good
<1>1. /\ reqs[k] # None /\ reqs[k].at = "fill" /\ doc' = reqs[k].copy /\ refilled' = (refilled \/ Profiles!Complete(doc))
      /\ UNCHANGED <<room, account, lookup, modal, edits, visits>>
  BY DEF Profiles!EnsureWrite, Profiles!At
<1>2. PICK r : r = [reqs[k] EXCEPT !.at = "cas"] /\ Profiles!Put(k, r)
  BY DEF Profiles!EnsureWrite
<1>3. Filled(doc', doc)
  BY <1>1, RequestIs DEF VisitOK, EditOK
<1>4. doc \in Profiles!Docs /\ (Profiles!Complete(doc) \/ Raw(doc)) /\ refilled \in BOOLEAN
  BY DEF ProfilesInv, DocOK, Others
<1>5. doc' \in Profiles!Docs /\ Profiles!Complete(doc')
  BY <1>3 DEF Filled
<1>6. \A f \in Fields : Cur(doc', f) = doc'[f] /\ doc'[f] \in Profiles!Field
  BY <1>5, ProfileNames, FieldIs
<1>7. Onward(doc, refilled, doc', refilled')
  BY <1>1, <1>3, <1>5, <1>6 DEF Onward, DocOK, Filled
<1>8. Stands
  BY <1>1, <1>4 DEF Stands, Raw
<1>9. CASE k = "station"
  <2>1. r \in Profiles!VisitRequest /\ r.at = "cas" /\ r.copy = doc'
    BY <1>1, <1>2, <1>9, RequestIs DEF VisitOK, Profiles!VisitRequest
  <2>2. \A f \in Fields : doc'[f].rev <= doc'[f].rev
    BY <1>6 DEF Profiles!Field
  <2>3. VisitOK(r, doc', refilled')
    BY <1>5, <2>1, <2>2 DEF VisitOK, Copied
  <2> QED
    BY <1>1, <1>2, <1>4, <1>7, <1>8, <1>9, <2>1, <2>3, Writes
<1>10. CASE k # "station"
  <2>1. EditOK(reqs[k], doc, refilled)
    BY <1>1, <1>10, RequestIs
  <2>2. EditOK(reqs[k], doc', refilled')
    BY <1>4, <1>7, <2>1, EditOn
  <2>3. /\ r \in Profiles!EditRequest /\ r.at = "cas"
        /\ r.field = reqs[k].field /\ r.expected = reqs[k].expected /\ r.seen = reqs[k].seen
    BY <1>2, <2>1 DEF EditOK, Profiles!EditRequest
  <2>4. EditOK(r, doc', refilled')
    BY <1>5, <2>2, <2>3 DEF EditOK
  <2> QED
    BY <1>1, <1>2, <1>4, <1>7, <1>8, <1>10, <2>3, <2>4, Writes
<1> QED
  BY <1>9, <1>10

\* A field is written with a later revision.
LEMMA OneField ==
    ASSUME NEW d \in Profiles!Docs, Profiles!Complete(d), NEW over, NEW f \in Fields,
           NEW v \in Profiles!Field, v.rev = d[f].rev + 1
    PROVE  /\ Onward(d, over, [d EXCEPT ![f] = v], over)
           /\ Profiles!Complete([d EXCEPT ![f] = v]) /\ [d EXCEPT ![f] = v] \in Profiles!Docs
           /\ \A g \in Fields : [d EXCEPT ![f] = v][g] = IF g = f THEN v ELSE d[g]
<1> PICK e : e = [d EXCEPT ![f] = v]
  OBVIOUS
<1>1. /\ \A g \in Fields : e[g] = IF g = f THEN v ELSE d[g]
      /\ e["old"] = d["old"] /\ DOMAIN e = Fields \cup {"old"}
  BY ProfileNames DEF Profiles!Docs
<1>2. \A g \in Fields : Cur(d, g) = d[g] /\ d[g] \in Profiles!Field
  BY ProfileNames, FieldIs
<1>3. e \in Profiles!Docs
  <2>1. e \in [Fields \cup {"old"} -> Profiles!Field \cup Editors \cup {None}]
    BY DEF Profiles!Docs
  <2> QED
    BY <1>1, <1>2, <2>1 DEF Profiles!Docs
<1>4. Profiles!Complete(e)
  BY <1>1, <1>2, ProfileNames DEF Profiles!Complete
<1>5. \A g \in Fields : Cur(e, g) = e[g] /\ e[g] \in Profiles!Field
  BY <1>3, <1>4, ProfileNames, FieldIs
<1>6. v.rev > d[f].rev
  BY <1>2 DEF Profiles!Field
<1>7. \A g \in Fields : e[g] = d[g] \/ e[g].rev > d[g].rev
  BY <1>1, <1>6
<1>8. \A g \in Fields : Cur(e, g).rev > Cur(d, g).rev \/ (Cur(e, g).rev = Cur(d, g).rev /\ Cont(Cur(e, g)) = Cont(Cur(d, g)))
  BY <1>2, <1>5, <1>7
<1> QED
  BY <1>1, <1>3, <1>4, <1>7, <1>8 DEF Onward, DocOK

\* An edit is saved over what its manager saw, or it conflicts.
LEMMA Edits ==
    ASSUME ProfilesInv, NEW k \in Profiles!Writers, Profiles!SwapForEdit(k)
    PROVE  Good
<1>1. /\ reqs[k] # None /\ reqs[k].at = "cas" /\ k \in Editors
      /\ UNCHANGED <<room, account, lookup, modal, edits, visits, refilled>>
  BY DEF Profiles!SwapForEdit, Profiles!At
<1>2. k # "station" /\ EditOK(reqs[k], doc, refilled)
  BY <1>1, RequestIs
<1>3. reqs[k] \in Profiles!EditRequest /\ Profiles!Complete(doc) /\ doc \in Profiles!Docs /\ refilled \in BOOLEAN
  BY <1>1, <1>2 DEF EditOK, ProfilesInv, DocOK, Others
<1>4. PICK f \in Fields : f = reqs[k].field
  BY <1>3 DEF Profiles!EditRequest
<1>5. CASE ~Profiles!Swaps(reqs[k])
  <2>1. PICK r : r = [reqs[k] EXCEPT !.at = "answered"] /\ Profiles!Put(k, r) /\ UNCHANGED doc
    BY <1>5 DEF Profiles!SwapForEdit
  <2>2. /\ r \in Profiles!EditRequest /\ r.at = "answered"
        /\ r.field = reqs[k].field /\ r.expected = reqs[k].expected /\ r.seen = reqs[k].seen
    BY <1>3, <2>1 DEF Profiles!EditRequest
  <2>3. EditOK(r, doc, refilled)
    BY <1>2, <2>2 DEF EditOK
  <2>4. Windows(modal', doc, refilled) /\ Others'
    BY <1>1 DEF ProfilesInv, Others
  <2> QED
    BY <1>1, <1>2, <2>1, <2>2, <2>3, <2>4, Elsewhere
<1>6. CASE Profiles!Swaps(reqs[k])
  <2>1. PICK v : /\ v = [value |-> reqs[k].value, rev |-> reqs[k].expected + 1,
                         origin |-> IF reqs[k].value = Qrz THEN "qrz" ELSE "manual"]
                 /\ doc' = [doc EXCEPT ![f] = v]
    BY <1>4, <1>6 DEF Profiles!SwapForEdit, Profiles!Written
  <2>2. PICK r : r = [reqs[k] EXCEPT !.at = "show"] /\ Profiles!Put(k, r)
    BY <1>6 DEF Profiles!SwapForEdit
  <2>3. doc[f] # None /\ doc[f].rev = reqs[k].expected
    BY <1>4, <1>6 DEF Profiles!Swaps
  <2>4. v \in Profiles!Field /\ v.rev = doc[f].rev + 1
    BY <1>3, <2>1, <2>3 DEF Profiles!Field, Profiles!EditRequest
  <2>5. /\ Onward(doc, refilled, doc', refilled') /\ Profiles!Complete(doc')
        /\ \A g \in Fields : doc'[g] = IF g = f THEN v ELSE doc[g]
    <3>1. /\ Onward(doc, refilled, [doc EXCEPT ![f] = v], refilled) /\ Profiles!Complete([doc EXCEPT ![f] = v])
          /\ \A g \in Fields : [doc EXCEPT ![f] = v][g] = IF g = f THEN v ELSE doc[g]
      BY <1>3, <2>4, OneField
    <3> QED
      BY <1>1, <2>1, <3>1
  <2>6. EditOK(reqs[k], doc', refilled')
    BY <1>2, <1>3, <2>5, EditOn
  <2>7. /\ r \in Profiles!EditRequest /\ r.at = "show"
        /\ r.field = reqs[k].field /\ r.expected = reqs[k].expected /\ r.seen = reqs[k].seen
    BY <1>3, <2>2 DEF Profiles!EditRequest
  <2>8. EditOK(r, doc', refilled')
    BY <2>5, <2>6, <2>7 DEF EditOK
  <2>9. ~refilled => Profiles!Content(reqs[k].field) = reqs[k].seen
    <3>1. Cur(doc, f) = doc[f]
      BY <1>3, ProfileNames, FieldIs
    <3> QED
      BY <1>2, <1>4, <2>3, <3>1, ContentIs DEF EditOK, Sees
  <2>10. Stands
    <3>1. v.origin \in {"manual", "qrz"}
      BY <2>1
    <3> QED
      BY <2>5, <3>1 DEF Stands
  <2> QED
    BY <1>1, <1>2, <1>3, <2>2, <2>5, <2>8, <2>9, <2>10, Writes
<1> QED
  BY <1>5, <1>6

\* A visit writes a field only over what it has read, and never over a manager's.
LEMMA Syncs ==
    ASSUME ProfilesInv, NEW k \in Profiles!Writers, Profiles!SwapForVisit(k)
    PROVE  Good
<1>1. /\ reqs[k] # None /\ reqs[k].at = "cas" /\ k = "station"
      /\ UNCHANGED <<room, account, lookup, modal, edits, visits, refilled>>
  BY DEF Profiles!SwapForVisit, Profiles!At, Profiles!Writers
<1>2. VisitOK(reqs[k], doc, refilled)
  BY <1>1, RequestIs
<1>3. /\ reqs[k] \in Profiles!VisitRequest /\ Profiles!Complete(doc) /\ doc \in Profiles!Docs
      /\ refilled \in BOOLEAN /\ Copied(reqs[k].copy, doc, refilled)
  BY <1>1, <1>2 DEF VisitOK, ProfilesInv, DocOK, Others
<1>4. reqs[k].copy \in Profiles!Docs /\ Profiles!Complete(reqs[k].copy)
  BY <1>3 DEF Copied
<1>5. PICK f \in reqs[k].left :
        LET r == reqs[k]
            read == Profiles!FieldState(r.copy, f, Blank)
            same == read.value = account[f] /\ read.origin = "participant"
            wins == doc[f] # None /\ doc[f].rev = read.rev
            next == [value |-> account[f], rev |-> read.rev + 1, origin |-> "participant"]
            over == [r EXCEPT !.left = r.left \ {f}, !.tries = 0, !.at = IF r.left = {f} THEN "write" ELSE "cas"]
        IN  IF Profiles!Protected(r, read) \/ same \/ r.tries = 3
            THEN UNCHANGED doc /\ Profiles!Put(k, over)
            ELSE IF wins
            THEN doc' = [doc EXCEPT ![f] = next] /\ Profiles!Put(k, [over EXCEPT !.copy[f] = next])
            ELSE UNCHANGED doc /\ Profiles!Put(k, [r EXCEPT !.copy[f] = Profiles!FieldState(doc, f, Blank), !.tries = r.tries + 1])
  BY DEF Profiles!SwapForVisit
<1>6. f \in Fields
  BY <1>3 DEF Profiles!VisitRequest
<1>7. /\ Profiles!FieldState(reqs[k].copy, f, Blank) = reqs[k].copy[f] /\ reqs[k].copy[f] \in Profiles!Field
      /\ Profiles!FieldState(doc, f, Blank) = doc[f] /\ doc[f] \in Profiles!Field
  BY <1>3, <1>4, <1>6, ProfileNames, FieldIs DEF Cur
<1>8. PICK next1 : next1 = IF reqs[k].left = {f} THEN "write" ELSE "cas"
  OBVIOUS
<1>9. PICK over : over = [reqs[k] EXCEPT !.left = reqs[k].left \ {f}, !.tries = 0, !.at = next1]
  OBVIOUS
<1>10. /\ over \in Profiles!VisitRequest /\ over.at = next1 /\ over.copy = reqs[k].copy
  <2>1. PICK rest : rest = reqs[k].left \ {f} /\ rest \in SUBSET Fields
    BY <1>3 DEF Profiles!VisitRequest
  <2>2. over = [reqs[k] EXCEPT !.left = rest, !.tries = 0, !.at = next1] /\ 0 \in 0..3 /\ next1 \in {"write", "cas"}
    BY <1>8, <1>9, <2>1
  <2> QED
    BY <1>3, <2>1, <2>2 DEF Profiles!VisitRequest
<1>same. Windows(modal', doc, refilled) /\ Others'
  BY <1>1 DEF ProfilesInv, Others
<1>11. CASE UNCHANGED doc /\ Profiles!Put(k, over)
  <2>1. VisitOK(over, doc, refilled)
    BY <1>3, <1>4, <1>8, <1>10, ProfileNames DEF VisitOK
  <2>2. over.at # "show"
    BY <1>8, <1>10
  <2> QED
    BY <1>1, <1>11, <1>same, <2>1, <2>2, Elsewhere
<1>12. ASSUME ~(reqs[k].copy[f].origin = "manual"), doc[f].rev = reqs[k].copy[f].rev,
              NEW v, v = [value |-> account[f], rev |-> reqs[k].copy[f].rev + 1, origin |-> "participant"],
              doc' = [doc EXCEPT ![f] = v], Profiles!Put(k, [over EXCEPT !.copy[f] = v])
       PROVE  Good
  <2>1. v \in Profiles!Field /\ v.rev = doc[f].rev + 1
    <3>1. account[f] \in Profiles!Values
      BY <1>6, ProfileNames DEF ProfilesInv, Others
    <3> QED
      BY <1>7, <1>12, <3>1 DEF Profiles!Field
  <2>2. /\ Onward(doc, refilled, doc', refilled') /\ Profiles!Complete(doc') /\ doc' \in Profiles!Docs
        /\ \A g \in Fields : doc'[g] = IF g = f THEN v ELSE doc[g]
    <3>1. /\ Onward(doc, refilled, [doc EXCEPT ![f] = v], refilled)
          /\ Profiles!Complete([doc EXCEPT ![f] = v]) /\ [doc EXCEPT ![f] = v] \in Profiles!Docs
          /\ \A g \in Fields : [doc EXCEPT ![f] = v][g] = IF g = f THEN v ELSE doc[g]
      BY <1>3, <1>6, <2>1, OneField
    <3> QED
      BY <1>1, <1>12, <3>1
  <2>3. PICK b : b = reqs[k].copy
    OBVIOUS
  <2>c. PICK c : c = [b EXCEPT ![f] = v]
    OBVIOUS
  <2>4. /\ Profiles!Complete(c) /\ c \in Profiles!Docs
        /\ \A g \in Fields : c[g] = IF g = f THEN v ELSE reqs[k].copy[g]
    <3>1. b \in Profiles!Docs /\ Profiles!Complete(b) /\ v.rev = b[f].rev + 1
      BY <1>4, <1>12, <2>3
    <3>2. /\ Profiles!Complete([b EXCEPT ![f] = v]) /\ [b EXCEPT ![f] = v] \in Profiles!Docs
          /\ \A g \in Fields : [b EXCEPT ![f] = v][g] = IF g = f THEN v ELSE b[g]
      BY <1>6, <2>1, <3>1, OneField
    <3> QED
      BY <2>3, <2>c, <3>2
  <2>5. PICK r : r = [over EXCEPT !.copy = c] /\ Profiles!Put(k, r)
    BY <1>10, <1>12, <2>3, <2>c DEF Profiles!VisitRequest
  <2>6. r \in Profiles!VisitRequest /\ r.at = next1 /\ r.copy = c
    BY <1>10, <2>4, <2>5 DEF Profiles!VisitRequest
  <2>7. Copied(c, doc', refilled')
    <3>1. ASSUME ~refilled, NEW g \in Fields PROVE c[g].rev <= doc'[g].rev /\ (c[g].rev = doc'[g].rev => c[g] = doc'[g])
      BY <1>3, <2>1, <2>2, <2>4, <3>1 DEF Copied, Profiles!Field
    <3> QED
      BY <1>1, <2>4, <3>1 DEF Copied
  <2>8. VisitOK(r, doc', refilled')
    BY <1>8, <2>2, <2>4, <2>6, <2>7, ProfileNames DEF VisitOK
  <2>9. Stands
    <3>1. ~refilled => doc[f] = reqs[k].copy[f]
      BY <1>3, <1>6, <1>12 DEF Copied
    <3> QED
      BY <1>1, <1>12, <2>2, <3>1 DEF Stands
  <2> QED
    BY <1>1, <1>3, <2>2, <2>5, <2>8, <2>9, ProfileNames, Writes
<1>13. ASSUME reqs[k].tries # 3, UNCHANGED doc, Profiles!Put(k, [reqs[k] EXCEPT !.copy[f] = doc[f], !.tries = reqs[k].tries + 1])
       PROVE  Good
  <2>1. PICK c : c = [reqs[k].copy EXCEPT ![f] = doc[f]]
    OBVIOUS
  <2>2. /\ c["old"] = None /\ \A g \in Fields : c[g] = (IF g = f THEN doc[g] ELSE reqs[k].copy[g]) /\ c[g] \in Profiles!Field
    BY <1>3, <1>4, <1>6, <1>7, <2>1, ProfileNames, FieldIs DEF Profiles!Docs, Profiles!Complete
  <2>3. c \in Profiles!Docs /\ Profiles!Complete(c)
    <3>1. c \in [Fields \cup {"old"} -> Profiles!Field \cup Editors \cup {None}]
      BY <1>4, <1>7, <2>1 DEF Profiles!Docs
    <3> QED
      BY <2>2, <3>1, ProfileNames DEF Profiles!Docs, Profiles!Complete
  <2>4. PICK r : r = [reqs[k] EXCEPT !.copy = c, !.tries = reqs[k].tries + 1] /\ Profiles!Put(k, r)
    BY <1>3, <1>13, <2>1 DEF Profiles!VisitRequest
  <2>n. PICK n \in 0..3 : n = reqs[k].tries + 1
    BY <1>3, <1>13 DEF Profiles!VisitRequest
  <2>5. r \in Profiles!VisitRequest /\ r.at = "cas" /\ r.copy = c
    BY <1>1, <1>3, <2>n, <2>3, <2>4 DEF Profiles!VisitRequest
  <2>6. Copied(c, doc, refilled)
    <3>1. ASSUME ~refilled, NEW g \in Fields PROVE c[g].rev <= doc[g].rev /\ (c[g].rev = doc[g].rev => c[g] = doc[g])
      BY <1>3, <2>2, <3>1 DEF Copied, Profiles!Field
    <3> QED
      BY <2>3, <3>1 DEF Copied
  <2>7. VisitOK(r, doc, refilled)
    BY <1>3, <2>5, <2>6 DEF VisitOK
  <2> QED
    BY <1>1, <1>13, <1>same, <2>4, <2>5, <2>7, Elsewhere
<1> QED
  BY <1>5, <1>7, <1>8, <1>9, <1>11, <1>12, <1>13 DEF Profiles!Protected

LEMMA ProfileStart == Profiles!Init => ProfilesInv
<1> SUFFICES ASSUME Profiles!Init PROVE ProfilesInv
  OBVIOUS
<1>1. DocOK(doc)
  <2>1. CASE doc = Profiles!NewDoc(Profiles!Empty(Blank), None)
    <3>1. Profiles!Empty(Blank) \in Profiles!Field
      BY ProfileNames DEF Profiles!Empty, Profiles!Field
    <3>2. /\ doc \in [Fields \cup {"old"} -> Profiles!Field \cup Editors \cup {None}]
          /\ doc["old"] = None /\ \A f \in Fields : doc[f] = Profiles!Empty(Blank)
      BY <2>1, <3>1, ProfileNames DEF Profiles!NewDoc
    <3> QED
      BY <3>1, <3>2, ProfileNames DEF DocOK, Profiles!Docs, Profiles!Complete
  <2>2. ASSUME NEW m \in Editors \cup {None}, doc = Profiles!NewDoc(None, m) PROVE DocOK(doc)
    <3>1. /\ doc \in [Fields \cup {"old"} -> Profiles!Field \cup Editors \cup {None}]
          /\ doc["old"] = m /\ \A f \in Fields : doc[f] = None
      BY <2>2, ProfileNames DEF Profiles!NewDoc
    <3> QED
      BY <3>1, ProfileNames DEF DocOK, Profiles!Docs, Raw
  <2> QED
    BY <2>1, <2>2 DEF Profiles!Init
<1>2. Windows(modal, doc, refilled)
  BY DEF Profiles!Init, Windows
<1>3. Requests(reqs, doc, refilled)
  BY DEF Profiles!Init, Requests, Profiles!Writers
<1>4. Others
  <2>1. room \in [shows : Profiles!Shows, told : [Fields -> Own \cup {Blank}]] /\ account \in [Fields -> Own]
    BY ProfileNames DEF Profiles!Init, Profiles!Shows
  <2> QED
    BY <2>1 DEF Profiles!Init, Others
<1> QED
  BY <1>1, <1>2, <1>3, <1>4 DEF ProfilesInv

LEMMA ProfileTyped == ProfilesInv => Profiles!TypeOK
  BY ProfileNames DEF ProfilesInv, DocOK, Windows, Window, Requests, Others, VisitOK, EditOK, WindowOK, Profiles!TypeOK

LEMMA ProfileKept == ProfilesInv /\ [Profiles!Next]_profileVars => Good
<1> SUFFICES ASSUME ProfilesInv, [Profiles!Next]_profileVars PROVE Good
  OBVIOUS
<1>1. ASSUME Profiles!Next PROVE Good
  BY <1>1, WindowSteps, EditSteps, Reads, VisitSteps, Prepares, Edits, Syncs DEF Profiles!Next, Profiles!Serve
<1>2. ASSUME UNCHANGED profileVars PROVE Good
  BY <1>2 DEF profileVars, Good, ProfilesInv, Others, Conflicts, Stands, Profiles!At
<1> QED
  BY <1>1, <1>2

-----------------------------------------------------------------------------
(* The page. *)

PageInv == HistoryInv /\ Flags /\ ChatIsCovered /\ OverlayInv /\ GroupsInv /\ PhotosInv /\ ProfilesInv

LEMMA PageStart == PageInit => PageInv
  BY HistoryStart, ModalsTyped, ChatStart, OverlayStart, GroupsStart, PhotosStart, ProfileStart DEF PageInit, PageInv

\* What a step of one part does is one of that part, and the others stand still: each keeps its own.
LEMMA PartSteps ==
    [PageNext]_pageVars =>
        /\ [Next]_vars /\ [Overlays!Next]_overlayVars /\ [Groups!Next]_groupVars
        /\ [Photos!Next]_photoVars /\ [Profiles!Next]_profileVars
  BY DEF PageNext, ModalStep, OverlayStep, GroupStep, PhotoStep, ProfileStep, pageVars

LEMMA PageKept == PageInv /\ [PageNext]_pageVars => PageInv'
<1> SUFFICES ASSUME PageInv, [PageNext]_pageVars PROVE PageInv'
  OBVIOUS
<1>1. /\ [Next]_vars /\ [Overlays!Next]_overlayVars /\ [Groups!Next]_groupVars
      /\ [Photos!Next]_photoVars /\ [Profiles!Next]_profileVars
  BY PartSteps
<1>2. HistoryInv' /\ Flags' /\ ChatIsCovered'
  BY <1>1, ModalsTyped, ChatKept DEF PageInv
<1>3. OverlayInv'
  BY <1>1, OverlayKept DEF PageInv
<1>4. GroupsInv'
  BY <1>1, GroupsKept DEF PageInv
<1>5. PhotosInv'
  BY <1>1, PhotosKept DEF PageInv
<1>6. ProfilesInv'
  BY <1>1, ProfileKept DEF PageInv, Good
<1> QED
  BY <1>2, <1>3, <1>4, <1>5, <1>6 DEF PageInv

LEMMA PageHolds == PageSpec => []PageInv
  BY PageStart, PageKept, PTL DEF PageSpec

\* Back closes an open viewer, and closing it never leaves the page: as long as the panel has not gone under an open
\* viewer (closePhotoViewer, handlePhotoViewerPopState).
THEOREM BackIsTheViewers == PageSpec => []BackClosesThePhoto
<1>1. PageInv => BackClosesThePhoto
  BY DEF PageInv, HistoryInv, Entries, Viewer, BackClosesThePhoto
<1> QED
  BY PageHolds, <1>1, PTL

\* The chat is suspended exactly while something covers it: every handler that changes what is shown says so again
\* (syncNativeChatVisibility).
THEOREM ChatCovered == PageSpec => []ChatIsCovered
<1>1. PageInv => ChatIsCovered
  BY DEF PageInv
<1> QED
  BY PageHolds, <1>1, PTL

\* The dialogs, the chat's overlays, the groups, the photos and the profile are well typed in every reachable state
\* (LoggerPage), with no more of a profile's requests than the server has code for.
THEOREM PageTyped == PageSpec => []PageTypes
<1>1. PageInv => PageTypes
  BY ModalsTyped, PhotosHold, ProfileTyped DEF PageInv, OverlayInv, GroupsInv, PageTypes
<1> QED
  BY PageHolds, <1>1, PTL

\* Menus and marks of the chat agree and the page scrolls again (chat.ts); the groups of the store say of a station what
\* its state says (stores.ts); a queue of lookups has a processor that asks twice at most, and a row that loads waits for
\* a preload (ncoLogger.js).
THEOREM PageSound == PageSpec => []PageAgrees
<1>1. PageInv => PageAgrees
  <2>1. OverlayInv => Overlays!OneOpen /\ Overlays!MarksAgree /\ Overlays!ScrollComesBack
    BY OneIsOpen DEF OverlayInv
  <2> QED
    BY <2>1, PhotosHold DEF PageInv, GroupsInv, PageAgrees
<1> QED
  BY PageHolds, <1>1, PTL

\* An edit is saved over what its manager saw or conflicts, what a manager wrote no visit takes away
\* (stationProfileService.js), and a group that changes has its flag up (stores.ts).
THEOREM EditsHold == PageSpec => EditsStand
<1>1. ASSUME PageInv, [PageNext]_pageVars
      PROVE  /\ [Conflicts]_profileVars /\ [Stands]_profileVars
             /\ [groups' # groups => \A g \in Groups!Groups : groups'[g] # groups[g] => flags'[g]]_groupVars
  <2>1. [Groups!Next]_groupVars /\ [Profiles!Next]_profileVars
    BY <1>1, PartSteps
  <2>2. Conflicts /\ Stands
    BY <1>1, <2>1, ProfileKept DEF PageInv, Good
  <2>3. \A g \in Groups!Groups : groups'[g] # groups[g] => flags'[g]
    BY <1>1, <2>1, GroupsKept DEF PageInv
  <2> QED
    BY <2>2, <2>3
<1>2. PageSpec => /\ [][Conflicts]_profileVars /\ [][Stands]_profileVars
                  /\ [][groups' # groups => \A g \in Groups!Groups : groups'[g] # groups[g] => flags'[g]]_groupVars
  BY <1>1, PageHolds, PTL DEF PageSpec
<1> QED
  BY <1>2 DEF EditsStand, Profiles!StaleEditsConflict, Profiles!ManualStands, Groups!ChangesFlagged, Conflicts, Stands, profileVars, groupVars, Profiles!vars, Groups!vars
=============================================================================
