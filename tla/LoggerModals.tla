----------------------------- MODULE LoggerModals -----------------------------
(***************************************************************************)
(* What the logger lays over its panels.  The chat is no part of the       *)
(* logger's page tree and would stick out of every dialog, so it is        *)
(* suspended while something covers it; every handler says so again.  The  *)
(* photo viewer is also closed by the Back of the browser: by a            *)
(* CloseWatcher where there is one, else by an entry of the history that   *)
(* opening pushes and closing takes back, some time later.                 *)
(***************************************************************************)
EXTENDS Naturals

CONSTANTS
    Closable,       \* dialogs that Escape closes: the help and the list of commands
    Firm,           \* dialogs it does not close: editing and closing the net, the viewer of the net's state
    MaxEntries      \* bound: entries of the history, the page's first one included

ASSUME ModalsAssumption ==
    /\ Closable \cap Firm = {} /\ {"edit", "station"} \cap (Closable \cup Firm) = {}
    /\ MaxEntries \in Nat \ {0}

VARIABLES
    panel,          \* whether the logger's panel is there
    loaded,         \* whether the chat is there
    docked,         \* class nch-chat-docked
    suspended,      \* class nch-chat-suspended
    collapsed,      \* the chat's module is switched off
    shown,          \* dialogs that are not hidden
    pinned,         \* pinnedActionCall, if any
    selector,       \* the list of private conversations is open
    toggled,        \* its toggle event is yet to come
    asked,          \* openEditModal waits for the profile
    saving,         \* saveEditModal waits for its answer
    photo,          \* the photo viewer is open
    watcher,        \* photoCloseWatcher
    active,         \* photoHistoryActive
    at, top,        \* the current and the last entry of the history; 0: the page is left
    backs,          \* history.back() that have not been carried out
    orphaned,       \* history: the panel went while the viewer was open
    browser         \* whether there is CloseWatcher, whether stations are handled by touch

chat == <<loaded, docked, suspended, collapsed>>
dialogs == <<shown, pinned, selector, toggled, asked, saving>>
navigation == <<at, top, backs>>
viewer == <<photo, watcher, active>>
vars == <<panel, chat, dialogs, viewer, navigation, orphaned, browser>>

Dialogs == Closable \cup Firm \cup {"edit", "station"}

Init ==
    /\ panel = FALSE /\ loaded = FALSE /\ docked = FALSE /\ suspended = FALSE /\ collapsed = FALSE
    /\ shown = {} /\ pinned = FALSE /\ selector = FALSE /\ toggled = FALSE /\ asked = FALSE /\ saving = FALSE
    /\ photo = FALSE /\ watcher = FALSE /\ active = FALSE
    /\ at = 1 /\ top = 1 /\ backs = 0
    /\ orphaned = FALSE
    /\ browser \in [watches : BOOLEAN, touch : BOOLEAN]

\* Mutation: the viewer came later than the list of what covers the chat.
CoveredButPhoto(dialogsShown, photoShown) == collapsed' \/ selector' \/ dialogsShown # {}

\* What syncNativeChatVisibility looks for.
Covered(dialogsShown, photoShown) == collapsed' \/ selector' \/ photoShown \/ dialogsShown # {}

Synced == suspended' = (docked' /\ panel' /\ Covered(shown', photo'))

Free == panel /\ shown = {} /\ ~photo

Show(dialog) == shown' = shown \cup {dialog}
Hide(dialog) == shown' = shown \ {dialog}

\* A dialog opens from the menu; the list of commands also from a station's actions, which stay.
Open(dialog) ==
    /\ Free \/ (shown = {"station"} /\ dialog \in Closable)
    /\ Show(dialog)
    /\ UNCHANGED <<panel, loaded, docked, collapsed, pinned, selector, toggled, asked, saving, viewer, navigation, orphaned, browser>>
    /\ Synced

Close(dialog) ==
    /\ panel /\ dialog \in shown /\ Hide(dialog)
    /\ UNCHANGED <<panel, loaded, docked, collapsed, pinned, selector, toggled, asked, saving, viewer, navigation, orphaned, browser>>
    /\ Synced

\* syncStationActionModal: the dialog is for touch only, and for a station one may act on.
WithStation(dialogsShown, isPinned) == (dialogsShown \ {"station"}) \cup IF isPinned /\ browser.touch THEN {"station"} ELSE {}

Pin ==
    /\ Free /\ ~pinned /\ pinned' = TRUE
    /\ shown' = WithStation(shown, TRUE)
    /\ UNCHANGED <<panel, loaded, docked, collapsed, selector, toggled, asked, saving, viewer, navigation, orphaned, browser>>
    /\ Synced

\* clearPinnedStationAction: by the backdrop, an action, or Escape.
Unpin ==
    /\ panel /\ pinned /\ pinned' = FALSE
    /\ shown' = WithStation(shown, FALSE)
    /\ UNCHANGED <<panel, loaded, docked, collapsed, selector, toggled, asked, saving, viewer, navigation, orphaned, browser>>
    /\ Synced

\* openEditModal, up to and from its answer.  What else was opened meanwhile stays.
AskEdit ==
    /\ panel /\ ~asked /\ asked' = TRUE
    /\ pinned' = FALSE /\ shown' = WithStation(shown, FALSE)
    /\ UNCHANGED <<panel, loaded, docked, collapsed, selector, toggled, saving, viewer, navigation, orphaned, browser>>
    /\ Synced

EditAnswered ==
    /\ asked /\ asked' = FALSE
    /\ Show("edit") \/ UNCHANGED shown
    /\ UNCHANGED <<panel, loaded, docked, collapsed, pinned, selector, toggled, saving, viewer, navigation, orphaned, browser>>
    /\ Synced

Save ==
    /\ panel /\ "edit" \in shown /\ ~saving /\ saving' = TRUE
    /\ UNCHANGED <<panel, chat, shown, pinned, selector, toggled, asked, viewer, navigation, orphaned, browser>>

\* Its answer closes whatever is being edited by then.
SaveAnswered ==
    /\ saving /\ saving' = FALSE
    /\ IF panel THEN Hide("edit") \/ UNCHANGED shown ELSE UNCHANGED shown
    /\ UNCHANGED <<panel, loaded, docked, collapsed, pinned, selector, toggled, asked, viewer, navigation, orphaned, browser>>
    /\ Synced

\* The list of private conversations is a <details>: it tells of its opening and closing with an event that comes later.
ToggleSelector ==
    /\ panel /\ selector' = ~selector /\ toggled' = TRUE
    /\ UNCHANGED <<panel, chat, shown, pinned, asked, saving, viewer, navigation, orphaned, browser>>

SelectorToggled ==
    /\ toggled /\ toggled' = FALSE
    /\ UNCHANGED <<panel, loaded, docked, collapsed, shown, pinned, selector, asked, saving, viewer, navigation, orphaned, browser>>
    /\ Synced

\* The chat's module is switched on or off.
ToggleModule ==
    /\ panel /\ collapsed' = ~collapsed
    /\ UNCHANGED <<panel, loaded, docked, dialogs, viewer, navigation, orphaned, browser>>
    /\ Synced

-----------------------------------------------------------------------------
(* The panel and the photo viewer. *)

\* addPanel with dockNativeChat, and every refresh of a page that has its panel.  Stations that are gone lose their actions.
Refresh ==
    /\ panel' = TRUE
    /\ docked' = (docked \/ loaded)
    /\ pinned' \in {pinned, FALSE}
    /\ shown' = WithStation(shown, pinned')
    /\ UNCHANGED <<loaded, collapsed, selector, toggled, asked, saving, viewer, navigation, orphaned, browser>>
    /\ Synced

ChatLoads == ~loaded /\ loaded' = TRUE
             /\ UNCHANGED <<panel, docked, suspended, collapsed, dialogs, viewer, navigation, orphaned, browser>>

\* refresh without the operator's station: the panel goes with its dialogs, restoreNativeChat.
RemovePanel ==
    /\ panel /\ panel' = FALSE
    /\ docked' = FALSE /\ suspended' = FALSE
    /\ shown' = {} /\ photo' = FALSE /\ selector' = FALSE /\ toggled' = FALSE /\ asked' = FALSE
    /\ orphaned' = (orphaned \/ photo)
    /\ UNCHANGED <<loaded, collapsed, pinned, saving, watcher, active, navigation, browser>>

\* How Back is to find the viewer.
Watched ==
    IF watcher \/ (active /\ ~browser.watches)
    THEN UNCHANGED <<watcher, active, navigation>>
    ELSE IF browser.watches
         THEN watcher' = TRUE /\ active' = FALSE /\ UNCHANGED navigation
         ELSE active' = TRUE /\ at' = at + 1 /\ top' = at + 1 /\ UNCHANGED <<watcher, backs>>

\* openPhotoViewer: a photo of a row, an image of the chat, or another one in the viewer that is open.
OpenPhoto ==
    /\ panel /\ shown = {}
    /\ at < MaxEntries /\ at - backs >= 1
    /\ photo' = TRUE
    /\ Watched
    /\ UNCHANGED <<panel, loaded, docked, collapsed, dialogs, orphaned, browser>>
    /\ Synced

\* Mutation: the flag outlives its entry.
ClosedActive(consumeHistory) ==
    /\ photo' = FALSE /\ watcher' = FALSE
    /\ backs' = IF consumeHistory /\ active THEN backs + 1 ELSE backs
    /\ UNCHANGED active

\* closePhotoViewer.
Closed(consumeHistory) ==
    /\ photo' = FALSE /\ watcher' = FALSE
    /\ active' = (active /\ ~consumeHistory)
    /\ backs' = IF consumeHistory /\ active THEN backs + 1 ELSE backs

ClosePhoto ==
    /\ panel /\ photo /\ Closed(TRUE)
    /\ UNCHANGED <<panel, loaded, docked, collapsed, dialogs, at, top, orphaned, browser>>
    /\ Synced

\* The watcher's close, for Android's Back or Escape.
WatcherCloses ==
    /\ watcher /\ Closed(FALSE)
    /\ UNCHANGED <<panel, loaded, docked, collapsed, dialogs, at, top, orphaned, browser>>
    /\ Synced

\* handlePhotoViewerPopState, after a step to another entry; without a viewer that is open the flag stays as it is.
Popped ==
    IF panel /\ photo
    THEN /\ photo' = FALSE /\ watcher' = FALSE /\ active' = FALSE
         /\ suspended' = (docked /\ (collapsed \/ selector \/ shown # {}))
    ELSE UNCHANGED <<viewer, suspended>>

\* A back of the program is carried out.
Traversed ==
    /\ backs > 0 /\ backs' = backs - 1
    /\ at' = at - 1
    /\ IF at = 1 THEN UNCHANGED <<viewer, suspended>> ELSE Popped
    /\ UNCHANGED <<panel, loaded, docked, collapsed, dialogs, top, orphaned, browser>>

\* Back and Forward of the browser; Back from the page's first entry leaves it, as one wishes.
Navigate ==
    /\ ~watcher
    /\ \/ at - backs > 1 /\ at' = at - 1
       \/ at < top /\ backs = 0 /\ at' = at + 1
    /\ Popped
    /\ UNCHANGED <<panel, loaded, docked, collapsed, dialogs, top, backs, orphaned, browser>>

\* Escape: the first of what is open in this order.
Escape ==
    \/ "edit" \in shown /\ Close("edit")
    \/ photo /\ ClosePhoto
    \/ ~photo /\ "help" \in shown /\ Close("help")
    \/ ~photo /\ "help" \notin shown /\ "commands" \in shown /\ Close("commands")
    \/ ~photo /\ shown \cap Closable = {} /\ Unpin

Next ==
    /\ at > 0
    /\ \/ \E dialog \in Closable \cup Firm : Open(dialog) \/ Close(dialog)
       \/ Pin \/ Unpin \/ AskEdit \/ EditAnswered \/ Save \/ SaveAnswered
       \/ ToggleSelector \/ SelectorToggled \/ ToggleModule
       \/ Refresh \/ ChatLoads \/ RemovePanel
       \/ OpenPhoto \/ ClosePhoto \/ WatcherCloses \/ Traversed \/ Navigate
       \/ Escape

Spec == Init /\ [][Next]_vars

-----------------------------------------------------------------------------
(* Properties. *)

\* The shape of the state.
TypeOK ==
    /\ {panel, loaded, docked, suspended, collapsed, pinned, selector, toggled, asked, saving} \subseteq BOOLEAN
    /\ {photo, watcher, active, orphaned} \subseteq BOOLEAN
    /\ shown \subseteq Dialogs
    /\ at \in 0 .. MaxEntries /\ top \in 1 .. MaxEntries /\ backs \in 0 .. MaxEntries

\* The chat is suspended exactly while something covers it, whichever of the dialogs, answers, refreshes and reloads of
\* the panel came in between; only the list of private conversations is noticed when its event comes
\* (syncNativeChatVisibility).
ChatIsCovered ==
    /\ suspended => docked /\ panel
    /\ docked /\ panel /\ ~toggled =>
          (suspended <=> collapsed \/ selector \/ photo \/ shown # {})

\* An open viewer has its watcher or its entry, so that Back closes it and nothing else, and closing it never takes the
\* operator away from the net, in whatever order clicks, keys, Back and the traversals come.  It does after the
\* panel went under an open viewer: photoHistoryActive then outlives the entry (handlePhotoViewerPopState).
BackClosesThePhoto ==
    ~orphaned =>
        /\ at > 0
        /\ photo => watcher \/ (active /\ at - backs > 1)
        /\ ~photo => ~watcher /\ ~active
=============================================================================
