------------------------------- MODULE ChatOverlays -------------------------------
(***************************************************************************)
(* What the chat widget lays over its page: the emoji picker, the menu of  *)
(* recipients, the menu of unread conversations, the actions of a message, *)
(* and the lightbox, which stops the page from scrolling, as the logger    *)
(* does with its own lock while its panel is there.  Keyboard and pointer  *)
(* open and close them, and what the server sends redraws the rows and the *)
(* menus under them.                                                       *)
(***************************************************************************)
EXTENDS Naturals, FiniteSets

CONSTANTS
    Messages,       \* messages of the public and of the private conversations
    Peers,          \* those one may have a private conversation with
    Of,             \* the conversation of a message
    None            \* no message; the public conversation

VARIABLES
    open,           \* the menus that are not hidden
    actions,        \* openMessageActionsId
    kept,           \* publicMessages and directConversations
    marked,         \* rows with the class is-actions-open
    selected,       \* selectedRecipientId
    unread,         \* conversations with unread messages
    lightbox,       \* whether it is open
    previous,       \* previousBodyOverflow
    overflow,       \* document.body.style.overflow
    lock,           \* the logger's backgroundScrollLocked and priorBodyOverflow
    panel,          \* whether the logger's panel is there: it takes the clicks on images
    phone,          \* whether the layout is one for phones
    crossed         \* history: the lightbox was open while the logger locked or unlocked the page

vars == <<open, actions, kept, marked, selected, unread, lightbox, previous, overflow, lock, panel, phone, crossed>>
menus == <<open, actions, kept, marked, selected, unread>>
page == <<lightbox, previous, overflow, lock, panel, phone, crossed>>

Menus == {"emoji", "recipients", "unread"}
Conversations == Peers \cup {None}

OfAssumption == Of \in [Messages -> Conversations] /\ None \notin Messages

\* The rows there are: render draws the messages of the selected conversation.
drawn == {m \in kept : Of[m] = selected}
Overflows == {"free", "hidden"}

Init ==
    /\ open = {} /\ actions = None
    /\ kept = {} /\ marked = {}
    /\ selected = None /\ unread = {}
    /\ lightbox = FALSE /\ previous = "free" /\ overflow = "free"
    /\ lock = [on |-> FALSE, prior |-> "free"]
    /\ panel = FALSE /\ phone \in BOOLEAN
    /\ crossed = FALSE

\* closeMessageActions: every row loses its mark.
ActionsClosed == actions' = None /\ marked' = {}

\* A menu that opens closes the others and the actions of the message.
Show(menu) == open' = {menu} /\ ActionsClosed
Hide(menu) == open' = open \ {menu} /\ UNCHANGED <<actions, marked>>

Toggle(menu) ==
    \/ menu \notin open /\ Show(menu)
    \/ menu \in open /\ Hide(menu)

\* switchConversation: the rows of the other conversation take the place of these; the emoji picker stays.
Switch(peer) ==
    /\ ActionsClosed
    /\ open' = open \ {"recipients", "unread"}
    /\ selected' = peer
    /\ unread' = unread \ {peer}
    /\ UNCHANGED kept

ToggleEmoji == Toggle("emoji") /\ UNCHANGED <<kept, selected, unread>>
ToggleRecipients == Toggle("recipients") /\ UNCHANGED <<kept, selected, unread>>

\* The button of unread messages goes straight to the conversation when there is one only.
ClickUnread ==
    /\ unread # {}
    /\ \/ \E peer \in Peers : unread = {peer} /\ Switch(peer)
       \/ Cardinality(unread) > 1 /\ Toggle("unread") /\ UNCHANGED <<kept, selected, unread>>

\* A choice in one of the menus, or the action "message privately".
Choose(peer) ==
    /\ \/ "recipients" \in open
       \/ "unread" \in open /\ peer \in unread
       \/ actions \in drawn /\ peer # None
    /\ Switch(peer)

\* toggleMessageActions.
ToggleActions(m) ==
    /\ m \in drawn
    /\ IF actions = m
       THEN ActionsClosed /\ UNCHANGED open
       ELSE actions' = m /\ marked' = {m} /\ open' = {}
    /\ UNCHANGED <<kept, selected, unread>>

\* handleDocumentPointerDown: what does not hold the target closes.
PointerDown(target) ==
    /\ open' = open \cap {target}
    /\ IF target = "actions" THEN UNCHANGED <<actions, marked>> ELSE ActionsClosed
    /\ UNCHANGED <<kept, selected, unread>>

\* handleDocumentScroll, handleMessageScroll.
Scroll == actions # None /\ ActionsClosed /\ UNCHANGED <<open, kept, selected, unread>>

\* insertEmoji.
InsertEmoji == "emoji" \in open /\ Hide("emoji") /\ UNCHANGED <<kept, selected, unread>>

\* handleDocumentKeyDown, without the lightbox: the first that is open, in this order, and no other.
Escape ==
    /\ \/ \E menu \in open :
             /\ menu = "emoji" \/ (menu = "recipients" /\ "emoji" \notin open) \/ open = {"unread"}
             /\ Hide(menu)
       \/ open = {} /\ actions # None /\ ActionsClosed /\ UNCHANGED open
    /\ UNCHANGED <<kept, selected, unread>>

\* renderMessage: a row is marked by what the state says.
Drawn(m) == marked' = IF actions = m THEN marked \cup {m} ELSE marked \ {m}

\* A message comes or changes, as an event or in a history: its row is drawn anew.
Arrives(m) ==
    /\ kept' = kept \cup {m}
    /\ IF Of[m] = selected THEN Drawn(m) ELSE UNCHANGED marked
    /\ UNCHANGED <<open, actions, selected, unread>>

\* A message is cleared, or too old to be kept: its row goes.
Goes(m) ==
    /\ m \in kept
    /\ kept' = kept \ {m} /\ marked' = marked \ {m}
    /\ UNCHANGED <<open, actions, selected, unread>>

\* renderRecipientControls: without unread messages their menu closes.
UnreadChanges(peers) ==
    /\ unread' = peers /\ peers # unread
    /\ open' = IF peers = {} THEN open \ {"unread"} ELSE open
    /\ UNCHANGED <<actions, kept, marked, selected>>

\* Mutation: the rows of the conversation that is gone stay as they are.
SelectedGoesUndrawn ==
    /\ selected # None
    /\ selected' = None
    /\ UNCHANGED <<open, actions, kept, unread, marked>>

\* updateRecipients: who is selected is no recipient any more.  The rows of everybody's conversation are drawn anew and
\* nothing closes: openMessageActionsId still names a row that is gone.
SelectedGoes ==
    /\ selected # None
    /\ selected' = None
    /\ UNCHANGED <<open, actions, kept, unread>>
    /\ marked' = {actions} \cap drawn'

-----------------------------------------------------------------------------
(* The page's scrolling. *)

\* openLightbox, unless the logger takes the click for its own viewer.
OpenLightbox(m) ==
    /\ ~panel /\ ~lightbox /\ m \in drawn
    /\ lightbox' = TRUE
    /\ previous' = overflow /\ overflow' = "hidden"
    /\ crossed' = (crossed \/ lock.on)
    /\ UNCHANGED <<menus, lock, panel, phone>>

\* closeLightbox: by Escape, or its button.
CloseLightbox ==
    /\ lightbox /\ lightbox' = FALSE
    /\ overflow' = previous
    /\ UNCHANGED <<menus, previous, lock, panel, phone, crossed>>

\* lockBackgroundScroll and unlockBackgroundScroll.
Unlocked == IF lock.on THEN lock' = [lock EXCEPT !.on = FALSE] /\ overflow' = lock.prior ELSE UNCHANGED <<lock, overflow>>
Locked(onPhone) ==
    \/ onPhone /\ Unlocked
    \/ ~onPhone /\ lock.on /\ UNCHANGED <<lock, overflow>>
    \/ ~onPhone /\ ~lock.on /\ lock' = [on |-> TRUE, prior |-> overflow] /\ overflow' = "hidden"

AddPanel ==
    /\ ~panel /\ panel' = TRUE
    /\ Locked(phone)
    /\ crossed' = (crossed \/ lightbox)
    /\ UNCHANGED <<menus, lightbox, previous, phone>>

\* switchLayoutContext.
Turn ==
    /\ panel /\ phone' = ~phone
    /\ Locked(phone')
    /\ crossed' = (crossed \/ lightbox)
    /\ UNCHANGED <<menus, lightbox, previous, panel>>

\* refreshOnce, when the operator is not among the stations any more.
RemovePanel ==
    /\ panel /\ panel' = FALSE
    /\ Unlocked
    /\ crossed' = (crossed \/ lightbox)
    /\ UNCHANGED <<menus, lightbox, previous, phone>>

\* Under the lightbox nothing can be reached, but a press on it is one outside of everything else.
ByHand ==
    /\ \/ /\ ~lightbox
          /\ \/ ToggleEmoji \/ ToggleRecipients \/ ClickUnread \/ InsertEmoji \/ Escape \/ Scroll
             \/ \E peer \in Conversations : Choose(peer)
             \/ \E m \in Messages : ToggleActions(m)
             \/ \E target \in Menus \cup {"actions"} : PointerDown(target)
       \/ PointerDown("elsewhere")
    /\ UNCHANGED page

Sent ==
    /\ \/ \E m \in Messages : Arrives(m) \/ Goes(m)
       \/ \E peers \in SUBSET Peers : UnreadChanges(peers)
       \/ SelectedGoes
    /\ UNCHANGED page

Next ==
    \/ ByHand
    \/ Sent
    \/ \E m \in Messages : OpenLightbox(m)
    \/ CloseLightbox \/ AddPanel \/ Turn \/ RemovePanel

Spec == Init /\ [][Next]_vars

-----------------------------------------------------------------------------
(* Properties. *)

\* The shape of the state.
TypeOK ==
    /\ open \subseteq Menus /\ actions \in Messages \cup {None}
    /\ kept \subseteq Messages /\ marked \subseteq drawn
    /\ selected \in Conversations /\ unread \subseteq Peers
    /\ {lightbox, panel, phone, crossed} \subseteq BOOLEAN
    /\ {previous, overflow} \subseteq Overflows
    /\ lock \in [on : BOOLEAN, prior : Overflows]

\* At most one of the menus and the actions of a message is open, in whatever order keys, clicks and events come.
OneOpen == Cardinality(open) <= 1 /\ (actions # None => open = {})

\* A row shows its actions exactly while the state says they are open, or else Escape and scrolling would not find them
\* (openMessageActionsId, renderMessage).
MarksAgree ==
    /\ marked \subseteq {actions}
    /\ actions \in drawn => actions \in marked

\* Without a lightbox and without the logger's lock the page scrolls, and locked it does not: the two restore the same
\* style, and do so as long as neither comes while the other is there.
ScrollComesBack == ~crossed => overflow = IF lightbox \/ lock.on THEN "hidden" ELSE "free"
=============================================================================
