------------------------------- MODULE StationLists -------------------------------
(***************************************************************************)
(* The three lists of a manager's logger page, active stations, lurkers    *)
(* and those checked out: how the page keeps an order of its own while     *)
(* stations come and go, and what is done to rows: hidden, selected as the *)
(* next, opened for their actions, dragged with the mouse or a finger.     *)
(* Every action ends with the rendering that the code ends it with.        *)
(***************************************************************************)
EXTENDS Integers, Sequences, FiniteSets, SequencesExt

CONSTANTS
    Calls,
    Nco, Helpers,   \* the net control; loggers and relays: rows with a fixed place
    None,
    MaxEvents       \* bound: what the operator, the room and other pages do

ListsAssumption ==
    /\ IsFiniteSet(Calls) /\ {Nco} \cup Helpers \subseteq Calls /\ Nco \notin Helpers
    /\ None \notin Calls /\ MaxEvents \in Nat

VARIABLES
    page,   \* with its copy of the room; touch: it is used with a finger
    drag,   \* dragging, and touchRowDrag
    fix,    \* the callsign correction under way: old and new
    cause,  \* history: whether the last step was a drop, took over another page's order, or neither
    events

vars == <<page, drag, fix, cause, events>>

Groups == {"order", "checkedOutOrder", "lurkerOrder"}
Standings == {"absent", "lurker", "active", "out"}
GroupOf(standing) ==
    CASE standing = "active" -> "order" [] standing = "out" -> "checkedOutOrder" [] OTHER -> "lurkerOrder"

\* The order in which the server lists the stations.
RoomOrder == SetToSeq(Calls)

\* The orders another page may have shown.
Orders == SetToAllKPermutations(Calls)

\* visibleStations
Shown(p, g) == {c \in Calls \ p.hidden : p.seen[c] # "absent" /\ GroupOf(p.seen[c]) = g}
Row(p, c) == c \in Calls \ p.hidden /\ p.seen[c] # "absent"
Special(c) == c \in {Nco} \cup Helpers
Pinned(p, c) == p.seen[c] = "active" /\ (Special(c) \/ c \in p.guests)

\* What a list has at the places I, in its order.
Nth(I, k) == CHOOSE i \in I : Cardinality({j \in I : j <= i}) = k
Filtered(list, I) == [k \in 1..Cardinality(I) |-> list[Nth(I, k)]]

Only(list, S) == Filtered(list, {i \in DOMAIN list : list[i] \in S})
Once(list) == Filtered(list, {i \in DOMAIN list : \A j \in 1..(i - 1) : list[j] # list[i]})
Without(list, c) == Only(list, Calls \ {c})

\* The rows of a group from top to bottom.
Displayed(p, g) ==
    LET rows == Only(p.lists[g], Shown(p, g))
    IN  IF g # "order" THEN rows
        ELSE Only(rows, {Nco}) \o Only(rows, Helpers) \o Only(rows, p.guests \ ({Nco} \cup Helpers))
             \o Only(rows, {c \in Calls : ~Pinned(p, c)})

\* ordered: what is hidden keeps its place, what is new comes last.
Ordered(p, g) ==
    Only(p.lists[g], Shown(p, g) \cup p.hidden) \o Only(RoomOrder, Shown(p, g) \ ToSet(p.lists[g]))

\* renderQueue: the lists are brought up to date; actions are open for a row that is there.
Rendered(p) ==
    LET q == [p EXCEPT !.lists = [g \in Groups |-> Ordered(p, g)]]
    IN  [q EXCEPT !.pinned = IF @ # None /\ Row(p, @) THEN @ ELSE None]

\* The rows of a group as they are marked: what differs is built anew, and a row that is being dragged is gone.
Markup(p, g) == <<Displayed(p, g), p.selected, p.pinned, p.guests>>
Rebuilt(p, d) == IF d # None /\ Markup(page, d.group) # Markup(p, d.group) THEN [d EXCEPT !.orphan = TRUE] ELSE d

Init ==
    /\ \E seen \in {s \in [Calls -> Standings] : s[Nco] = "active"} :
          \E touch \in BOOLEAN :
          page = Rendered([touch |-> touch, seen |-> seen, lists |-> [g \in Groups |-> <<>>], hidden |-> {}, away |-> {},
                           guests |-> {}, selected |-> None, pinned |-> None])
    /\ drag = None /\ fix = None
    /\ cause = "own"
    /\ events = 0

Event == events < MaxEvents /\ events' = events + 1
Shows(p) == page' = Rendered(p) /\ drag' = Rebuilt(Rendered(p), drag) /\ UNCHANGED fix
Renders(p) == Shows(p) /\ cause' = "own"

-----------------------------------------------------------------------------
(* What the page is told. *)

\* Mutation: the selection stays when its station is checked out.
ObservedKeeping(p, now) ==
    LET away == p.away \cup {c \in p.hidden : now[c] = "absent"}
        back == {c \in p.hidden \cap away : now[c] # "absent"}
    IN  [p EXCEPT !.seen = now, !.away = away \ back, !.hidden = @ \ back]

\* observeStationTransitions: a hidden station that left and returned is shown; the selected one is active.
Observed(p, now) ==
    LET away == p.away \cup {c \in p.hidden : now[c] = "absent"}
        back == {c \in p.hidden \cap away : now[c] # "absent"}
    IN  [p EXCEPT !.seen = now, !.away = away \ back, !.hidden = @ \ back,
                  !.selected = IF @ # None /\ now[@] # "active" THEN None ELSE @]

\* refresh: any station has changed its standing since the last one, and maybe another.
Refresh ==
    /\ Event
    /\ \E a, b \in Calls \ {Nco}, x, y \in Standings :
          LET now == [page.seen EXCEPT ![a] = x, ![b] = y]
          IN  now # page.seen /\ Renders(Observed(page, now))

\* applySharedUpdate: another manager's rows, in its order, with what it hides and has selected.
Snapshot ==
    /\ Event
    /\ \E order \in Orders, c \in Calls, chosen \in {a \in Calls : page.seen[a] = "active"} \cup {None} :
          Shows([page EXCEPT !.lists["order"] = order,
                               !.hidden = IF Special(c) THEN @ ELSE IF c \in @ THEN @ \ {c} ELSE @ \cup {c},
                               !.selected = chosen])
    /\ cause' = "page"

-----------------------------------------------------------------------------
(* What the operator does to a row. *)

\* The row is taken off every logger page.
Hide(c) ==
    /\ Event
    /\ Row(page, c) /\ ~Special(c)
    /\ Renders([page EXCEPT !.hidden = @ \cup {c}])

\* restoreHiddenCall, when the callsign is checked in.
Restore(c) ==
    /\ Event
    /\ c \in page.hidden
    /\ Renders([page EXCEPT !.hidden = @ \ {c}, !.away = @ \ {c}])

\* setSpecialGuest, from the row, by /h guest or a key.
Guest(c) ==
    /\ Event
    /\ page.seen[c] # "absent"
    /\ Renders([page EXCEPT !.guests = IF c \in @ THEN @ \ {c} ELSE @ \cup {c}])

\* correctCallsign: the commands are sent, and the room may be read again before they are answered.
Correct(old, new) ==
    /\ Event
    /\ fix = None
    /\ page.seen[old] \in {"active", "out"} /\ page.seen[new] = "absent" /\ ~Special(old)
    /\ fix' = <<old, new>>
    /\ cause' = "own"
    /\ UNCHANGED <<page, drag>>

\* replaceCallInLocalLists, or else the commands failed; the page shows what it knew of the room.
Corrected ==
    /\ fix # None
    /\ LET Renamed(list) == Once([i \in DOMAIN list |-> IF list[i] = fix[1] THEN fix[2] ELSE list[i]])
           p == Rendered([page EXCEPT !.hidden = @ \ {fix[1], fix[2]},
                                      !.lists = [g \in Groups |-> Renamed(page.lists[g])]])
       IN  page' \in {page, p} /\ drag' = Rebuilt(page', drag)
    /\ fix' = None /\ cause' = "own"
    /\ UNCHANGED events

Toggled(current, c) == IF current = c THEN None ELSE c

\* A click on a row: selects an active station, opens the actions of another one.
ClickRow(c) ==
    /\ Event
    /\ Row(page, c)
    /\ LET active == page.seen[c] = "active"
           open == page.touch /\ page.pinned = c
           p == IF page.pinned # c THEN [page EXCEPT !.pinned = None] ELSE page
       IN  CASE open -> Renders([page EXCEPT !.pinned = None])
             [] ~open /\ active /\ c # Nco -> Renders([p EXCEPT !.selected = Toggled(@, c)])
             [] ~open /\ active /\ c = Nco -> page' = p /\ cause' = "own" /\ UNCHANGED <<drag, fix>>
             [] ~open /\ ~active -> ~page.touch /\ Renders([page EXCEPT !.pinned = Toggled(@, c)])

\* The menu button of a row on touch layouts, the right button elsewhere.
OpenActions(c) ==
    /\ Event
    /\ Row(page, c)
    /\ Renders([page EXCEPT !.pinned = Toggled(@, c)])

\* Escape, a click beside the rows.
CloseActions ==
    /\ page.pinned # None
    /\ Renders([page EXCEPT !.pinned = None])
    /\ UNCHANGED events

Index(s, c) == IF Contains(s, c) THEN CHOOSE i \in DOMAIN s : s[i] = c ELSE 0

\* moveSelectedHotkey: the station before or after the selected one in the list of the active.
MoveSelected(direction) ==
    /\ Event
    /\ LET rows == Without(Displayed(page, "order"), Nco)
           at == IF page.selected = None THEN 0 ELSE Index(rows, page.selected)
           to == IF at = 0 THEN (IF direction > 0 THEN 1 ELSE Len(rows)) ELSE at + direction
       IN  /\ to \in DOMAIN rows
           /\ Renders([page EXCEPT !.selected = rows[to]])

-----------------------------------------------------------------------------
(* Rows are dragged. *)

\* Mutation: the new place is counted before the row is taken from its old one.
MovedAsCounted(list, call, target, after) ==
    LET to == Index(list, target) + (IF after THEN 1 ELSE 0)
        rest == Without(list, call)
    IN  IF to > Len(rest) THEN Append(rest, call) ELSE InsertAt(rest, to, call)

Moved(list, call, target, after) ==
    LET rest == Without(list, call)
    IN  InsertAt(rest, Index(rest, target) + (IF after THEN 1 ELSE 0), call)

\* moveDragged: among the rows with no fixed place.
Dropped(p, d) ==
    LET list == p.lists[d.group]
        free == Only(Displayed(p, "order"), {c \in Calls \ {d.call} : ~Pinned(p, c)})
        fixed == d.group = "order" /\ Pinned(p, d.target)
        target == IF fixed THEN (IF free = <<>> THEN None ELSE free[1]) ELSE d.target
    IN  CASE d.group = "order" /\ Pinned(p, d.call) -> p
          [] ~(d.group = "order" /\ Pinned(p, d.call)) /\ target = None ->
                [p EXCEPT !.lists[d.group] = Append(Without(list, d.call), d.call)]
          [] OTHER -> IF Contains(list, d.call) /\ Contains(list, target)
                      THEN [p EXCEPT !.lists[d.group] = Moved(list, d.call, target, ~fixed /\ d.after)]
                      ELSE p

\* dragstart; touchstart, which waits for the finger to rest, and for the drag before it to be over.
DragStart(c) ==
    /\ Event
    /\ Row(page, c) /\ ~Pinned(page, c)
    /\ IF page.touch THEN drag = None /\ page.seen[c] = "active" ELSE drag # None => ~drag.live
    /\ drag' = [call |-> c, group |-> GroupOf(page.seen[c]), target |-> None, after |-> FALSE,
                started |-> ~page.touch, live |-> TRUE, orphan |-> FALSE]
    /\ cause' = "own"
    /\ UNCHANGED <<page, fix>>

Dragging == drag # None /\ drag.live

\* startTouchRowDrag: the finger rested on a row that is there still.
TouchHold ==
    /\ Dragging /\ ~drag.started
    /\ drag' = IF Row(page, drag.call) /\ page.seen[drag.call] = "active" /\ ~Pinned(page, drag.call)
               THEN [drag EXCEPT !.started = TRUE] ELSE None
    /\ cause' = "own"
    /\ UNCHANGED <<page, fix, events>>

\* updateStationDropTarget: another row of the same group, upper or lower half.  The finger of a row that was rebuilt
\* no longer tells where it is.
DragOver(c, after) ==
    /\ Dragging /\ drag.started /\ (page.touch => ~drag.orphan)
    /\ c # drag.call /\ Row(page, c) /\ GroupOf(page.seen[c]) = drag.group
    /\ Pinned(page, c) => after
    /\ drag' = [drag EXCEPT !.target = c, !.after = after]
    /\ cause' = "own"
    /\ UNCHANGED <<page, fix, events>>

\* drop and dragend, touchend: the end of the drag is not heard of when its row was rebuilt.
Drop ==
    /\ Dragging /\ drag.started /\ drag.target # None
    /\ page.touch => ~drag.orphan
    /\ ~page.touch => Row(page, drag.target) /\ GroupOf(page.seen[drag.target]) = drag.group
    /\ page' = Rendered(Dropped(page, drag))
    /\ drag' = IF drag.orphan \/ (~page.touch /\ Markup(page, drag.group) # Markup(page', drag.group))
               THEN [drag EXCEPT !.live = FALSE, !.orphan = TRUE] ELSE None
    /\ cause' = "drop"
    /\ UNCHANGED <<fix, events>>

\* A drag that is given up: dragend, touchcancel, a finger that moved too soon.
GiveUp ==
    /\ Dragging
    /\ drag' = IF drag.orphan THEN [drag EXCEPT !.live = FALSE] ELSE None
    /\ cause' = "own"
    /\ UNCHANGED <<page, fix, events>>

\* A second finger ends what is left of a drag.
TwoFingers ==
    /\ page.touch /\ drag # None
    /\ drag' = None
    /\ cause' = "own"
    /\ UNCHANGED <<page, fix, events>>

Next ==
    \/ Refresh \/ Snapshot
    \/ \E c \in Calls : Hide(c) \/ Restore(c) \/ Guest(c) \/ ClickRow(c) \/ OpenActions(c) \/ DragStart(c)
    \/ \E old, new \in Calls : Correct(old, new)
    \/ Corrected
    \/ \E direction \in {-1, 1} : MoveSelected(direction)
    \/ \E c \in Calls, after \in BOOLEAN : DragOver(c, after)
    \/ CloseActions \/ TouchHold \/ Drop \/ GiveUp \/ TwoFingers

Spec == Init /\ [][Next]_vars

-----------------------------------------------------------------------------
(* Properties. *)

\* The shape of the state.
TypeOK ==
    /\ page.seen \in [Calls -> Standings]
    /\ \A g \in Groups : page.lists[g] \in Seq(Calls) /\ Len(page.lists[g]) <= Cardinality(Calls)
    /\ page.hidden \subseteq Calls /\ page.away \subseteq Calls /\ page.guests \subseteq Calls
    /\ page.selected \in Calls \cup {None} /\ page.pinned \in Calls \cup {None}
    /\ cause \in {"own", "drop", "page"} /\ (fix = None \/ fix \in Calls \X Calls)
    /\ drag = None \/ (drag.call \in Calls /\ drag.group \in Groups /\ drag.target \in Calls \cup {None})
    /\ events \in 0..MaxEvents

\* Every station that is not hidden has exactly one row, in the list of its standing, whatever was hidden, dragged,
\* corrected or taken over from another page before (ordered, moveDragged, replaceCallInLocalLists).
OneRowEach ==
    \A g \in Groups : ToSet(Displayed(page, g)) = Shown(page, g) /\ Len(Displayed(page, g)) = Cardinality(Shown(page, g))

\* The selected station, which keys and commands without a callsign act on, is active; the actions that are open are
\* those of a row.
ChosenAreThere ==
    /\ page.selected # None => page.seen[page.selected] = "active"
    /\ page.pinned # None => Row(page, page.pinned)

Beside(s, a, b) == \E i \in 1..(Len(s) - 1) : s[i] = a /\ s[i + 1] = b

\* A row that is dropped on a row without a fixed place is shown right before or after it, as the mark showed while it
\* was dragged, though the room has changed meanwhile (moveDragged).
DropLands ==
    [][cause' = "drop" /\ drag # None /\ drag' # drag
       /\ {drag.call, drag.target} \subseteq Shown(page, drag.group)
       /\ ~Pinned(page, drag.call) /\ ~Pinned(page, drag.target)
          => LET rows == Displayed(page', drag.group)
             IN  IF drag.after THEN Beside(rows, drag.target, drag.call) ELSE Beside(rows, drag.call, drag.target)]_vars

Before(s, a, b) == \E i, j \in DOMAIN s : i < j /\ s[i] = a /\ s[j] = b

\* Stations that stay on a list stay in their order, hidden ones with them, until a row is dragged or another page says
\* so: not when others come, go, are hidden, shown again or renamed (ordered).
PlacesKept ==
    [][cause' = "own" /\ page'.lists # page.lists =>
        \A g \in Groups : \A a, b \in {c \in page.hidden \cup Shown(page, g) : c \in page'.hidden \cup Shown(page', g)} :
            (fix # None => {a, b} \cap {fix[1], fix[2]} = {}) /\ Before(page.lists[g], a, b)
                => Before(page'.lists[g], a, b)]_vars
=============================================================================
