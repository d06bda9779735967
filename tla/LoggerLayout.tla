----------------------------- MODULE LoggerLayout -----------------------------
(***************************************************************************)
(* The panels of the logger page: rectangles of a grid which the user      *)
(* moves, resizes, docks, hides and shows, one layout for each role and    *)
(* kind of screen.  Pixels are left out: a pointer asks for a grid line,   *)
(* and a low window for more rows of Station Controls.                     *)
(***************************************************************************)
EXTENDS Integers, FiniteSets, Sequences, FiniteSetsExt, SequencesExt

CONSTANTS
    Roles, Screens,     \* of the user and of the window: those that occur
    Older,              \* what an older version may have left: a layout, or none, of each screen
    Shifts,             \* by how many grid lines a pointer moves something
    Drops,              \* grid positions at which a panel may be held
    None,
    MaxEdits, MaxLoads  \* bounds: on what the user edits, and on how often a layout is restored

ModuleIds == <<"controls", "chat", "checkedOut", "active", "lurkers">>
Modules == Range(ModuleIds)
Columns == 24
MinColumns == 2
AllRoles == {"netcontrol", "netlogger", "netrelay", "netuser"}
AllScreens == {"desktop", "tabletPortrait", "tabletLandscape", "phonePortrait", "phoneLandscape"}
Contexts == [role : Roles \cap AllRoles, screen : Screens \cap AllScreens, low : {2, 4}]

Rects == [x : Int, y : Int, w : Int, h : Int]
Arranged(versions) ==
    [version : versions, items : [Modules -> Rects], collapsed : [Modules -> BOOLEAN]]
Grids == Arranged({4})
Listed ==
    [version : {1}, order : Seq(Modules), spans : [Modules -> Nat], heights : [Modules -> Nat],
     collapsed : [Modules -> BOOLEAN]]
Drags ==
    [kind : {"move", "size", "split"}, from : Grids, preview : Grids \cup {None}, steady : BOOLEAN,
     id : Modules \cup {None}, edge : SUBSET {"n", "e", "s", "w"},
     boundary : [axis : {"x", "y"}, at : Int, before : SUBSET Modules, after : SUBSET Modules] \cup {None}]

ScreensAssumption ==
    /\ Roles \subseteq AllRoles /\ Screens \subseteq AllScreens
    /\ Older \subseteq [AllScreens -> Listed \cup Arranged({2, 3, 4}) \cup {None}]
    /\ \A old \in Older, s \in AllScreens \ {"desktop"} : old[s] \notin Listed
    /\ Shifts \subseteq Int /\ Drops \subseteq [x : Int, y : Int]
    /\ None \notin Drags
    /\ MaxEdits \in Nat /\ MaxLoads \in Nat

VARIABLES
    ctx,        \* role, screen, and low: the rows Station Controls needs on a desktop
    layout,     \* local.moduleLayout
    saved,      \* roleResponsiveLayouts: the layout of each role on each screen
    drag,       \* the pointer drag in progress
    edits,      \* so far
    loads       \* so far: the page, its window, its role and its defaults

vars == <<ctx, layout, saved, drag, edits, loads>>

LayoutRole(r) == IF r = "netuser" THEN "viewer" ELSE r
HasControls(c) == c.role \in {"netcontrol", "netlogger"}
Available(id, c) == id # "controls" \/ HasControls(c)
Phone(c) == c.screen \in {"phonePortrait", "phoneLandscape"}

Rows(c) ==
    CASE c.screen = "phonePortrait" -> 45
      [] c.screen \in {"phoneLandscape", "tabletPortrait"} -> 24
      [] OTHER -> 20

-----------------------------------------------------------------------------
(* Rectangles (loggerGrid.ts). *)

Rect(x, y, w, h) == [x |-> x, y |-> y, w |-> w, h |-> h]
Clamp(v, low, high) == IF v < low THEN low ELSE IF v > high THEN high ELSE v
Distance(a, b) == IF a < b THEN b - a ELSE a - b

Overlap(r, s) ==
    r.x < s.x + s.w /\ r.x + r.w > s.x /\ r.y < s.y + s.h /\ r.y + r.h > s.y

Visible(l, c) == {id \in Modules : Available(id, c) /\ ~l.collapsed[id]}

CollisionFree(items, ids) == \A i, j \in ids : i # j => ~Overlap(items[i], items[j])

\* replaceLoggerGridItem
Replaced(l, id, rect) == [l EXCEPT !.items[id] = rect]
Fits(l, c) == CollisionFree(l.items, Visible(l, c))

Area(r) == r.w * r.h

\* The sum of what f gives for the panels of S.
Total(S, f(_)) ==
    LET Of(id) == IF id \in S THEN f(id) ELSE 0
    IN Of("controls") + Of("chat") + Of("checkedOut") + Of("active") + Of("lurkers")

OverlapArea(r, s) ==
    LET Side(a, b, c, d) == LET lo == IF a > c THEN a ELSE c
                                hi == IF b < d THEN b ELSE d
                            IN IF hi > lo THEN hi - lo ELSE 0
    IN Side(r.x, r.x + r.w, s.x, s.x + s.w) * Side(r.y, r.y + r.h, s.y, s.y + s.h)

InGrid(r, c) == r.x >= 0 /\ r.y >= 0 /\ r.x + r.w <= Columns /\ r.y + r.h <= Rows(c)

Moved(r, at) == [r EXCEPT !.x = at.x, !.y = at.y]

\* swapLoggerGridItemAtPosition: the layouts, one or none, where the panel trades
\* places with the only one it is dropped on.
Swaps(l, id, at, c) ==
    LET moved == Moved(l.items[id], at)
        under == {o \in Visible(l, c) \ {id} :
                     LET smaller == IF Area(moved) < Area(l.items[o]) THEN Area(moved)
                                    ELSE Area(l.items[o])
                     IN OverlapArea(moved, l.items[o]) * 2 >= smaller}
        Swap(o) == Replaced(Replaced(l, id, Moved(l.items[id], l.items[o])), o, Moved(l.items[o], l.items[id]))
    IN {s \in {Swap(o) : o \in under} :
           /\ Cardinality(under) = 1 /\ Fits(s, c)
           /\ \A o \in under \cup {id} : InGrid(s.items[o], c)}

\* The members of S on which f is least.
Least(S, f(_)) == LET least == Min({f(p) : p \in S}) IN {p \in S : f(p) = least}

\* Where the panel covers no other, in a layout whose others are clear of each other.
Vacant(l, id, c) ==
    LET item == l.items[id]
        others == Visible(l, c) \ {id}
        places == [x : 0 .. Columns - item.w, y : 0 .. Rows(c) - item.h]
    IN IF CollisionFree(l.items, others)
       THEN {p \in places : \A o \in others : ~Overlap(Moved(item, p), l.items[o])} ELSE {}

\* The one of the places that is nearest to where something is asked to be; of several,
\* the nearest to where it was.
Nearest(places, at, prior) ==
    LET Square(p, q) == (p.x - q.x) * (p.x - q.x) + (p.y - q.y) * (p.y - q.y)
        far(p) == 10000 * Square(p, at) + Square(p, prior)
        tie(p) == ((Distance(p.y, at.y) * 64 + Distance(p.x, at.x)) * 64 + p.y) * 64 + p.x
    IN Least(Least(places, far), tie)

\* findLoggerGridItemPosition
Placed(l, id, at, prior, c) ==
    IF Swaps(l, id, at, c) # {} THEN Swaps(l, id, at, c)
    ELSE {Replaced(l, id, Moved(l.items[id], p)) : p \in Nearest(Vacant(l, id, c), at, prior)}

-----------------------------------------------------------------------------
(* The default layouts. *)

Hidden(ids) == [id \in Modules |-> id \in ids]
Layout(controls, chat, checkedOut, active, lurkers, hidden) ==
    [version |-> 4,
     items |-> [id \in Modules |->
         CASE id = "controls" -> controls [] id = "chat" -> chat
           [] id = "checkedOut" -> checkedOut [] id = "active" -> active
           [] id = "lurkers" -> lurkers],
     collapsed |-> Hidden(hidden)]

DesktopDefault ==
    Layout(Rect(9, 0, 6, 4), Rect(0, 4, 9, 16), Rect(15, 0, 9, 4), Rect(9, 4, 15, 16),
           Rect(0, 0, 9, 4), {})

ViewerDefault ==
    Layout(Rect(10, 0, 4, 4), Rect(0, 0, 12, 20), Rect(12, 0, 12, 4), Rect(12, 0, 12, 20),
           Rect(0, 0, 12, 4), {"lurkers", "checkedOut"})

ResponsiveDefault ==
    [phonePortrait |->
         Layout(Rect(0, 0, 24, 6), Rect(0, 20, 24, 14), Rect(0, 39, 24, 5), Rect(0, 6, 24, 14),
                Rect(0, 34, 24, 5), {}),
     phoneLandscape |->
         Layout(Rect(0, 0, 9, 6), Rect(0, 6, 9, 18), Rect(9, 20, 15, 4), Rect(9, 0, 15, 16),
                Rect(9, 16, 15, 4), {}),
     tabletPortrait |->
         Layout(Rect(5, 0, 14, 5), Rect(0, 5, 10, 19), Rect(19, 0, 5, 5), Rect(10, 5, 14, 19),
                Rect(0, 0, 5, 5), {}),
     tabletLandscape |-> DesktopDefault]

NcoTabletLandscapeDefault ==
    Layout(Rect(10, 0, 4, 5), Rect(0, 5, 8, 15), Rect(14, 0, 10, 5), Rect(8, 5, 16, 15),
           Rect(0, 0, 10, 5), {})

ViewerResponsiveDefault ==
    LET hidden == {"controls", "lurkers", "checkedOut"} IN
    [phonePortrait |->
         Layout(Rect(0, 38, 24, 7), Rect(0, 14, 24, 14), Rect(0, 33, 24, 5), Rect(0, 0, 24, 14),
                Rect(0, 28, 24, 5), hidden),
     phoneLandscape |->
         Layout(Rect(0, 0, 10, 8), Rect(0, 8, 10, 16), Rect(17, 17, 7, 7), Rect(10, 0, 14, 17),
                Rect(10, 17, 7, 7), hidden),
     tabletPortrait |->
         Layout(Rect(9, 0, 6, 5), Rect(0, 0, 10, 24), Rect(15, 0, 9, 5), Rect(10, 0, 14, 24),
                Rect(0, 0, 9, 5), hidden),
     tabletLandscape |->
         Layout(Rect(10, 0, 4, 4), Rect(0, 0, 8, 20), Rect(14, 0, 10, 4), Rect(8, 0, 16, 20),
                Rect(0, 0, 10, 4), hidden)]

RawDefault(r, s) ==
    IF r = "netuser"
    THEN IF s = "desktop" THEN ViewerDefault ELSE ViewerResponsiveDefault[s]
    ELSE IF r \in {"netcontrol", "netlogger"} /\ s = "tabletLandscape"
    THEN NcoTabletLandscapeDefault
    ELSE IF s = "desktop" THEN DesktopDefault ELSE ResponsiveDefault[s]

\* A seven-row default that was shipped for a while.
FailedNcoTabletLandscape ==
    Layout(Rect(10, 0, 4, 7), Rect(0, 7, 8, 13), Rect(14, 0, 10, 7), Rect(8, 7, 16, 13),
           Rect(0, 0, 10, 7), {})

-----------------------------------------------------------------------------
(* What is stored, brought to the grid of the role and the window. *)

LeastRows(id) == CASE id = "chat" -> 5 [] id \in {"controls", "active"} -> 4 [] OTHER -> 2
MinRows(id, c) == IF id = "controls" /\ c.screen = "desktop" THEN c.low ELSE LeastRows(id)

\* A list of panels has their widths, out of twelve, and their heights in pixels, 26 to
\* a row of the grid and one between rows; what it leaves out (0) is as by default. The
\* panels are laid out in rows: the next one goes into the row if that has room for it.
ListedWidth(old, id, fallback) ==
    IF old.spans[id] = 0 THEN fallback.items[id].w ELSE Clamp(old.spans[id] * 2, MinColumns, Columns)
ListedHeight(old, id, fallback) ==
    LET pixels == IF old.heights[id] = 0 THEN 26 * fallback.items[id].h ELSE old.heights[id]
        nearest == (2 * (pixels + 1) + 27) \div 54
    IN Clamp(nearest, LeastRows(id), 60)
Wrapped(p, w) ==
    IF p.x > 0 /\ p.x + w > Columns
    THEN [x |-> 0, y |-> p.y + p.tall, tall |-> 0, items |-> p.items] ELSE p
Laid(p, id, w, h) ==
    [x |-> p.x + w, y |-> p.y, tall |-> IF h > p.tall THEN h ELSE p.tall,
     items |-> [p.items EXCEPT ![id] = Rect(p.x, p.y, w, h)]]

\* The listed panels and then the others.
Packed(old, fallback) ==
    LET rest == <<"controls", "checkedOut", "chat", "active", "lurkers">>
        Place(id) == IF id \in Range(old.order) THEN CHOOSE k \in DOMAIN old.order : old.order[k] = id
                     ELSE Len(old.order) + CHOOSE k \in DOMAIN rest : rest[k] = id
        places == {Place(id) : id \in Modules}
        Nth(k) == CHOOSE id \in Modules : Cardinality({n \in places : n <= Place(id)}) = k
        Added(p, id) == LET w == ListedWidth(old, id, fallback)
                        IN Laid(Wrapped(p, w), id, w, ListedHeight(old, id, fallback))
        row[k \in 0 .. 5] ==
            IF k = 0 THEN [x |-> 0, y |-> 0, tall |-> 0, items |-> fallback.items]
            ELSE Added(row[k - 1], Nth(k))
    IN row[5].items

Upgraded(l, c) ==
    LET fallback == RawDefault(c.role, c.screen)
        shallow == [lurkers |-> Rect(0, 0, 10, 2), checkedOut |-> Rect(14, 0, 10, 2)]
    IN CASE l.version = 4 -> l.items
         [] l.version = 3 -> [id \in Modules |-> IF id \in DOMAIN shallow /\ l.items[id] = shallow[id]
                                                THEN [l.items[id] EXCEPT !.h = 4] ELSE l.items[id]]
         [] l.version = 2 -> [id \in Modules |-> LET r == l.items[id]
                                                IN Rect(2 * r.x, r.y, 2 * r.w, r.h)]
         [] l.version = 1 -> Packed(l, fallback)

\* A panel into the grid, at least its smallest size.
Fit(id, r, c) ==
    LET w == Clamp(r.w, MinColumns, Columns)
        h == Clamp(r.h, MinRows(id, c), Rows(c))
    IN Rect(Clamp(r.x, 0, Columns - w), Clamp(r.y, 0, Rows(c) - h), w, h)

\* Station Controls at its fixed place of a tablet, and no lower than six rows on
\* a phone, where what is below it makes room.
WithControls(items, c) ==
    LET Below(r) == r.y >= items.controls.y + items.controls.h
        Lowered(id, r) == IF id = "controls" THEN [r EXCEPT !.h = 6]
                          ELSE IF Below(r) THEN [r EXCEPT !.y = Clamp(@ + 6 - items.controls.h, 0, Rows(c) - r.h)]
                          ELSE r
    IN CASE ~HasControls(c) -> items
         [] HasControls(c) /\ c.screen = "tabletPortrait" ->
                [id \in Modules |-> IF id = "controls" THEN [items[id] EXCEPT !.h = 5, !.y = 0] ELSE items[id]]
         [] HasControls(c) /\ c.screen = "phonePortrait" /\ items.controls.h < 6 ->
                [id \in Modules |-> Lowered(id, items[id])]
         [] OTHER -> items

\* normalizeModuleLayout
Normalized(l, c) ==
    LET All(given) == [id \in Modules |-> Fit(id, given[id], c)]
    IN [version |-> 4, collapsed |-> l.collapsed, items |-> WithControls(All(Upgraded(l, c)), c)]

\* canonicalizeReadOnlyTop: of those without controls, on a desktop
Canonical(l, c, force) ==
    LET OnTop(n) == n.items.lurkers.y = 0 /\ n.items.checkedOut.y = 0
        Top(n) == IF HasControls(c) \/ c.screen # "desktop" \/ ~(force \/ OnTop(n)) THEN n
                  ELSE [n EXCEPT !.items.lurkers = Rect(0, 0, 12, 4),
                                 !.items.checkedOut = Rect(12, 0, 12, 4)]
    IN Top(Normalized(l, c))

Default(c) == Canonical(RawDefault(c.role, c.screen), c, TRUE)

\* restoreModuleLayout
Restored(l, c) ==
    LET Clear(n) == IF Fits(Normalized(n, c), c) THEN n
                    ELSE [Normalized(Default(c), c) EXCEPT !.collapsed = n.collapsed]
    IN Clear(Canonical(l, c, FALSE))

\* shouldResetLegacyLoggerLayout: it is only a default, of the other kind of role or of a
\* viewer, who on a tablet may have had the operators' with panels hidden.
OnlyDefault(l, r, s) ==
    LET operator == RawDefault("netcontrol", s)
        viewer == RawDefault("netuser", s)
        inherited == IF s \in {"tabletPortrait", "tabletLandscape"}
                     THEN [operator EXCEPT !.collapsed = Hidden({"controls", "lurkers", "checkedOut"})]
                     ELSE viewer
        same(d) == l.items = d.items /\ l.collapsed = d.collapsed
    IN l.version # 1 /\ (same(IF r = "netuser" THEN operator ELSE viewer) \/ same(inherited))

\* isCurrentResponsiveLayout: a phone held upright has whole rows.
Current(l, s) ==
    s = "phonePortrait" => \A id \in Modules : l.items[id].x = 0 /\ l.items[id].w = Columns

\* migrateLegacyLayoutsForRole, which is only done for the first role met.
Migrated(old, r, s) ==
    IF old[s] = None \/ OnlyDefault(old[s], r, s) \/ ~Current(old[s], s) THEN None ELSE old[s]

Replaceable(l, r, s) ==
    /\ l # None /\ s = "tabletLandscape" /\ r \in {"netcontrol", "netlogger"}
    /\ l.items = FailedNcoTabletLandscape.items /\ l.collapsed = FailedNcoTabletLandscape.collapsed

\* activateLayoutRole: the layout of a role that begins to be used on a screen
Activated(bucket, c) ==
    LET own == bucket[LayoutRole(c.role)][c.screen]
        kept == IF Replaceable(own, c.role, c.screen) THEN NcoTabletLandscapeDefault ELSE own
        usable == kept # None /\ Current(kept, c.screen)
    IN Restored(IF usable THEN kept ELSE Default(c), c)

\* saveActiveLayoutContext
Saving(l, c) == [saved EXCEPT ![LayoutRole(c.role)][c.screen] = Normalized(l, c)]

-----------------------------------------------------------------------------
(* Boundaries that panels share (loggerSplitters.ts). *)

Size(axis) == IF axis = "x" THEN "w" ELSE "h"
Cross(axis) == IF axis = "x" THEN "y" ELSE "x"
End(r, axis) == r[axis] + r[Size(axis)]

\* Panels that meet at a line, in groups connected across it, where the panels
\* of a group on each side tile the same stretch of the line.
Boundaries(l, ids) ==
    LET from(axis, i) == l.items[i][Cross(axis)]
        to(axis, i) == End(l.items[i], Cross(axis))
        Faces(axis, at) == {i \in ids : at \in {l.items[i][axis], End(l.items[i], axis)}}
        Across(axis, i, j) == from(axis, i) < to(axis, j) /\ from(axis, j) < to(axis, i)
        Beside(axis, faces, S) == {j \in faces : j \in S \/ \E i \in S : Across(axis, i, j)}
        \* Four steps reach every panel of a group of five.
        Groups(axis, faces) ==
            {Beside(axis, faces, Beside(axis, faces, Beside(axis, faces, Beside(axis, faces, {i})))) :
                i \in faces}
        Bound(axis, at, G) ==
            [axis |-> axis, at |-> at,
             before |-> {i \in G : End(l.items[i], axis) = at},
             after |-> {i \in G : l.items[i][axis] = at}]
        Tiles(axis, G, part) ==
            /\ \A i, j \in part : i # j => ~Across(axis, i, j)
            /\ Total(part, LAMBDA i : l.items[i][Size(Cross(axis))]) =
                   Max({to(axis, i) : i \in G}) - Min({from(axis, i) : i \in G})
        Lines(axis) == {End(l.items[i], axis) : i \in ids} \cap {l.items[i][axis] : i \in ids}
        all == UNION {UNION {{Bound(axis, at, G) : G \in Groups(axis, Faces(axis, at))} : at \in Lines(axis)} :
                         axis \in {"x", "y"}}
    IN {b \in all : /\ b.before # {} /\ b.after # {}
                    /\ Tiles(b.axis, b.before \cup b.after, b.before)
                    /\ Tiles(b.axis, b.before \cup b.after, b.after)}

\* splitterMinimums
Smallest(id, c) ==
    [w |-> MinColumns,
     h |-> IF id # "controls" THEN MinRows(id, c)
           ELSE IF c.screen = "phonePortrait" THEN 6
           ELSE IF c.screen = "tabletPortrait" THEN 5 ELSE MinRows(id, c)]

\* boundaryLimits
Limits(l, b, c) ==
    LET size == Size(b.axis)
    IN [min |-> Max({l.items[i][b.axis] + Smallest(i, c)[size] : i \in b.before}),
        max |-> Min({End(l.items[i], b.axis) - Smallest(i, c)[size] : i \in b.after})]

\* resizeSharedBoundary: the layouts, one or none, with the boundary at a line.
Split(l, b, to, c) ==
    LET size == Size(b.axis)
        now == {x \in Boundaries(l, Visible(l, c)) :
                   x.axis = b.axis /\ x.before = b.before /\ x.after = b.after}
        At(x) ==
            LET line == Clamp(to, Limits(l, x, c).min, Limits(l, x, c).max)
                by == line - x.at
            IN [l EXCEPT !.items = [i \in Modules |->
                   IF i \in x.before THEN [l.items[i] EXCEPT ![size] = @ + by]
                   ELSE IF i \in x.after
                   THEN [l.items[i] EXCEPT ![x.axis] = line, ![size] = @ - by]
                   ELSE l.items[i]]]
    IN {At(x) : x \in {y \in now : Limits(l, y, c).min <= Limits(l, y, c).max /\ Fits(At(y), c)}}

\* dockAtEdge: the neighbours of the panel take its place, and it takes a half
\* of the one it is docked to.
Docked(l, id, target, edge, c) ==
    LET ids == Visible(l, c)
        rank(b) == 10 * (IF b.axis = "x" THEN 0 ELSE 1)
                   + Min({k \in 1 .. 5 : ModuleIds[k] \in ids /\ End(l.items[ModuleIds[k]], b.axis) = b.at})
        former == Least({b \in Boundaries(l, ids) : b.before = {id} \/ b.after = {id}}, rank)
        Healed(b) ==
            [i \in Modules |->
                IF b.before = {id} /\ i \in b.after
                THEN [l.items[i] EXCEPT ![b.axis] = l.items[id][b.axis],
                                        ![Size(b.axis)] = @ + l.items[id][Size(b.axis)]]
                ELSE IF b.before # {id} /\ i \in b.before
                THEN [l.items[i] EXCEPT ![Size(b.axis)] = @ + l.items[id][Size(b.axis)]]
                ELSE l.items[i]]
        left == IF former = {} THEN l.items ELSE Healed(CHOOSE b \in former : TRUE)
        axis == IF edge \in {"left", "right"} THEN "x" ELSE "y"
        size == Size(axis)
        cross == Size(Cross(axis))
        rect == left[target]
        first == IF edge \in {"left", "top"} THEN id ELSE target
        second == IF first = id THEN target ELSE id
        half == Clamp((rect[size] + 1) \div 2, Smallest(first, c)[size],
                      rect[size] - Smallest(second, c)[size])
        candidate == [l EXCEPT !.items = [left EXCEPT
                         ![first] = [rect EXCEPT ![size] = half],
                         ![second] = [rect EXCEPT ![axis] = @ + half, ![size] = @ - half]]]
    IN IF /\ id # target /\ {id, target} \subseteq ids
          /\ rect[size] >= Smallest(id, c)[size] + Smallest(target, c)[size]
          /\ \A i \in {id, target} : rect[cross] >= Smallest(i, c)[cross]
          /\ Fits(candidate, c)
       THEN {candidate} ELSE {}

\* Station Controls stays at its place of a tablet held upright.
Locked(l, c) ==
    c.screen = "tabletPortrait" /\ HasControls(c)
        => l.items.controls.y = 0 /\ l.items.controls.h = 5

\* visiblePhonePortraitLayout: a phone held upright shows the visible panels in a stack.
Shown(l, c) ==
    LET ids == Visible(l, c)
        index(i) == CHOOSE k \in 1 .. 5 : ModuleIds[k] = i
        Above(i, j) == \/ l.items[i].y < l.items[j].y
                       \/ l.items[i].y = l.items[j].y /\ l.items[i].x < l.items[j].x
                       \/ /\ l.items[i].y = l.items[j].y /\ l.items[i].x = l.items[j].x
                          /\ index(i) < index(j)
        top(i) == Total({j \in ids : Above(j, i)}, LAMBDA j : l.items[j].h)
    IN IF c.screen # "phonePortrait" THEN l
       ELSE [l EXCEPT !.items = [i \in Modules |-> IF i \in ids THEN [l.items[i] EXCEPT !.y = top(i)]
                                                  ELSE l.items[i]]]

\* What a splitter makes of the stored layout when it shows another.
Applied(l, shown, c) ==
    LET stored == Normalized(l, c)
        before == Shown(stored, c)
        moved == [stored EXCEPT !.items = [i \in Modules |->
                     IF i \in Visible(stored, c)
                     THEN [shown.items[i] EXCEPT !.y = stored.items[i].y + @ - before.items[i].y]
                     ELSE stored.items[i]]]
    IN IF ~Locked(shown, c) THEN l
       ELSE IF c.screen = "phonePortrait" THEN moved ELSE shown
-----------------------------------------------------------------------------
(* What the user does.  One hand: a drag is not mixed with keys. *)

Init ==
    \E r \in Roles, s \in Screens, old \in Older \cup {[t \in AllScreens |-> None]} :
        LET c == [role |-> r, screen |-> s, low |-> 2]
            bucket == [p \in {LayoutRole(x) : x \in AllRoles} |-> [t \in AllScreens |->
                          IF p = LayoutRole(r) THEN Migrated(old, r, t) ELSE None]]
        IN /\ ctx = c
           /\ layout = Normalized(Activated(bucket, c), c)
           /\ saved = [bucket EXCEPT ![LayoutRole(r)][s] = Normalized(Activated(bucket, c), c)]
           /\ drag = None /\ edits = 0 /\ loads = 0

Edits == edits < MaxEdits /\ edits' = edits + 1 /\ UNCHANGED <<ctx, loads>>
Keys == Edits /\ drag = None /\ UNCHANGED drag

Put(l) == layout' = Normalized(l, ctx) /\ saved' = Saving(l, ctx)

\* Mutation: a hidden panel is shown wherever it was, over the others.
ToggleOver(id) ==
    Keys /\ Available(id, ctx) /\ Put([Normalized(layout, ctx) EXCEPT !.collapsed[id] = ~@])

\* setModuleCollapsed: a panel is not shown where another would be hidden by it.
Toggle(id) ==
    LET l == [Normalized(layout, ctx) EXCEPT !.collapsed[id] = ~@]
    IN /\ Keys /\ Available(id, ctx)
       /\ l.collapsed[id] \/ Fits(Normalized(l, ctx), ctx)
       /\ Put(l)

\* moveModuleByGrid
MoveBy(id, dx, dy) ==
    LET l == Normalized(layout, ctx)
        r == l.items[id]
        moved == Replaced(l, id, [r EXCEPT !.x = Clamp(@ + dx, 0, Columns - r.w),
                                           !.y = Clamp(@ + dy, 0, Rows(ctx) - r.h)])
    IN Keys /\ id \in Visible(l, ctx) /\ Fits(Normalized(moved, ctx), ctx) /\ Put(moved)

\* resizeModuleBy
ResizeBy(id, dw, dh) ==
    LET l == Normalized(layout, ctx)
        r == l.items[id]
        w == Clamp(r.w + dw, MinColumns, Columns)
        wanted == IF r.h + dh < MinRows(id, ctx) THEN MinRows(id, ctx) ELSE r.h + dh
        h == IF wanted > Rows(ctx) - r.y THEN Rows(ctx) - r.y ELSE wanted
        sized == Replaced(l, id, Rect(IF r.x > Columns - w THEN Columns - w ELSE r.x, r.y, w, h))
    IN /\ Keys /\ ~Phone(ctx) /\ id \in Visible(l, ctx)
       /\ Fits(Normalized(sized, ctx), ctx)
       /\ Put(sized)

\* A double click on an edge: the panel as it is by default, if it fits.
Reset(id) ==
    LET l == Normalized(layout, ctx)
        plain == Replaced(l, id, Default(ctx).items[id])
    IN Keys /\ ~Phone(ctx) /\ id \in Visible(l, ctx) /\ Fits(plain, ctx) /\ Put(plain)

\* LoggerSplitterControls: the boundaries which have a handle
Splitters ==
    LET l == Shown(Normalized(layout, ctx), ctx)
    IN {b \in Boundaries(l, Visible(l, ctx)) :
           /\ Limits(l, b, ctx).min < Limits(l, b, ctx).max
           /\ ~(ctx.screen = "tabletPortrait" /\ b.axis = "y" /\ "controls" \in b.before \cup b.after)}

KeySplitter(by) ==
    LET l == Shown(Normalized(layout, ctx), ctx)
    IN /\ Keys
       /\ \E b \in Splitters : \E next \in Split(l, b, b.at + by, ctx) :
              Put(Applied(layout, next, ctx))

Dragging(kind, from) ==
    [kind |-> kind, from |-> from, preview |-> None, steady |-> TRUE,
     id |-> None, edge |-> {}, boundary |-> None]
\* History: whether role and window are as they were when the drag began.
Unsteady(d) == IF d = None THEN None ELSE [d EXCEPT !.steady = FALSE]

Grabs == Edits /\ drag = None /\ UNCHANGED <<layout, saved>>

Grab(id) ==
    LET l == Normalized(layout, ctx)
    IN Grabs /\ id \in Visible(l, ctx) /\ drag' = [Dragging("move", l) EXCEPT !.id = id]

GrabEdge(id, edge) ==
    LET l == Normalized(layout, ctx)
    IN /\ Grabs /\ ~Phone(ctx) /\ id \in Visible(l, ctx)
       /\ drag' = [Dragging("size", l) EXCEPT !.id = id, !.edge = edge]

GrabSplitter ==
    /\ Grabs
    /\ \E b \in Splitters :
           drag' = [Dragging("split", Shown(Normalized(layout, ctx), ctx)) EXCEPT !.boundary = b]

Holds(kind) == drag # None /\ drag.kind = kind /\ UNCHANGED <<ctx, saved, edits, loads>>

\* previewModuleGrid, over a free place or the place of another panel
Hold(at) ==
    LET l == drag.from
        n == Normalized(l, ctx)
        r == l.items[drag.id]
        shown == Shown(l, ctx)
        rows == IF ctx.screen = "phonePortrait"
                THEN Max({1} \cup {shown.items[i].y + shown.items[i].h : i \in Visible(l, ctx)})
                ELSE Rows(ctx)
        x == Clamp(at.x, 0, Columns - r.w)
        y == Clamp(at.y, 0, IF rows < r.h THEN 0 ELSE rows - r.h)
        snapped == IF ctx.screen = "tabletPortrait" /\ drag.id \in {"chat", "active"} /\ y \in 4 .. 6
                   THEN 5 ELSE y
        prior == IF drag.preview = None THEN r ELSE drag.preview.items[drag.id]
    IN /\ Holds("move")
       /\ \E next \in Placed(n, drag.id, [x |-> x, y |-> snapped], prior, ctx) :
              drag' = [drag EXCEPT !.preview = next]
       /\ UNCHANGED layout

\* previewModuleGrid, over the edge of another panel
HoldAtEdge(target, edge) ==
    /\ Holds("move")
    /\ \E next \in Docked(drag.from, drag.id, target, edge, ctx) :
           Locked(next, ctx) /\ drag' = [drag EXCEPT !.preview = next]
    /\ UNCHANGED layout

\* Where edges that are pulled take a panel; r is the panel where it is rendered.
Pulled(was, r, id, edge, dx, dy, c) ==
    LET least == MinRows(id, c)
        right == was.x + was.w
        w == IF "w" \in edge
             THEN LET v == IF was.w - dx < MinColumns THEN MinColumns ELSE was.w - dx
                  IN IF v > right THEN right ELSE v
             ELSE IF "e" \in edge
             THEN LET v == IF was.w + dx < MinColumns THEN MinColumns ELSE was.w + dx
                  IN IF v > Columns - r.x THEN Columns - r.x ELSE v
             ELSE r.w
        bottom == was.y + was.h
        top == LET v == Clamp(was.y + dy, 0, IF bottom < least THEN 0 ELSE bottom - least)
               IN IF c.screen = "tabletPortrait" /\ id \in {"chat", "active"} /\ v \in 4 .. 6
                  THEN 5 ELSE v
        end == Clamp(bottom + dy, IF r.y + least > Rows(c) THEN Rows(c) ELSE r.y + least, Rows(c))
    IN Rect(IF "w" \in edge THEN right - w ELSE r.x,
            IF "n" \in edge THEN top ELSE r.y, w,
            IF "n" \in edge THEN bottom - top
            ELSE IF "s" \in edge THEN end - r.y ELSE r.h)

\* resizeFromPointer
PullEdge(dx, dy) ==
    LET r == Normalized(drag.from, ctx).items[drag.id]
        next == Replaced(drag.from, drag.id,
                    Pulled(drag.from.items[drag.id], r, drag.id, drag.edge, dx, dy, ctx))
    IN Holds("size") /\ Fits(next, ctx) /\ layout' = next /\ UNCHANGED drag

PullSplitter(by) ==
    /\ Holds("split")
    /\ \E next \in Split(drag.from, drag.boundary, drag.boundary.at + by, ctx) :
           layout' = Applied(layout, next, ctx)
    /\ UNCHANGED drag

Ends == drag # None /\ drag' = None /\ UNCHANGED <<ctx, edits, loads>>

\* stopModulePointerDrag, stopResizing, LoggerSplitterControls.finish: nothing is saved
\* of a panel that was grabbed and not moved.
Release ==
    /\ Ends
    /\ \/ Put(IF drag.kind = "move" /\ drag.preview # None THEN drag.preview ELSE layout)
       \/ /\ drag.kind = "move" /\ drag.preview = None
          /\ layout' = Normalized(layout, ctx) /\ UNCHANGED saved

\* Only the end of a resize saves what it went back to.
Cancel ==
    /\ Ends
    /\ layout' = Normalized(IF drag.kind = "split" THEN Applied(layout, drag.from, ctx) ELSE drag.from, ctx)
    /\ saved' = IF drag.kind = "size" THEN Saving(drag.from, ctx) ELSE saved

-----------------------------------------------------------------------------
(* What happens to the page. *)

Happens == loads < MaxLoads /\ loads' = loads + 1 /\ UNCHANGED edits

\* The menu resets one screen of the role, which need not be the one in use.
ResetScreen(s) ==
    LET c == [ctx EXCEPT !.screen = s]
        plain == Normalized(Default(c), c)
        l == IF s = ctx.screen THEN plain ELSE layout
    IN /\ Happens /\ drag = None /\ UNCHANGED <<ctx, drag>>
       /\ s = "desktop" \/ Phone(c) = Phone(ctx)
       /\ layout' = Normalized(l, ctx)
       /\ saved' = [saved EXCEPT ![LayoutRole(ctx.role)] =
                       [[@ EXCEPT ![s] = plain] EXCEPT ![ctx.screen] = Normalized(l, ctx)]]

\* switchLayoutContext, and the layout that a resize goes back to on a phone
Rotate(s) ==
    LET c == [ctx EXCEPT !.screen = s]
        left == IF drag # None /\ drag.kind = "split" THEN Applied(layout, drag.from, ctx) ELSE layout
        kept == Saving(left, ctx)
        next == Normalized(Activated(kept, c), c)
        stops == drag # None /\ (drag.kind = "split" \/ (drag.kind = "size" /\ Phone(c)))
        shown == IF stops /\ drag.kind = "size" THEN Normalized(drag.from, c) ELSE next
    IN /\ Happens /\ s # ctx.screen
       /\ ctx' = c
       /\ layout' = shown
       /\ saved' = [kept EXCEPT ![LayoutRole(c.role)][s] = shown]
       /\ drag' = IF stops THEN None ELSE Unsteady(drag)

\* A window of another height: rendering normalizes, unless a panel is dragged.
LowWindow(rows) ==
    LET c == [ctx EXCEPT !.low = rows]
    IN /\ Happens /\ ctx.screen = "desktop" /\ rows # ctx.low
       /\ ctx' = c
       /\ layout' = IF drag # None /\ drag.kind = "move" THEN layout ELSE Normalized(layout, c)
       /\ drag' = Unsteady(drag)
       /\ UNCHANGED saved

\* The role changes: the new panel is built after its layout was restored, and
\* building it ends the drag of a splitter of the old panel.
Relabel(r) ==
    LET c == [ctx EXCEPT !.role = r]
        kept == Saving(layout, ctx)
        next == Normalized(Activated(kept, c), c)
        stops == drag # None /\ drag.kind = "split"
    IN /\ Happens /\ r # ctx.role
       /\ ctx' = c
       /\ layout' = IF stops THEN Normalized(Applied(next, drag.from, c), c) ELSE next
       /\ saved' = [kept EXCEPT ![LayoutRole(r)][c.screen] = next]
       /\ drag' = IF stops THEN None ELSE Unsteady(drag)

Reload ==
    LET next == Normalized(Activated(saved, ctx), ctx)
    IN /\ Happens
       /\ layout' = next
       /\ saved' = [saved EXCEPT ![LayoutRole(ctx.role)][ctx.screen] = next]
       /\ drag' = None
       /\ UNCHANGED ctx

EdgesOf == {{"n"}, {"e"}, {"s"}, {"w"}, {"n", "e"}, {"n", "w"}, {"s", "e"}, {"s", "w"}}
Sides == {"left", "right", "top", "bottom"}

Edit ==
    \/ \E id \in Modules : Toggle(id) \/ Reset(id)
    \/ \E id \in Modules, d \in {-1, 1} :
           MoveBy(id, d, 0) \/ MoveBy(id, 0, d) \/ ResizeBy(id, d, 0) \/ ResizeBy(id, 0, d)
    \/ \E d \in {-1, 1} : KeySplitter(d)
    \/ \E id \in Modules : Grab(id) \/ \E edge \in EdgesOf : GrabEdge(id, edge)
    \/ GrabSplitter
    \/ \E at \in Drops : Hold(at)
    \/ \E target \in Modules, edge \in Sides : HoldAtEdge(target, edge)
    \/ \E dx, dy \in Shifts : PullEdge(dx, dy)
    \/ \E d \in Shifts : PullSplitter(d)
    \/ Release
    \/ Cancel

Next ==
    \/ Edit
    \/ \E s \in Screens : Rotate(s) \/ ResetScreen(s)
    \/ \E rows \in {2, 4} : LowWindow(rows)
    \/ \E r \in Roles : Relabel(r)
    \/ Reload

Spec == Init /\ [][Next]_vars

-----------------------------------------------------------------------------

\* A panel is in the grid and no smaller than it may be.
Rests(l, id, c) ==
    InGrid(l.items[id], c) /\ l.items[id].w >= MinColumns /\ l.items[id].h >= MinRows(id, c)
Sound(l, c) == Fits(l, c) /\ \A id \in Visible(l, c) : Rests(l, id, c)

\* Types; and when nothing is dragged no panel is smaller than it may be or beyond
\* the grid, Station Controls of a phone excepted, whose least height is made up
\* for after it was brought to the grid.
TypeOK ==
    /\ ctx \in Contexts /\ layout \in Grids
    /\ drag \in Drags \cup {None}
    /\ edits \in 0 .. MaxEdits /\ loads \in 0 .. MaxLoads
    /\ drag = None =>
           \A id \in Modules : \/ Rests(layout, id, ctx)
                               \/ /\ id = "controls" /\ ctx.screen = "phonePortrait"
                                  /\ layout.items[id].h = 6 /\ Rests([layout EXCEPT !.items[id].h = 4], id, ctx)

\* However old the layout it comes from and wherever it is left, by keys, drags,
\* turns or changes of role, every panel comes to rest in the grid: but for what was
\* moved across a turn, or a boundary across a change of role (normalizeModuleLayout).
ComesToRest ==
    drag' = None /\ (drag = None \/ drag.kind = "size" \/ (drag.steady /\ ctx'.role = ctx.role))
        => \A id \in Modules : Rests(layout', id, ctx')

RestsOnGrid == (\A id \in Modules : Rests(layout, id, ctx)) /\ [][ComesToRest]_vars

\* What is put right or shown otherwise when it is released: Station Controls and its
\* neighbours on a tablet held upright, and a boundary between panels of a phone held
\* upright, which stands elsewhere than what is stored.
Corrected == ctx.screen = "tabletPortrait" \/ (ctx.screen = "phonePortrait" /\ drag.kind = "split")

\* Nothing the user does to a sound layout covers a panel with another, pushes it
\* off the grid or makes it too small: by keys, or by a drag that ends where it
\* began (setModuleCollapsed, moveModuleByGrid, resizeModuleBy, the pointer drags).
StaysClear ==
    layout' # layout /\ loads' = loads /\ Sound(layout, ctx)
    /\ (drag = None \/ (drag.steady /\ ~Corrected /\ Sound(drag.from, ctx)))
        => Sound(layout', ctx)

EditsStayClear == [][StaysClear]_vars

Covered(l, ids) == Total(ids, LAMBDA i : Area(l.items[i]))

\* A panel that is moved or resized by itself leaves the others where they are, or
\* trades places with one; what moves more of them than that divides the same room
\* among them, or leaves some of it free; and no edit moves a panel that is hidden
\* (test/logger-grid.test.js "move and resize candidates never repack unrelated
\* modules", docs/logger-shared-splitters.md "hidden panes keep their saved positions").
LeavesOthers ==
    layout' # layout /\ loads' = loads /\ (drag = None \/ drag.steady) =>
        LET ids == Visible(layout, ctx)
            changed == {i \in Modules : layout'.items[i] # layout.items[i]}
            size(l, i) == <<l.items[i].w, l.items[i].h>>
            resized == \E i \in changed : size(layout', i) # size(layout, i)
            moves == drag # None /\ drag.kind = "move"
        IN  /\ changed \subseteq ids
            /\ \/ Cardinality(changed) <= 1
               \/ Covered(layout', ids) = Covered(layout, ids) /\ (moves /\ ~resized => Cardinality(changed) <= 2)
               \/ moves /\ Covered(layout', ids) < Covered(layout, ids)

OthersStay == [][LeavesOthers]_vars

=============================================================================
