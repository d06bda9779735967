------------------------------ MODULE SharedLogger ------------------------------
(***************************************************************************)
(* The marks which the operators of a net put on its stations: each open   *)
(* logger page has a copy, those of net control and the loggers save it on *)
(* the live net, and every page takes what it finds there when it          *)
(* refreshes.  The order of the rows is shared like the marks, and left    *)
(* out; a mark is one that a check-out clears ("next") or the one of a     *)
(* station that was checked in again ("recheck").                          *)
(***************************************************************************)
EXTENDS Integers, FiniteSets

CONSTANTS
    Pages,          \* open logger pages
    Managers,       \* those of net control and of loggers
    Calls,          \* stations of the net, other than those of the pages
    Kinds,          \* commands that change the check-in state: "i", "o", "ui", "io"
    Failing,        \* whether saves fail and pages are loaded again
    None,
    MaxEvents,      \* bounds: on all that operators, stations and failures do,
    MaxNets         \* and on live nets

ManagersAssumption == Managers \subseteq Pages

Standings == {"absent", "lurker", "active", "out"}
Tags == {"next", "recheck"}


VARIABLES
    net,        \* live nets of the profile so far; the last one is open
    stations,   \* the standing of each station, on the server
    state,      \* loggerState: what was stored last, by whom and when
    clock,      \* the server's: no two saves within a millisecond
    cache,      \* what the server told last, kept for three seconds
    pages,      \* what each page knows and waits for
    events      \* so far

vars == <<net, stations, state, clock, cache, pages, events>>

Body == [tags : SUBSET (Calls \X Tags), hidden : SUBSET Calls, selected : Calls \cup {None}]

State == [stamp : Nat, body : Body, by : Pages, n : Nat]
View == [net : 1 .. MaxNets, stations : [Calls -> Standings], state : State \cup {None}]

Page == [net : 0 .. MaxNets,
         seen : [Calls -> Standings],
         known : BOOLEAN,               \* there is a stationTransitionBaseline, which is seen
         tags : SUBSET (Calls \X Tags), hidden : SUBSET Calls, selected : Calls \cup {None},
         away : SUBSET Calls,           \* hiddenAwayCalls
         rev : Nat,                     \* lastServerLoggerRevision
         sig : Body \cup {None},        \* lastSavedLoggerStateSignature
         timer : BOOLEAN,               \* loggerStateSaveTimer
         later : Nat,                   \* commands which will publish after 900 ms
         again : BOOLEAN,               \* trailingRequested
         busy : SUBSET Calls,           \* pendingCheckStateCalls
         posts : SUBSET [n : Nat, body : Body, stamp : Nat],
         commands : SUBSET [call : Calls, kind : Kinds, before : Standings],
         edited : Nat, snapped : Nat]   \* changes so far, and those that a save has read

NewPage ==
    [net |-> 0, seen |-> [c \in Calls |-> "absent"], known |-> FALSE, tags |-> {}, hidden |-> {},
     selected |-> None, away |-> {}, rev |-> 0, sig |-> None, timer |-> FALSE, later |-> 0,
     again |-> FALSE, busy |-> {}, posts |-> {}, commands |-> {},
     edited |-> 0, snapped |-> 0]

\* The pages have refreshed since the net started.
Init ==
    /\ net = 1
    /\ stations \in [Calls -> {"lurker", "active"}]
    /\ state = None
    /\ clock = 0
    /\ cache = None
    /\ pages = [p \in Pages |-> [NewPage EXCEPT !.net = 1, !.seen = stations, !.known = TRUE]]
    /\ events = 0

Server == <<net, stations, state, clock, cache>>
Event == events < MaxEvents /\ events' = events + 1

-----------------------------------------------------------------------------
(* A page saves its copy: not more often than once in 180 ms, one at a time. *)

\* publishShared*, publishSharedSnapshotSafely: a viewer's page saves nothing.
Published(p, pg) ==
    IF p \in Managers THEN [pg EXCEPT !.timer = TRUE, !.edited = @ + 1] ELSE pg

\* sharedSnapshot: of the stations the page knows
Snapshot(pg) ==
    [tags |-> {m \in pg.tags : pg.seen[m[1]] # "absent"}, hidden |-> pg.hidden, selected |-> pg.selected]

\* saveSharedSnapshotOnce: what was saved last is not saved again.
SaveOnce(pg) ==
    LET body == Snapshot(pg)
        read == [pg EXCEPT !.snapped = pg.edited, !.again = FALSE]
    IN IF body = pg.sig THEN read
       ELSE [read EXCEPT !.posts = @ \cup {[n |-> pg.edited, body |-> body, stamp |-> 0]}]

\* Mutation: a save does not wait for the one before it.
SaveTimerOverlaps(p) ==
    /\ pages[p].timer
    /\ pages' = [pages EXCEPT ![p] = SaveOnce([pages[p] EXCEPT !.timer = FALSE])]
    /\ UNCHANGED <<Server, events>>

\* The timer of publishSharedSnapshotSafely, and CoalescedAsyncRequest.request
SaveTimer(p) ==
    LET pg == [pages[p] EXCEPT !.timer = FALSE]
    IN /\ pages[p].timer
       /\ pages' = [pages EXCEPT ![p] = IF pg.posts # {} THEN [pg EXCEPT !.again = TRUE] ELSE SaveOnce(pg)]
       /\ UNCHANGED <<Server, events>>

LaterTimer(p) ==
    /\ pages[p].later > 0
    /\ pages' = [pages EXCEPT ![p] = Published(p, [pages[p] EXCEPT !.later = @ - 1])]
    /\ UNCHANGED <<Server, events>>

\* The action loggerState of the server: the whole state is replaced.
SaveArrives(p) ==
    \E s \in pages[p].posts :
        /\ s.stamp = 0
        /\ clock' = clock + 1
        /\ state' = [stamp |-> clock + 1, body |-> s.body, by |-> p, n |-> s.n]
        /\ pages' = [pages EXCEPT ![p].posts = (@ \ {s}) \cup {[s EXCEPT !.stamp = clock + 1]}]
        /\ UNCHANGED <<net, stations, cache, events>>

\* CoalescedAsyncRequest.drain: once more when something came in the meantime
Drained(pg) == IF pg.again THEN SaveOnce(pg) ELSE pg

\* Mutation: a page believes that nobody saves after it.
SaveAnsweredAhead(p) ==
    \E s \in pages[p].posts :
        /\ s.stamp > 0
        /\ pages' = [pages EXCEPT ![p] = Drained([pages[p] EXCEPT !.posts = @ \ {s}, !.rev = s.stamp + 1,
                                                           !.sig = s.body])]
        /\ UNCHANGED <<Server, events>>

SaveAnswered(p) ==
    \E s \in pages[p].posts :
        /\ s.stamp > 0
        /\ pages' = [pages EXCEPT ![p] = Drained([pages[p] EXCEPT !.posts = @ \ {s}, !.rev = s.stamp,
                                                           !.sig = s.body])]
        /\ UNCHANGED <<Server, events>>

\* A save fails, or only its answer is lost: it is reported and not repeated.
SaveFails(p) ==
    /\ Failing /\ Event
    /\ \E s \in pages[p].posts :
           pages' = [pages EXCEPT ![p] = Drained([pages[p] EXCEPT !.posts = @ \ {s}])]
    /\ UNCHANGED Server

-----------------------------------------------------------------------------
(* What an operator does. *)

Edits(p) == Event /\ p \in Managers /\ UNCHANGED Server

\* setRowTag, clearLocalStationTags
Tag(p, c) ==
    LET m == {<<c, "next">>}
    IN /\ Edits(p) /\ pages[p].seen[c] = "active"
       /\ pages' = [pages EXCEPT ![p] = Published(p, [pages[p] EXCEPT !.tags = (@ \cup m) \ (@ \cap m)])]

\* The row which is next: only one of those that are checked in.
Select(p, c) ==
    /\ Edits(p) /\ pages[p].seen[c] = "active"
    /\ pages' = [pages EXCEPT ![p] = Published(p, [pages[p] EXCEPT !.selected = IF @ = c THEN None ELSE c])]

\* A row is hidden for all operators.
Hide(p, c) ==
    /\ Edits(p) /\ pages[p].seen[c] # "absent" /\ c \notin pages[p].hidden
    /\ pages' = [pages EXCEPT ![p] = Published(p, [pages[p] EXCEPT !.hidden = @ \cup {c}])]

\* The marks of the net are reset, and with them which live net they are of.
Clear(p) ==
    /\ Edits(p)
    /\ pages' = [pages EXCEPT ![p] = Published(p, [pages[p] EXCEPT !.tags = {}, !.hidden = {}, !.net = 0])]

Outcome(kind) == CASE kind = "i" -> "active" [] kind = "ui" -> "lurker" [] OTHER -> "out"

\* commandAllowed, ExclusiveKeyedOperation.begin, and the server which does it
Command(p, c, kind) ==
    /\ Event /\ p \in Managers /\ c \notin pages[p].busy
    /\ stations' = [stations EXCEPT ![c] = Outcome(kind)]
    /\ pages' = [pages EXCEPT ![p].busy = @ \cup {c},
                              ![p].commands = @ \cup {[call |-> c, kind |-> kind,
                                                       before |-> pages[p].seen[c]]}]
    /\ UNCHANGED <<net, state, clock, cache>>

\* runCommand, and lookupAndCheckIn: who was checked out has to be heard again.
CommandAnswered(p) ==
    \E k \in pages[p].commands :
        LET pg == [pages[p] EXCEPT !.busy = @ \ {k.call}, !.commands = @ \ {k}, !.later = @ + 1]
            mark == {<<k.call, "recheck">>}
            shown == IF k.call \in pg.hidden
                     THEN Published(p, [pg EXCEPT !.hidden = @ \ {k.call}, !.away = @ \ {k.call}])
                     ELSE pg
        IN /\ pages' = [pages EXCEPT ![p] =
                  CASE k.kind = "i" -> Published(p, [shown EXCEPT
                           !.tags = IF k.before = "out" THEN @ \cup mark ELSE @ \ mark])
                    [] k.kind = "io" -> shown
                    [] k.kind = "o" -> Published(p, [pg EXCEPT !.tags = @ \ ({k.call} \X Tags)])
                    [] k.kind = "ui" -> pg]
           /\ UNCHANGED <<Server, events>>

-----------------------------------------------------------------------------
(* Refreshing. *)

\* observeStationTransitions: what a page makes of the changes since its last refresh
Observed(p, pg, now) ==
    LET away == pg.away \cup {c \in pg.hidden : now[c] = "absent"}
        back == {c \in pg.hidden \cap away : now[c] # "absent"}
        returned == {c \in Calls : pg.seen[c] = "out" /\ now[c] = "active"}
        left == {c \in Calls : pg.seen[c] # "out" /\ now[c] = "out"}
        dropped == pg.selected # None /\ now[pg.selected] # "active"
        next == [pg EXCEPT !.away = away \ back, !.hidden = @ \ back,
                           !.tags = (@ \cup (returned \X {"recheck"})) \ (left \X Tags),
                           !.selected = IF dropped THEN None ELSE @]
    IN IF ~pg.known THEN pg
       ELSE IF back \cup returned \cup left # {} \/ dropped THEN Published(p, next)
       ELSE next

\* Mutation: the station of a snapshot is selected as it is.
WithSnapshotBlindly(pg, s) ==
    LET present == {c \in Calls : pg.seen[c] # "absent"}
        told == present \cup {m[1] : m \in s.body.tags}
    IN IF s = None \/ (s # None /\ s.stamp <= pg.rev) THEN pg
       ELSE [pg EXCEPT !.rev = s.stamp, !.hidden = s.body.hidden, !.selected = s.body.selected,
                       !.tags = {m \in @ : m[1] \notin told} \cup s.body.tags]

\* applySharedUpdate of a snapshot newer than the last the page took or saved
WithSnapshot(pg, s) ==
    LET present == {c \in Calls : pg.seen[c] # "absent"}
        told == present \cup {m[1] : m \in s.body.tags}
        chosen == s.body.selected
    IN IF s = None \/ (s # None /\ s.stamp <= pg.rev) THEN pg
       ELSE [pg EXCEPT !.rev = s.stamp, !.hidden = s.body.hidden,
                       !.selected = IF chosen # None /\ pg.seen[chosen] = "active" THEN chosen ELSE None,
                       !.tags = {m \in @ : m[1] \notin told} \cup s.body.tags]

\* resetOperationalTagsForLiveNet, and what refreshOnce resets with it
InNet(pg, n) == IF pg.net = n THEN pg
                ELSE [pg EXCEPT !.net = n, !.tags = {}, !.rev = 0, !.sig = None]

\* refreshOnce.  An answer that is late, or from the server's cache, tells what
\* was true before.
Refresh(p) ==
    \E v \in {[net |-> net, stations |-> stations, state |-> state], cache} \ {None} :
        LET pg == Observed(p, InNet(pages[p], v.net), v.stations)
        IN /\ pages' = [pages EXCEPT ![p] =
                  WithSnapshot([pg EXCEPT !.seen = v.stations, !.known = TRUE], v.state)]
           /\ cache' = v
           /\ UNCHANGED <<net, stations, state, clock, events>>

CacheExpires == cache # None /\ cache' = None /\ UNCHANGED <<net, stations, state, clock, pages, events>>

-----------------------------------------------------------------------------
(* What else happens. *)

\* A station comes, goes, or is checked in or out on another page.
StationMoves(c, to) ==
    /\ Event /\ to # stations[c]
    /\ \/ {stations[c], to} = {"absent", "lurker"}
       \/ stations[c] # "absent" /\ to \in {"active", "out"}
    /\ stations' = [stations EXCEPT ![c] = to]
    /\ UNCHANGED <<net, state, clock, cache, pages>>

\* The net is closed and started again while a page does not refresh.
NewNet ==
    /\ net < MaxNets /\ net' = net + 1 /\ Event
    /\ stations' \in [Calls -> {"absent", "active"}]
    /\ state' = None
    /\ UNCHANGED <<clock, cache, pages>>

\* beforeunload, and the startup from what the browser stored
Reload(p) ==
    /\ Failing /\ Event
    /\ pages' = [pages EXCEPT ![p] = [NewPage EXCEPT !.net = pages[p].net,
                                                     !.tags = pages[p].tags, !.hidden = pages[p].hidden,
                                                     !.edited = pages[p].edited,
                                                     !.snapped = pages[p].edited]]
    /\ UNCHANGED Server

Own(p) == SaveTimer(p) \/ LaterTimer(p) \/ Refresh(p)
Told(p) == SaveArrives(p) \/ SaveAnswered(p) \/ CommandAnswered(p)

Next ==
    \/ \E p \in Pages : Own(p) \/ Told(p) \/ Clear(p) \/ SaveFails(p) \/ Reload(p)
    \/ \E p \in Pages, c \in Calls : Tag(p, c) \/ Select(p, c) \/ Hide(p, c)
    \/ \E p \in Pages, c \in Calls, kind \in Kinds : Command(p, c, kind)
    \/ \E c \in Calls, to \in Standings : StationMoves(c, to)
    \/ NewNet
    \/ CacheExpires

Spec == Init /\ [][Next]_vars

\* Timers fire, requests are answered, and a page refreshes every few seconds;
\* nobody has to do anything.
FairSpec ==
    /\ Spec
    /\ \A p \in Pages :
           /\ WF_vars(SaveTimer(p)) /\ WF_vars(LaterTimer(p))
           /\ WF_vars(SaveArrives(p)) /\ WF_vars(SaveAnswered(p))
           /\ WF_vars(CommandAnswered(p)) /\ WF_vars(Refresh(p))
    /\ WF_vars(CacheExpires)

-----------------------------------------------------------------------------

\* Types; and the station which is next is one that the page shows as checked in,
\* whoever selected it and whatever became of it since (observeStationTransitions
\* and applySharedUpdate check it apart).
TypeOK ==
    /\ net \in 1 .. MaxNets /\ stations \in [Calls -> Standings]
    /\ events \in 0 .. MaxEvents /\ cache \in View \cup {None}
    /\ \A p \in Pages : LET pg == pages[p]
                        IN /\ pg \in Page
                           /\ pg.selected # None => pg.seen[pg.selected] = "active"

\* A mark that no save has read yet will be read by one: a timer runs, or the save
\* on its way is followed by another (CoalescedAsyncRequest, publishSharedSnapshotSafely).
PendingIsRemembered ==
    \A p \in Pages : LET pg == pages[p]
                     IN pg.edited > pg.snapped => pg.timer \/ (pg.again /\ pg.posts # {})

\* What a page saved is not replaced by something it had saved before.
OwnSavesInOrder ==
    [][state' # state /\ state' # None /\ state # None /\ state'.by = state.by /\ net' = net
         => state'.n >= state.n]_vars

\* Once nobody changes anything, every page has taken the state that was stored
\* last, though the answer to its own save may take it back to an older one.
UpToDate == \A p \in Pages : state = None \/ pages[p].rev = state.stamp
CatchesUp == <>[]UpToDate

=============================================================================
