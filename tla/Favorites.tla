-------------------------------- MODULE Favorites --------------------------------
(***************************************************************************)
(* The page of a user's favorite nets: a ReactiveStore that polls the      *)
(* list, the loop that paces it (Looper), the in-flight window that keeps  *)
(* the store from showing what the server said before a click reached it,  *)
(* and the hearts the user clicks.  Time is left out: a timer may end at   *)
(* any moment, and ends at some time.                                      *)
(***************************************************************************)
EXTENDS Integers, Sequences, SequencesExt, FiniteSets

CONSTANTS
    Nets,           \* the nets the user follows at first
    None,           \* nothing yet
    MaxClicks,      \* bound: clicks on hearts
    MaxNews,        \* bound: changes of the list that others make (followers, schedules)
    MaxFailures     \* bound: requests that fail

FavoritesAssumption == {MaxClicks, MaxNews, MaxFailures} \subseteq Nat

VARIABLES
    followed,   \* server: UserProfile.following
    news,       \* server: what else the list says of these nets, as a number
    store,      \* ReactiveStore and its InFlightWindowManager
    off,        \* nets on the page whose heart is empty
    loop,       \* Looper: its interval, the timer it knows, timers it has lost sight of
    polls,      \* runs of the loop function, each with the answer it waits for
    calls,      \* follow and unfollow calls under way
    clicks, failures

vars == <<followed, news, store, off, loop, polls, calls, clicks, failures>>

\* What the hash of an answer stands for.
Content == [nets |-> followed, news |-> news]
Contents == [nets : SUBSET Nets, news : 0..MaxNews]
Poll == [interval : {"default", "server"}, answer : Contents \cup {None}]

Run(l) == [interval |-> l.interval, answer |-> None]

\* init: the loop runs at once.
Init ==
    /\ followed = Nets
    /\ news = 0
    /\ store = [newest |-> None, shown |-> None, window |-> FALSE, before |-> None,
                check |-> None, extended |-> FALSE, missed |-> FALSE]
    /\ off = {}
    /\ loop = [interval |-> "default", timer |-> FALSE, lost |-> 0]
    /\ polls = <<Run(loop)>>
    /\ calls = <<>>
    /\ clicks = 0
    /\ failures = 0

Failure == failures < MaxFailures /\ failures' = failures + 1

-----------------------------------------------------------------------------
(* Looper. *)

\* scheduleNextRun forgets a timer that is still pending, and does not stop it.
Scheduled(l) == [l EXCEPT !.timer = TRUE, !.lost = IF l.timer THEN @ + 1 ELSE @]

\* setInterval stops the timer it knows and sets another.
Paced(l) == [l EXCEPT !.interval = "server", !.timer = TRUE]

\* A timer ends: runLoop calls the loop function.
TimerFires ==
    /\ \/ loop.timer /\ loop' = [loop EXCEPT !.timer = FALSE]
       \/ loop.lost > 0 /\ loop' = [loop EXCEPT !.lost = @ - 1]
    /\ polls' = Append(polls, Run(loop))
    /\ UNCHANGED <<followed, news, store, off, calls, clicks, failures>>

-----------------------------------------------------------------------------
(* The store. *)

\* followList
PollServed ==
    /\ \E k \in DOMAIN polls :
          /\ polls[k].answer = None
          /\ polls' = [polls EXCEPT ![k].answer = Content]
    /\ UNCHANGED <<followed, news, store, off, loop, calls, clicks, failures>>

\* handleNewData: an answer with the hash of the last one changes nothing; one that comes in the
\* window is kept, and not shown.
WithNewData(s, c) ==
    IF c = s.newest THEN s
    ELSE IF s.window THEN [s EXCEPT !.newest = c, !.missed = TRUE]
    ELSE [s EXCEPT !.newest = c, !.shown = c, !.missed = FALSE]

\* An answer comes: when the store shows it, the list is drawn anew and every heart is full
\* (FavoriteInsert.render); the next run is scheduled.
PollAnswered ==
    /\ \E k \in DOMAIN polls :
          /\ polls[k].answer # None
          /\ store' = WithNewData(store, polls[k].answer)
          /\ loop' = IF polls[k].interval # "server" THEN Paced(loop) ELSE Scheduled(loop)
          /\ off' = IF store.window \/ polls[k].answer = store.newest THEN off ELSE {}
          /\ polls' = RemoveAt(polls, k)
    /\ UNCHANGED <<followed, news, calls, clicks, failures>>

PollFails ==
    /\ Failure
    /\ \E k \in DOMAIN polls : polls' = RemoveAt(polls, k)
    /\ loop' = Scheduled(loop)
    /\ UNCHANGED <<followed, news, store, off, calls, clicks>>

-----------------------------------------------------------------------------
(* The in-flight window. *)

\* updateInFlightWindow: the window is opened or lengthened, and a check is made when it ends.
Opened(s) ==
    [s EXCEPT !.window = TRUE, !.before = s.newest,
              !.check = IF @ = None THEN s.newest ELSE @,
              !.extended = s.check # None]

\* toggleState: the heart changes at once, the server is told.
Click(n) ==
    /\ store.shown # None /\ n \in store.shown.nets
    /\ clicks < MaxClicks /\ clicks' = clicks + 1
    /\ store' = Opened(store)
    /\ off' = IF n \in off THEN off \ {n} ELSE off \cup {n}
    /\ calls' = Append(calls, [net |-> n, follow |-> n \in off])
    /\ UNCHANGED <<followed, news, loop, polls, failures>>

\* The time of the window is over.
WindowEnds ==
    /\ store.window
    /\ store' = [store EXCEPT !.window = FALSE]
    /\ UNCHANGED <<followed, news, off, loop, polls, calls, clicks, failures>>

\* scheduleInFlightWindowCheck: a window that was lengthened is waited for again; after it, the loop
\* runs at once (runImmediately) when the hash before the last click differs from the one before the
\* click that set the check.
CheckFires ==
    /\ store.check # None
    /\ store.window => store.extended
    /\ IF store.window
       THEN store' = [store EXCEPT !.extended = FALSE] /\ UNCHANGED <<loop, polls>>
       ELSE /\ store' = [store EXCEPT !.check = None, !.extended = FALSE]
            /\ IF store.before # store.check
               THEN /\ polls' = Append(polls, Run(loop))
                    /\ loop' = [loop EXCEPT !.timer = TRUE]
               ELSE UNCHANGED <<loop, polls>>
    /\ UNCHANGED <<followed, news, off, calls, clicks, failures>>

-----------------------------------------------------------------------------
(* The server. *)

\* followCreatePost, followDelete
CallServed ==
    /\ \E k \in DOMAIN calls :
          /\ followed' = IF calls[k].follow THEN followed \cup {calls[k].net} ELSE followed \ {calls[k].net}
          /\ calls' = RemoveAt(calls, k)
    /\ UNCHANGED <<news, store, off, loop, polls, clicks, failures>>

\* A call is refused, at a limit or after an error: the page only logs it.
CallFails ==
    /\ Failure
    /\ \E k \in DOMAIN calls : calls' = RemoveAt(calls, k)
    /\ UNCHANGED <<followed, news, store, off, loop, polls, clicks>>

\* The nets of the list gain followers, go on air, are scheduled.
News ==
    /\ news < MaxNews
    /\ news' = news + 1
    /\ UNCHANGED <<followed, store, off, loop, polls, calls, clicks, failures>>

-----------------------------------------------------------------------------
Next ==
    \/ TimerFires \/ PollServed \/ PollAnswered \/ PollFails
    \/ WindowEnds \/ CheckFires
    \/ CallServed \/ CallFails \/ News
    \/ \E n \in Nets : Click(n)

Spec == Init /\ [][Next]_vars

\* Timers end, and requests are served and answered or fail: the browser and the server see to that.
FairSpec ==
    /\ Spec
    /\ WF_vars(TimerFires) /\ WF_vars(PollServed) /\ WF_vars(PollAnswered)
    /\ WF_vars(WindowEnds) /\ WF_vars(CheckFires) /\ WF_vars(CallServed)

-----------------------------------------------------------------------------
(* Properties. *)

\* Types of the variables.
TypeOK ==
    /\ followed \subseteq Nets /\ news \in 0..MaxNews
    /\ \A c \in {store.newest, store.shown, store.before, store.check} : c = None \/ c \in Contents
    /\ {store.window, store.extended, store.missed} \subseteq BOOLEAN
    /\ off \subseteq IF store.shown = None THEN {} ELSE store.shown.nets
    /\ loop \in [interval : {"default", "server"}, timer : BOOLEAN, lost : Nat]
    /\ \A k \in DOMAIN polls : polls[k] \in Poll
    /\ \A k \in DOMAIN calls : calls[k] \in [net : Nets, follow : BOOLEAN]
    /\ clicks \in 0..MaxClicks /\ failures \in 0..MaxFailures

\* Whatever fails, and however often the interval or the window reschedule it, the loop that polls
\* the list has a timer or a request that will set one (Looper.runLoop, setInterval, runImmediately).
LoopLives == loop.timer \/ loop.lost > 0 \/ polls # <<>>

\* Once users and failures leave the page alone it has the list of the server, answers of overlapping
\* polls notwithstanding, and shows it unless it came in the window (handleNewData).
UpToDate == store.newest = Content /\ (store.shown = store.newest \/ store.missed)
CatchesUp == <>[]UpToDate

=============================================================================
