---------------------------------- MODULE Chat ----------------------------------
(***************************************************************************)
(* The chat of a live net as one page sees it: a history that is asked for *)
(* once, a stream of events that has no replay, and a history again when   *)
(* the browser has reconnected the stream.  The page's own calls and those *)
(* of everybody else change the messages.  Of a message the model keeps    *)
(* who wrote it to whom and whether it was cleared; what it says, which a  *)
(* later message of the same identifier replaces, is left out, and so is   *)
(* the length at which a private conversation is cut (500).                *)
(***************************************************************************)
EXTENDS Integers, Sequences, FiniteSets

CONSTANTS
    Peers,          \* the other users of the net
    Viewer,         \* the user of the page
    Everyone,       \* the public conversation
    Limit,          \* PUBLIC_HISTORY_LIMIT, PUBLIC_MESSAGE_LIMIT
    None,
    MaxMessages,    \* bounds: on messages,
    MaxEvents       \* and on what the users and failures do

ChatAssumption ==
    /\ Viewer \notin Peers
    /\ Everyone \notin Peers \cup {Viewer}
    /\ Limit \in Nat \ {0}
    /\ MaxMessages \in Nat \ {0} /\ MaxEvents \in Nat

VARIABLES
    msgs,       \* the messages, in the order of their creation
    cleared,    \* those that net control has cleared
    ignored,    \* ignoredPrivateUsers of the viewer
    banned,     \* whether a ChatBan of the viewer is stored
    stream,     \* the EventSource, its connection and what is on its way
    page,       \* what the page knows and waits for
    events      \* so far

vars == <<msgs, cleared, ignored, banned, stream, page, events>>
Server == <<msgs, cleared, ignored, banned>>

Users == Peers \cup {Viewer}
Conversations == Peers \cup {Everyone}

IsPublic(i) == msgs[i].to = Everyone
Mine(i) == msgs[i].from = Viewer
\* conversationUserId
Peer(i) == IF Mine(i) THEN msgs[i].to ELSE msgs[i].from
Publics == {i \in DOMAIN msgs : IsPublic(i)}
Directs == DOMAIN msgs \ Publics

\* The ways to put the members of a set into a row
Orders(S) == {q \in [1 .. Cardinality(S) -> S] : \A i \in S : \E k \in DOMAIN q : q[k] = i}

Newest(S) == {i \in S : Cardinality({j \in S : j > i}) < Limit}

\* shouldDeliverMessage
Delivered(i, ign) == IsPublic(i) \/ Mine(i) \/ msgs[i].from \notin ign

NoStream == [st |-> "none", ign |-> {}, lists |-> {}, queue |-> <<>>]

NewPage ==
    [shown |-> {}, flags |-> {}, known |-> FALSE, selected |-> Everyone,
     unread |-> [p \in Peers |-> 0], inbox |-> FALSE, loaded |-> {},
     ready |-> FALSE,       \* receivedReady of the EventSource
     conn |-> None, reload |-> None,
     again |-> FALSE,       \* historyReloadQueued
     loads |-> {}, posts |-> {},
     composer |-> FALSE,    \* composerOperation: a send or an upload
     suspended |-> FALSE,
     failed |-> FALSE,      \* "history refresh failed"
     live |-> FALSE,        \* the status Live, or Reconnecting
     fresh |-> FALSE,       \* not in the code: reloaded since the stream is live
     twice |-> {}]          \* not in the code: peers of whom a message came anew while it was asked for

Init ==
    /\ msgs \in {<<>>} \cup {<<[from |-> p, to |-> Everyone]>> : p \in Peers}
    /\ cleared = {} /\ ignored = {} /\ banned = FALSE
    /\ stream = NoStream
    /\ page = NewPage
    /\ events = 0

Event == events < MaxEvents /\ events' = events + 1

-----------------------------------------------------------------------------
(* The page puts messages into its collections. *)

\* trimOldestChatMessages, of the public collection
Trimmed(S) == Newest(S \cap Publics) \cup (S \cap Directs)

\* suppressIgnoredConversation
Suppressed(pg, P) ==
    [pg EXCEPT !.unread = [p \in Peers |-> IF p \in P THEN 0 ELSE @[p]],
               !.shown = {i \in @ : IsPublic(i) \/ Mine(i) \/ Peer(i) \notin P}]

\* reconcileDirectMessages
WithDirects(pg, S, count) ==
    LET got == {i \in S : Mine(i) \/ Peer(i) \notin pg.flags}
        new(p) == {i \in got \ pg.shown : ~Mine(i) /\ Peer(i) = p}
        counted == IF count THEN Peers \ {pg.selected} ELSE {}
    IN [pg EXCEPT !.shown = @ \cup got,
                  !.unread = [p \in Peers |-> IF p \in counted THEN @[p] + Cardinality(new(p)) ELSE @[p]],
                  !.twice = @ \cup {p \in counted : \E l \in pg.loads : new(p) \cap l.known # {}}]

\* A message of an answer or of an event (reconcileMutationMessage)
WithMessage(pg, i, count) ==
    IF IsPublic(i) THEN [pg EXCEPT !.shown = Trimmed(@ \cup {i})]
    ELSE WithDirects(pg, {i}, count)

\* reconcileChatSnapshot: what was known and is missing has gone, what came meanwhile stays.
Reconciled(shown, known, snap) == (shown \ (known \ snap)) \cup snap

\* updateRecipients: every other user stays a recipient.
WithRecipients(pg, ign) == Suppressed([pg EXCEPT !.flags = ign, !.known = TRUE], ign)

\* Mutation: what the answer does not hold is dropped.
WithHistoryOnly(pg, req, count) ==
    LET public == [pg EXCEPT !.shown = Trimmed((@ \cap Directs) \cup req.snap.public)]
    IN [WithRecipients(WithDirects(public, req.snap.direct, count), req.snap.ign) EXCEPT !.inbox = TRUE]

\* The common part of connect and reloadHistory
WithHistory(pg, req, count) ==
    LET public == [pg EXCEPT !.shown = Trimmed(Reconciled(@, req.known, req.snap.public))]
    IN [WithRecipients(WithDirects(public, req.snap.direct, count), req.snap.ign) EXCEPT !.inbox = TRUE]

\* reloadHistory up to its request
Reloading(pg) ==
    [pg EXCEPT !.reload = [known |-> pg.shown \cap Publics, snap |-> None, current |-> pg.live],
               !.again = FALSE]

\* What the page has, or is about to get, may lack messages from now on.
Outdated(pg) ==
    [pg EXCEPT !.fresh = FALSE,
               !.reload = IF pg.reload = None THEN None ELSE [pg.reload EXCEPT !.current = FALSE]]

\* Mutation: a request that meets another one is left to it.
ReloadRequestedOnce(pg) == IF pg.reload = None THEN Reloading(pg) ELSE pg

\* requestHistoryReload
ReloadRequested(pg) == IF pg.reload = None THEN Reloading(pg) ELSE [pg EXCEPT !.again = TRUE]

\* loadDirectHistory up to its request
Loading(pg, p) ==
    [pg EXCEPT !.loads = @ \cup {[peer |-> p, snap |-> None,
                                  known |-> {i \in pg.shown \cap Directs : Peer(i) = p}]}]

-----------------------------------------------------------------------------
(* History.  A request is answered by what the server has when it arrives. *)

\* listMessages; messages that an author deleted remain as such.
History ==
    [public |-> Newest(Publics \ cleared), ign |-> ignored,
     direct |-> {i \in Directs : Delivered(i, ignored)}]

\* listDirectMessages
DirectHistory(p) == {i \in Directs : Peer(i) = p /\ Delivered(i, ignored)}

\* connect, at once or by the timer of scheduleConnectionRetry
Connect ==
    /\ page.conn = None /\ stream.st = "none" /\ ~page.suspended
    /\ page' = [page EXCEPT !.conn = [known |-> page.shown \cap Publics, snap |-> None]]
    /\ UNCHANGED <<Server, stream, events>>

ConnectServed ==
    /\ page.conn # None /\ page.conn.snap = None /\ ~banned
    /\ page' = [page EXCEPT !.conn.snap = History]
    /\ UNCHANGED <<Server, stream, events>>

\* connect goes on and opens the stream.
Connected ==
    /\ page.conn # None /\ page.conn.snap # None
    /\ page' = [WithHistory(page, page.conn, FALSE) EXCEPT !.conn = None, !.ready = FALSE]
    /\ stream' = [NoStream EXCEPT !.st = "asked"]
    /\ UNCHANGED <<Server, events>>

\* The request fails: connect is tried again.  A banned user's always does.
ConnectFails ==
    /\ page.conn # None
    /\ (page.conn.snap = None /\ banned /\ UNCHANGED events) \/ Event
    /\ page' = [page EXCEPT !.conn = None]
    /\ UNCHANGED <<Server, stream>>

ReloadServed ==
    /\ page.reload # None /\ page.reload.snap = None /\ ~banned
    /\ page' = [page EXCEPT !.reload.snap = History]
    /\ UNCHANGED <<Server, stream, events>>

\* The finally of reloadHistory
ReloadEnded(pg) ==
    LET ended == [pg EXCEPT !.reload = None] IN IF pg.again THEN Reloading(ended) ELSE ended

Reloaded ==
    /\ page.reload # None /\ page.reload.snap # None
    /\ page' = ReloadEnded([WithHistory(page, page.reload, page.inbox)
                               EXCEPT !.failed = FALSE, !.fresh = page.reload.current])
    /\ UNCHANGED <<Server, stream, events>>

ReloadFails ==
    /\ page.reload # None
    /\ (page.reload.snap = None /\ banned /\ UNCHANGED events) \/ Event
    /\ page' = ReloadEnded([page EXCEPT !.failed = TRUE])
    /\ UNCHANGED <<Server, stream>>

LoadServed ==
    \E l \in page.loads :
        /\ l.snap = None
        /\ page' = [page EXCEPT !.loads =
                       IF banned THEN @ \ {l}
                       ELSE (@ \ {l}) \cup {[l EXCEPT !.snap = [ids |-> DirectHistory(l.peer),
                                                                ign |-> l.peer \in ignored]]}]
        /\ UNCHANGED <<Server, stream, events>>

Loaded ==
    \E l \in page.loads :
        /\ l.snap # None
        /\ page' = [page EXCEPT !.shown = Reconciled(@, l.known, l.snap.ids),
                                !.loads = @ \ {l}, !.loaded = @ \cup {l.peer},
                                !.flags = IF l.snap.ign THEN @ \cup {l.peer} ELSE @ \ {l.peer}]
        /\ UNCHANGED <<Server, stream, events>>

LoadFails ==
    \E l \in page.loads :
        /\ Event
        /\ page' = [page EXCEPT !.loads = @ \ {l}]
        /\ UNCHANGED <<Server, stream>>

-----------------------------------------------------------------------------
(* The stream.  The server reads the ban and the preference, and opens the *)
(* change stream after that; an EventSource that is refused stays closed,  *)
(* one that is lost is asked for again by the browser.                     *)

StreamAuthorized ==
    /\ stream.st = "asked" /\ ~banned
    /\ stream' = [stream EXCEPT !.st = "authorized", !.ign = ignored]
    /\ UNCHANGED <<Server, page, events>>

StreamRefused ==
    /\ stream.st = "asked"
    /\ (banned /\ UNCHANGED events) \/ Event
    /\ stream' = [stream EXCEPT !.st = "refused"]
    /\ UNCHANGED <<Server, page>>

StreamOpens ==
    /\ stream.st = "authorized"
    /\ stream' = [stream EXCEPT !.st = "open", !.queue = <<[kind |-> "ready"]>>]
    /\ UNCHANGED <<Server, page, events>>

\* The connection breaks, or the server ends it: the viewer's role has changed, its own
\* change stream has failed.  What was on its way is lost.
StreamLost ==
    /\ stream.st \in {"asked", "authorized", "open", "ended"} /\ Event
    /\ stream' = [NoStream EXCEPT !.st = "asked"]
    /\ page' = Outdated([page EXCEPT !.live = FALSE])
    /\ UNCHANGED Server

\* onMessage of the change stream delivers a message by the preference it knows.
Streamed(i, all) == all[i].to = Everyone \/ all[i].from = Viewer \/ all[i].from \notin stream.ign

\* The events of messages, in their order, each with what is stored of it now
Told(q, gone) ==
    LET event(i) == [kind |-> "message", id |-> i, cleared |-> i \in gone]
    IN IF stream.st = "open" THEN [stream EXCEPT !.queue = @ \o [k \in DOMAIN q |-> event(q[k])]] ELSE stream

\* sendRecipients, which somebody's presence started with the preference of that moment
ListWritten ==
    \E l \in stream.lists :
        /\ stream' = [stream EXCEPT !.lists = @ \ {l}, !.queue = Append(@, [kind |-> "recipients", ign |-> l])]
        /\ UNCHANGED <<Server, page, events>>

\* ready: the history is not asked for again when it is the first of the EventSource.
GotReady(pg) ==
    LET live == [pg EXCEPT !.live = TRUE, !.ready = TRUE]
    IN IF pg.ready THEN ReloadRequested(live) ELSE live

\* Mutation: what comes while the history is asked for is left to its answer.
GotMessageIdle(pg, ev) ==
    IF pg.reload # None THEN pg
    ELSE IF ev.cleared THEN [pg EXCEPT !.shown = Trimmed(@ \ {ev.id})]
    ELSE WithMessage(pg, ev.id, pg.inbox)

\* message
GotMessage(pg, ev) ==
    IF ev.cleared THEN [pg EXCEPT !.shown = Trimmed(@ \ {ev.id})]
    ELSE WithMessage(pg, ev.id, pg.inbox)

\* preferences: a list of recipients that is not there yet has no flags to set.
GotPreferences(pg, ev) ==
    IF pg.known THEN Suppressed([pg EXCEPT !.flags = ev.ign], ev.ign) ELSE pg

EventArrives ==
    LET ev == Head(stream.queue)
    IN /\ stream.queue # <<>>
       /\ stream' = IF ev.kind = "access" THEN NoStream ELSE [stream EXCEPT !.queue = Tail(@)]
       /\ page' = CASE ev.kind = "ready" -> GotReady(page)
                    [] ev.kind = "message" -> GotMessage(page, ev)
                    [] ev.kind = "recipients" -> WithRecipients(page, ev.ign)
                    [] ev.kind = "preferences" -> GotPreferences(page, ev)
                    [] ev.kind = "access" -> Outdated([page EXCEPT !.suspended = TRUE, !.live = FALSE])
       /\ UNCHANGED <<Server, events>>

-----------------------------------------------------------------------------
(* What is stored, by whomever *)

Posted(from, to) ==
    /\ Len(msgs) < MaxMessages
    /\ msgs' = Append(msgs, [from |-> from, to |-> to])
    /\ LET i == Len(msgs) + 1 IN stream' = Told(IF Streamed(i, msgs') THEN <<i>> ELSE <<>>, cleared)
    /\ UNCHANGED <<cleared, ignored, banned>>

\* An edit, a deletion, a reaction or a pin
Touched(i) ==
    /\ i \in DOMAIN msgs \ cleared
    /\ stream' = Told(IF Streamed(i, msgs) THEN <<i>> ELSE <<>>, cleared)
    /\ UNCHANGED Server

\* clearPublicChat: one update of all, in whatever order it visits them
AllCleared ==
    /\ cleared' = cleared \cup Publics
    /\ \E q \in Orders(Publics \ cleared) : stream' = Told(q, cleared')
    /\ UNCHANGED <<msgs, ignored, banned>>

\* onPreference
PreferenceSet(ign) ==
    /\ ignored' = ign
    /\ stream' = IF stream.st # "open" THEN stream
                 ELSE [stream EXCEPT !.ign = ign, !.lists = @ \cup {ign},
                                     !.queue = Append(@, [kind |-> "preferences", ign |-> ign])]
    /\ UNCHANGED <<msgs, cleared, banned>>

-----------------------------------------------------------------------------
(* The viewer *)

\* switchConversation
Switch(c) ==
    /\ c # page.selected /\ (c = Everyone \/ page.known) /\ Event
    /\ LET open == [page EXCEPT !.selected = c,
                                !.unread = [p \in Peers |-> IF p = c THEN 0 ELSE @[p]]]
       IN page' = IF c \in Peers \ page.loaded THEN Loading(open, c) ELSE open
    /\ UNCHANGED <<Server, stream>>

Call(kind, conv, id) == [kind |-> kind, conv |-> conv, id |-> id, done |-> FALSE]

\* send and uploadImage: one at a time
Send ==
    /\ ~page.composer /\ ~page.suspended /\ Event
    /\ page' = [page EXCEPT !.composer = TRUE, !.posts = @ \cup {Call("send", page.selected, 0)}]
    /\ UNCHANGED <<Server, stream>>

\* saveEdit, deleteMessage and updateMessage
Touch ==
    \E i \in page.shown :
        /\ Event
        /\ page' = [page EXCEPT !.posts = @ \cup {Call("touch", Everyone, i)}]
        /\ UNCHANGED <<Server, stream>>

\* clearChat, of a viewer who is net control
Clear ==
    /\ page.selected = Everyone /\ Event
    /\ page' = [page EXCEPT !.posts = @ \cup {Call("clear", Everyone, 0)}]
    /\ UNCHANGED <<Server, stream>>

\* toggleIgnore
ToggleIgnore ==
    /\ page.selected \in Peers /\ page.known /\ Event
    /\ page' = [page EXCEPT !.posts = @ \cup
                    {Call(IF page.selected \in page.flags THEN "restore" ELSE "ignore", page.selected, 0)}]
    /\ UNCHANGED <<Server, stream>>

PostServed ==
    \E c \in page.posts :
        /\ ~c.done /\ ~banned
        /\ \/ c.kind = "send" /\ Posted(Viewer, c.conv)
           \/ c.kind = "touch" /\ Touched(c.id)
           \/ c.kind = "clear" /\ AllCleared
           \/ c.kind = "ignore" /\ PreferenceSet(ignored \cup {c.conv})
           \/ c.kind = "restore" /\ PreferenceSet(ignored \ {c.conv})
        /\ page' = [page EXCEPT !.posts = (@ \ {c}) \cup
                       {[c EXCEPT !.done = TRUE, !.id = IF c.kind = "send" THEN Len(msgs) + 1 ELSE c.id]}]
        /\ UNCHANGED events

\* The page takes the answer: the public collection is emptied after a clear, whatever
\* has come in the meantime.
Answered(pg, c) ==
    CASE c.kind = "send" -> [WithMessage(pg, c.id, FALSE) EXCEPT !.composer = FALSE]
      [] c.kind = "touch" -> WithMessage(pg, c.id, FALSE)
      [] c.kind = "clear" -> Outdated([pg EXCEPT !.shown = @ \cap Directs])
      [] c.kind = "ignore" -> Suppressed([pg EXCEPT !.flags = @ \cup {c.conv}], {c.conv})
      [] c.kind = "restore" -> Loading([pg EXCEPT !.flags = @ \ {c.conv}, !.unread[c.conv] = 0], c.conv)

PostAnswered ==
    \E c \in page.posts :
        /\ c.done
        /\ page' = Answered([page EXCEPT !.posts = @ \ {c}], c)
        /\ UNCHANGED <<Server, stream, events>>

\* A call is refused, or it fails, or only its answer is lost.
PostFails ==
    \E c \in page.posts :
        /\ (~c.done /\ (banned \/ c.id \in cleared) /\ UNCHANGED events) \/ Event
        /\ page' = [page EXCEPT !.posts = @ \ {c}, !.composer = IF c.kind = "send" THEN FALSE ELSE @]
        /\ UNCHANGED <<Server, stream>>

\* disconnectedCallback and connectedCallback: the logger moves the element of the chat.
Reattach ==
    /\ Event
    /\ page' = [page EXCEPT !.conn = None, !.reload = None, !.again = FALSE, !.loads = {},
                            !.posts = {c \in @ : c.kind # "send"}, !.composer = FALSE,
                            !.live = FALSE, !.fresh = FALSE]
    /\ stream' = NoStream
    /\ UNCHANGED Server

-----------------------------------------------------------------------------
(* Everybody else *)

PeerPosts == \E p \in Peers, to \in {Everyone, Viewer} : Posted(p, to) /\ Event /\ UNCHANGED page
PeerTouches == \E i \in DOMAIN msgs : Touched(i) /\ Event /\ UNCHANGED page
OtherClears == Publics \ cleared # {} /\ AllCleared /\ Event /\ UNCHANGED page
\* The viewer's preference is set on another page.
OtherPage == \E p \in Peers : /\ PreferenceSet(IF p \in ignored THEN ignored \ {p} ELSE ignored \cup {p})
                              /\ Event /\ UNCHANGED page

Banned ==
    /\ ~banned /\ Event
    /\ banned' = TRUE
    /\ stream' = IF stream.st # "open" THEN stream
                 ELSE [stream EXCEPT !.st = "ended", !.lists = {}, !.queue = Append(@, [kind |-> "access"])]
    /\ UNCHANGED <<msgs, cleared, ignored, page>>

\* onPresence
Presence ==
    /\ stream.st = "open" /\ Event
    /\ stream' = [stream EXCEPT !.lists = @ \cup {stream.ign}]
    /\ UNCHANGED <<Server, page>>

-----------------------------------------------------------------------------
Answers == Connect \/ ConnectServed \/ Connected \/ ReloadServed \/ Reloaded \/ LoadServed \/ Loaded
           \/ PostServed \/ PostAnswered
Failures == ConnectFails \/ ReloadFails \/ LoadFails \/ PostFails \/ StreamLost \/ Reattach
Streaming == StreamAuthorized \/ StreamRefused \/ StreamOpens \/ ListWritten \/ EventArrives
Viewing == (\E c \in Conversations : Switch(c)) \/ Send \/ Touch \/ Clear \/ ToggleIgnore
Others == PeerPosts \/ PeerTouches \/ OtherClears \/ OtherPage \/ Banned \/ Presence

Next == Answers \/ Failures \/ Streaming \/ Viewing \/ Others

Spec == Init /\ [][Next]_vars

\* Requests are answered or fail, connections are made or refused, what is sent arrives.
Fairness ==
    /\ WF_vars(Connect) /\ WF_vars(ConnectServed \/ ConnectFails) /\ WF_vars(Connected)
    /\ WF_vars(ReloadServed \/ ReloadFails) /\ WF_vars(Reloaded)
    /\ WF_vars(StreamAuthorized \/ StreamRefused) /\ WF_vars(StreamOpens)
    /\ WF_vars(EventArrives)

FairSpec == Spec /\ Fairness

-----------------------------------------------------------------------------
(* Properties *)

\* The page knows of messages that exist, its counts are of the messages it has, and it
\* reloads only what the server keeps.
TypeOK ==
    /\ msgs \in Seq([from : Users, to : {Everyone, Viewer} \cup Peers]) /\ Len(msgs) <= MaxMessages
    /\ cleared \subseteq Publics /\ ignored \subseteq Peers /\ banned \in BOOLEAN
    /\ stream.st \in {"none", "asked", "authorized", "open", "ended", "refused"}
    /\ page.shown \subseteq DOMAIN msgs /\ page.flags \subseteq Peers
    /\ page.selected \in Conversations /\ page.loaded \subseteq Peers
    /\ page.unread \in [Peers -> Nat]
    /\ Cardinality(page.shown \cap Publics) <= Limit
    /\ Cardinality({c \in page.posts : c.kind = "send"}) <= 1

HasHistory == Newest(Publics \ cleared) \subseteq page.shown

\* chat.ts:999: once the page has reloaded its history on a stream that is ready, it misses
\* none of the newest public messages, in whatever order answers and events have come,
\* unless the operator has cleared the chat here (1463).
NoneMissing == (page.fresh /\ stream.st = "open" /\ stream.queue = <<>>) => HasHistory

\* chatState.ts:90: a public message leaves the page only when net control has cleared it,
\* when enough newer ones are there, or when the operator clears the chat here: no answer
\* that was on its way before the message drops it.
NoneDropped ==
    \A i \in page.shown \cap Publics :
        \/ i \in page'.shown \/ i \in cleared
        \/ Cardinality({j \in page'.shown \cap Publics' : j > i}) >= Limit
        \/ \E c \in page.posts : c.kind = "clear" /\ c \notin page'.posts
NoneVanish == [][NoneDropped]_vars

\* chat.ts:1009: a conversation has no more unread messages than messages of its peer, and
\* none while it is open, whichever way they came.  Excepted is one of which a message that an
\* ignore had taken away came anew while an older load of the conversation was under way: its
\* answer may drop the message, and the count stays (790).
UnreadIsThere ==
    \A p \in Peers :
        /\ p \notin page.twice =>
              page.unread[p] <= Cardinality({i \in page.shown \cap Directs : ~Mine(i) /\ Peer(i) = p})
        /\ page.selected = p => page.unread[p] = 0

\* chat.ts:1108: a page that has lost its stream reloads its history on the next one, also
\* when a reload is under way at that moment, unless it says that it could not, is refused,
\* suspended or set up anew, or the operator clears the chat.
CatchesUp ==
    (page.ready /\ stream.st = "asked") ~>
        \/ page.fresh \/ page.failed \/ page.suspended \/ stream.st \in {"none", "refused"}
        \/ \E c \in page.posts : c.kind = "clear"

=================================================================================
