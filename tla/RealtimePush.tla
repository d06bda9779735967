----------------------------- MODULE RealtimePush -----------------------------
(***************************************************************************)
(* How the browsers on the page of a running net follow it: the server     *)
(* pushes the whole state of the net (RealtimeClients), and the page's     *)
(* ReactiveStore polls once, then listens.                                 *)
(*                                                                         *)
(* One net, of which only its version is told apart: what the hash of a    *)
(* response covers.  An event stream is a sequence of versions and CLOSE;  *)
(* a message equal to the one before it is left out of it, since           *)
(* handleNewData drops a response whose hash it already has.               *)
(***************************************************************************)
EXTENDS Naturals, Sequences

CONSTANTS
    Instances,      \* server processes
    Browsers,       \* pages of the net
    Permits,        \* what callers of push pass for permitCachedResponse
    None,
    MaxVersion,     \* bound: changes of the net, its reopening counted as one
    MaxFaults       \* bound: failed reads, lost connections and streams, restarts

ASSUME BoundsAssumption == MaxVersion \in Nat \ {0} /\ MaxFaults \in Nat
ASSUME PermitsAssumption == Permits \subseteq BOOLEAN

VARIABLES
    net,            \* the room: open, closing (claimed by closeNet) or removed
    version,        \* of the net's data
    cache,          \* netDetailsCache of an instance: a version or None
    items,          \* middlewareMap: the pages connected, or None
    pushes,         \* pushStates: the push in progress, or None
    events,         \* change events on their way to handleChange
    calls,          \* requests that made a change and are yet to call push
    stream,         \* change stream of an instance
    page,           \* store of a page
    wire,           \* messages on their way to a page
    ended,          \* has the net ever been claimed for closing, or a server stopped?
    faults

vars == <<net, version, cache, items, pushes, events, calls, stream, page, wire, ended, faults>>

Version == 1 .. MaxVersion
CLOSE == 0
NOTFOUND == 0
NONE == 0

Push ==
    [rerun : BOOLEAN, nextPermit : BOOLEAN, phase : {"queued", "reading", "answered"},
     permit : BOOLEAN, captured : BOOLEAN, answer : Version \cup {NOTFOUND},
     called : Version \cup {NONE}, wanted : Version \cup {NONE}]

ASSUME NoneAssumption == None \notin Nat /\ (\A B \in SUBSET Browsers : None # B) /\ None \notin Push

Page ==
    [mode : {"polling", "connecting", "open", "refused", "home"},
     online : BOOLEAN, shown : Version \cup {None}, asked : Version \cup {None},
     at : Instances]

TypeOK ==
    /\ net \in {"open", "closing", "removed"}
    /\ version \in Version
    /\ cache \in [Instances -> Version \cup {None}]
    /\ items \in [Instances -> (SUBSET Browsers) \cup {None}]
    /\ pushes \in [Instances -> Push \cup {None}]
    /\ events \in [Instances -> 0 .. MaxVersion]
    /\ calls \in [Instances -> 0 .. MaxVersion]
    /\ stream \in [Instances -> {"first", "retrying", "second", "dead"}]
    /\ page \in [Browsers -> Page]
    /\ wire \in [Browsers -> Seq(Version \cup {CLOSE})]
    /\ ended \in BOOLEAN
    /\ faults \in 0 .. MaxFaults

NewPage(i) == [mode |-> "polling", online |-> TRUE, shown |-> None, asked |-> None, at |-> i]

Init ==
    /\ net = "open" /\ version = 1 /\ ended = FALSE /\ faults = 0
    /\ cache = [i \in Instances |-> None]
    /\ items = [i \in Instances |-> None]
    /\ pushes = [i \in Instances |-> None]
    /\ events = [i \in Instances |-> 0] /\ calls = events
    /\ stream = [i \in Instances |-> "first"]
    /\ page \in {[b \in Browsers |-> NewPage(at[b])] : at \in [Browsers -> Instances]}
    /\ wire = [b \in Browsers |-> <<>>]

Fault == faults < MaxFaults /\ faults' = faults + 1

-----------------------------------------------------------------------------
(* The streams.  Sending is to the pages connected at that time. *)

Members(i) == IF items[i] = None THEN {} ELSE items[i]

\* What the page will have when it has read all that was sent to it.
Newest(b) == IF wire[b] = <<>> THEN page[b].shown ELSE wire[b][Len(wire[b])]

SendTo(members, message) ==
    [b \in Browsers |->
        IF b \in members /\ Newest(b) # message THEN Append(wire[b], message) ELSE wire[b]]

\* A push that already holds the SSE object keeps it, but nobody listens there.
Released(i) ==
    IF pushes[i] = None THEN None ELSE [pushes[i] EXCEPT !.captured = FALSE]

\* Mutation: the pages are forgotten before they are told.
CloseItemSilently(i) ==
    /\ items' = [items EXCEPT ![i] = None]
    /\ UNCHANGED wire

\* close: tells the pages and forgets them.
CloseItem(i) ==
    /\ wire' = SendTo(Members(i), CLOSE)
    /\ items' = [items EXCEPT ![i] = None]

-----------------------------------------------------------------------------
(* The changes of the net and the calls of push. *)

Listening(i) == stream[i] \in {"first", "second"}

\* A change of an interaction is announced to every instance that listens.
InteractionChange ==
    /\ net = "open" /\ version < MaxVersion
    /\ version' = version + 1
    /\ events' = [i \in Instances |-> IF Listening(i) THEN events[i] + 1 ELSE events[i]]
    /\ UNCHANGED <<net, cache, items, pushes, calls, stream, page, wire, ended, faults>>

\* A change of the room itself, by a request of i that then calls push.
RoomChange(i) ==
    /\ net = "open" /\ version < MaxVersion
    /\ version' = version + 1
    /\ calls' = [calls EXCEPT ![i] = @ + 1]
    /\ UNCHANGED <<net, cache, items, pushes, events, stream, page, wire, ended, faults>>

\* closeNet of i: it claims the room and closes the streams first.
Close(i) ==
    /\ net = "open"
    /\ net' = "closing" /\ ended' = TRUE
    /\ CloseItem(i)
    /\ pushes' = [pushes EXCEPT ![i] = Released(i)]
    /\ UNCHANGED <<version, cache, events, calls, stream, page, faults>>

\* ... and later removes it, or gives the claim back.
Remove ==
    /\ net = "closing" /\ net' = "removed"
    /\ UNCHANGED <<version, cache, items, pushes, events, calls, stream, page, wire, ended, faults>>

Reopen ==
    /\ net \in {"closing", "removed"} /\ version < MaxVersion
    /\ net' = "open" /\ version' = version + 1
    /\ UNCHANGED <<cache, items, pushes, events, calls, stream, page, wire, ended, faults>>

\* Of a push in progress, called is the version of the net at the last call for
\* fresh data that no round has begun for, wanted that of this round.
NewPush(permit) ==
    [rerun |-> FALSE, nextPermit |-> permit, phase |-> "queued", permit |-> FALSE,
     captured |-> FALSE, answer |-> NOTFOUND,
     called |-> IF permit THEN NONE ELSE version, wanted |-> NONE]

\* A call while a push is in progress asks for another round.
Joined(p, permit) ==
    [p EXCEPT !.rerun = TRUE, !.nextPermit = @ /\ permit,
              !.called = IF permit THEN @ ELSE version]

\* Mutation: a second call joins the push in progress without another round.
StartPushJoins(i, permit) ==
    pushes' = [pushes EXCEPT ![i] =
        IF pushes[i] = None THEN NewPush(permit)
        ELSE [pushes[i] EXCEPT !.called = IF permit THEN @ ELSE version]]

\* push.
StartPush(i, permit) ==
    pushes' = [pushes EXCEPT ![i] =
        IF pushes[i] = None THEN NewPush(permit) ELSE Joined(pushes[i], permit)]

\* Mutation: the periodic push is for nets whose change stream is lost.
TickWithoutStream(i) ==
    /\ items[i] # None /\ ~Listening(i)
    /\ StartPush(i, FALSE)
    /\ UNCHANGED <<net, version, cache, items, events, calls, stream, page, wire, ended, faults>>

\* handleChange.
Announced(i) ==
    /\ events[i] > 0
    /\ events' = [events EXCEPT ![i] = @ - 1]
    /\ StartPush(i, FALSE)
    /\ UNCHANGED <<net, version, cache, items, calls, stream, page, wire, ended, faults>>

Requested(i, permit) ==
    /\ calls[i] > 0
    /\ calls' = [calls EXCEPT ![i] = @ - 1]
    /\ StartPush(i, permit)
    /\ UNCHANGED <<net, version, cache, items, events, stream, page, wire, ended, faults>>

\* schedulePush, for a net whose last push is old enough.
Tick(i) ==
    /\ items[i] # None
    /\ StartPush(i, FALSE)
    /\ UNCHANGED <<net, version, cache, items, events, calls, stream, page, wire, ended, faults>>

-----------------------------------------------------------------------------
(* pushOnce, in the loop of push. *)

Pushing(i, phase) == pushes[i] # None /\ pushes[i].phase = phase

\* The loop of push: another round if one was asked for.
NextRound(p) == IF p.rerun THEN [p EXCEPT !.phase = "queued"] ELSE None

BeginRound(i) ==
    /\ Pushing(i, "queued")
    /\ LET begun == [pushes[i] EXCEPT !.permit = pushes[i].nextPermit,
                                      !.rerun = FALSE, !.nextPermit = TRUE,
                                      !.wanted = pushes[i].called, !.called = NONE]
       IN pushes' = [pushes EXCEPT ![i] =
              IF items[i] = None THEN NextRound(begun)
              ELSE [begun EXCEPT !.phase = "reading", !.captured = TRUE]]
    /\ UNCHANGED <<net, version, cache, items, events, calls, stream, page, wire, ended, faults>>

\* genLiveNetDetails: the cached response if it may, else the database.
Generate(i) ==
    /\ Pushing(i, "reading")
    /\ LET cached == pushes[i].permit /\ cache[i] # None
           found == net # "removed"
       IN /\ pushes' = [pushes EXCEPT ![i].phase = "answered",
                            ![i].answer = IF cached THEN cache[i]
                                          ELSE IF found THEN version ELSE NOTFOUND]
          /\ cache' = [cache EXCEPT ![i] = IF ~cached /\ found THEN version ELSE @]
    /\ UNCHANGED <<net, version, items, events, calls, stream, page, wire, ended, faults>>

\* Any other error of the generator is logged: nothing is sent in this round.
GenerateFails(i) ==
    /\ Pushing(i, "reading") /\ Fault
    /\ pushes' = [pushes EXCEPT ![i] = NextRound(@)]
    /\ UNCHANGED <<net, version, cache, items, events, calls, stream, page, wire, ended>>

Send(i) ==
    /\ Pushing(i, "answered") /\ pushes[i].answer # NOTFOUND
    /\ wire' = SendTo(IF pushes[i].captured THEN Members(i) ELSE {}, pushes[i].answer)
    /\ pushes' = [pushes EXCEPT ![i] = NextRound(@)]
    /\ UNCHANGED <<net, version, cache, items, events, calls, stream, page, ended, faults>>

\* NetNotFoundError: the streams the net has by now are closed.
SendClose(i) ==
    /\ Pushing(i, "answered") /\ pushes[i].answer = NOTFOUND
    /\ CloseItem(i)
    /\ pushes' = [pushes EXCEPT ![i] = NextRound(@)]
    /\ UNCHANGED <<net, version, cache, events, calls, stream, page, ended, faults>>

CacheExpires(i) ==
    /\ cache[i] # None
    /\ cache' = [cache EXCEPT ![i] = None]
    /\ UNCHANGED <<net, version, items, pushes, events, calls, stream, page, wire, ended, faults>>
-----------------------------------------------------------------------------
(* Streams and processes that fail. *)

\* The first change stream is made again after a delay, the second is not: the
\* handler that retries was registered on the first only.
StreamFails(i) ==
    /\ Listening(i) /\ Fault
    /\ stream' = [stream EXCEPT ![i] = IF @ = "first" THEN "retrying" ELSE "dead"]
    /\ events' = [events EXCEPT ![i] = 0]
    /\ UNCHANGED <<net, version, cache, items, pushes, calls, page, wire, ended>>

StreamRetried(i) ==
    /\ stream[i] = "retrying"
    /\ stream' = [stream EXCEPT ![i] = "second"]
    /\ UNCHANGED <<net, version, cache, items, pushes, events, calls, page, wire, ended, faults>>

\* The process of i ends and another takes its place.
Restart(i) ==
    /\ Fault
    /\ cache' = [cache EXCEPT ![i] = None]
    /\ items' = [items EXCEPT ![i] = None]
    /\ pushes' = [pushes EXCEPT ![i] = None]
    /\ events' = [events EXCEPT ![i] = 0]
    /\ calls' = [calls EXCEPT ![i] = 0]
    /\ stream' = [stream EXCEPT ![i] = "first"]
    /\ UNCHANGED <<net, version>>

\* shutdown: every stream is closed, as if the net were.
Shutdown(i) ==
    /\ Restart(i)
    /\ wire' = SendTo(Members(i), CLOSE)
    /\ ended' = TRUE
    /\ UNCHANGED page

Lost(p) == [p EXCEPT !.mode = "connecting", !.online = FALSE]

Crash(i) ==
    /\ Restart(i)
    /\ page' = [b \in Browsers |->
           IF page[b].mode = "open" /\ page[b].at = i THEN Lost(page[b]) ELSE page[b]]
    /\ wire' = [b \in Browsers |->
           IF page[b].mode = "open" /\ page[b].at = i THEN <<>> ELSE wire[b]]
    /\ UNCHANGED ended

-----------------------------------------------------------------------------
(* The page. *)

\* The connection of b is gone: the server forgets it.
Without(b, its) ==
    [i \in Instances |-> IF its[i] = None THEN None ELSE its[i] \ {b}]

GoHome(b) == page' = [page EXCEPT ![b].mode = "home"]

\* The store's poll reads on any instance.  A net that is not open is not
\* found, and the streams of that instance are closed (handleCloseAndSendError).
PollRead(b, i) ==
    /\ page[b].mode = "polling" /\ page[b].asked = None
    /\ IF net = "open"
       THEN /\ page' = [page EXCEPT ![b].asked = version]
            /\ cache' = [cache EXCEPT ![i] = version]
            /\ UNCHANGED <<items, pushes, wire>>
       ELSE /\ page' = [page EXCEPT ![b].online = FALSE]
            /\ CloseItem(i)
            /\ pushes' = [pushes EXCEPT ![i] = Released(i)]
            /\ UNCHANGED cache
    /\ UNCHANGED <<net, version, events, calls, stream, ended, faults>>

\* handleNewData of the answer: the poll ends and the event stream begins.
PollAnswered(b) ==
    /\ page[b].asked # None
    /\ page' = [page EXCEPT ![b] =
           [@ EXCEPT !.shown = page[b].asked, !.asked = None, !.online = TRUE,
                     !.mode = "connecting"]]
    /\ UNCHANGED <<net, version, cache, items, pushes, events, calls, stream, wire, ended, faults>>

PollFails(b) ==
    /\ page[b].asked # None /\ Fault
    /\ page' = [page EXCEPT ![b].asked = None, ![b].online = FALSE]
    /\ UNCHANGED <<net, version, cache, items, pushes, events, calls, stream, wire, ended>>

\* middleware: the first page of the net makes its item.  Nothing is sent.
Connect(b, i) ==
    /\ page[b].mode = "connecting"
    /\ items' = [items EXCEPT ![i] = Members(i) \cup {b}]
    /\ page' = [page EXCEPT ![b].mode = "open", ![b].online = TRUE, ![b].at = i]
    /\ UNCHANGED <<net, version, cache, pushes, events, calls, stream, wire, ended, faults>>

\* An answer other than a stream ends an EventSource for good.
Refused(b) ==
    /\ page[b].mode = "connecting" /\ Fault
    /\ page' = [page EXCEPT ![b].mode = "refused", ![b].online = FALSE]
    /\ UNCHANGED <<net, version, cache, items, pushes, events, calls, stream, wire, ended>>

\* The connection breaks: the EventSource makes it again.
Disconnect(b) ==
    /\ page[b].mode = "open" /\ Fault
    /\ page' = [page EXCEPT ![b] = Lost(@)]
    /\ items' = Without(b, items)
    /\ wire' = [wire EXCEPT ![b] = <<>>]
    /\ UNCHANGED <<net, version, cache, pushes, events, calls, stream, ended>>

Receive(b) ==
    /\ page[b].mode = "open" /\ wire[b] # <<>>
    /\ IF Head(wire[b]) = CLOSE
       THEN /\ GoHome(b) /\ items' = Without(b, items)
            /\ wire' = [wire EXCEPT ![b] = <<>>]
       ELSE /\ page' = [page EXCEPT ![b].shown = Head(wire[b])]
            /\ wire' = [wire EXCEPT ![b] = Tail(@)]
            /\ UNCHANGED items
    /\ UNCHANGED <<net, version, cache, pushes, events, calls, stream, ended, faults>>

\* Presence polls for as long as the page is there; a net that is not open
\* sends it to the dashboard.
Presence(b, i) ==
    /\ page[b].mode # "home" /\ net # "open"
    /\ GoHome(b)
    /\ items' = Without(b, [items EXCEPT ![i] = None])
    /\ wire' = [SendTo(Members(i), CLOSE) EXCEPT ![b] = <<>>]
    /\ pushes' = [pushes EXCEPT ![i] = Released(i)]
    /\ UNCHANGED <<net, version, cache, events, calls, stream, ended, faults>>

-----------------------------------------------------------------------------
Next ==
    \/ InteractionChange \/ Remove \/ Reopen
    \/ \E i \in Instances :
          \/ RoomChange(i) \/ Close(i) \/ Announced(i) \/ Tick(i)
          \/ \E permit \in Permits : Requested(i, permit)
          \/ BeginRound(i) \/ Generate(i) \/ GenerateFails(i) \/ Send(i) \/ SendClose(i)
          \/ CacheExpires(i) \/ StreamFails(i) \/ StreamRetried(i) \/ Shutdown(i) \/ Crash(i)
    \/ \E b \in Browsers :
          \/ PollAnswered(b) \/ PollFails(b) \/ Refused(b) \/ Disconnect(b) \/ Receive(b)
          \/ \E i \in Instances : PollRead(b, i) \/ Connect(b, i) \/ Presence(b, i)

Spec == Init /\ [][Next]_vars

\* Timers fire, requests are answered, and the network carries what it is given.
Fairness ==
    /\ \A i \in Instances :
          /\ WF_vars(Tick(i)) /\ WF_vars(BeginRound(i))
          /\ WF_vars(Generate(i)) /\ WF_vars(Send(i)) /\ WF_vars(SendClose(i))
    /\ \A b \in Browsers :
          /\ WF_vars(PollAnswered(b)) /\ WF_vars(Receive(b))
          /\ WF_vars(\E i \in Instances : PollRead(b, i))
          /\ WF_vars(\E i \in Instances : Connect(b, i))
          /\ WF_vars(\E i \in Instances : Presence(b, i))

FairSpec == Spec /\ Fairness

-----------------------------------------------------------------------------
(* Properties. *)

\* close: a page with an open stream is one the server still sends to, or one
\* it has told that the net is closing.
OpenServedOrTold ==
    \A b \in Browsers : page[b].mode = "open" =>
        \/ b \in Members(page[b].at)
        \/ \E k \in 1 .. Len(wire[b]) : wire[b][k] = CLOSE

\* push: what the last round of a push sends is no older than the net was at the
\* calls for fresh data which that round is for, and it leaves no call behind.
PushCoversCalls ==
    [][\A i \in Instances :
          /\ Pushing(i, "answered") /\ pushes[i].answer # NOTFOUND
          /\ pushes'[i] = None /\ faults' = faults
          => pushes[i].answer >= pushes[i].wanted /\ pushes[i].called = NONE]_vars

\* net-close: no page is sent away while every net it followed is on the air and
\* every server up.
HomeAfterEnd == \A b \in Browsers : page[b].mode = "home" => ended

\* Whatever was lost on the way, each page comes to show the net as it is, to
\* say it is offline, or to leave; and it leaves if the net stays closed.
Settled(b) ==
    \/ page[b].mode = "home"
    \/ net = "open" /\ (~page[b].online \/ page[b].shown = version)
Converges == \A b \in Browsers : <>[]Settled(b)

=============================================================================
