------------------------------- MODULE ChatTyping -------------------------------
(***************************************************************************)
(* Who is typing: a page tells the server when its user starts and stops,  *)
(* in calls that nobody waits for; the server keeps that in memory and     *)
(* tells the other pages.  Time is left out: a timer that is set may end   *)
(* at any moment, and does at some time.                                   *)
(***************************************************************************)
EXTENDS Integers, Sequences, FiniteSets

CONSTANTS
    Typist, Others,     \* the user who types, and those who look on
    Everyone,           \* the public conversation
    MaxEvents           \* bound: on what users and failures do

VARIABLES
    input,      \* the typist's page: the open conversation, what was announced, calls
    states,     \* ChatTypingHub.states: the conversations in which the typist is typing
    connected,  \* users with a chat stream (ChatTypingHub.connections)
    pages,      \* remoteTypists of each page and the events on their way to it
    events

vars == <<input, states, connected, pages, events>>

Conversations == Others \cup {Everyone}
Key == [to : Conversations, active : BOOLEAN]

Init ==
    /\ input \in [open : Conversations, typing : {FALSE}, to : {Everyone}, calls : {<<>>}]
    /\ states = {}
    /\ connected = Others \cup {Typist}
    /\ pages = [u \in Others |-> [remote |-> {}, queue |-> <<>>]]
    /\ events = 0

Event == events < MaxEvents /\ events' = events + 1

\* sendTypingState
Called(in, active, to) == [in EXCEPT !.calls = Append(@, [to |-> to, active |-> active])]

\* stopTyping
Stopped(in) ==
    IF in.typing THEN [Called(in, FALSE, in.to) EXCEPT !.typing = FALSE, !.to = Everyone] ELSE in

\* handleTypingInput: announced once, again after TYPING_RENEW_MS, and when the conversation differs
Types ==
    /\ Event
    /\ input' = [Called(input, TRUE, input.open) EXCEPT !.typing = TRUE, !.to = input.open]
    /\ UNCHANGED <<states, connected, pages>>

\* TYPING_IDLE_MS pass, or the input is emptied or sent.
Stops ==
    /\ input.typing
    /\ input' = Stopped(input)
    /\ UNCHANGED <<states, connected, pages, events>>

\* switchConversation
Switches ==
    \E c \in Conversations \ {input.open} :
        /\ Event
        /\ input' = [Stopped(input) EXCEPT !.open = c]
        /\ UNCHANGED <<states, connected, pages>>

\* ChatTypingHub.broadcast; the events of one moment are one here.
Broadcast(S, active) ==
    pages' = [u \in Others |->
                 IF u \in connected /\ S \cap {u, Everyone} # {}
                 THEN [pages[u] EXCEPT !.queue = Append(@, [to |-> S \cap {u, Everyone}, active |-> active])]
                 ELSE pages[u]]

Without(s, n) == SubSeq(s, 1, n - 1) \o SubSeq(s, n + 1, Len(s))

\* setTypingState and ChatTypingHub.set.  Calls overtake one another; one of a user without a
\* stream is refused, like the start of a private one whose recipient has none.
CallServed ==
    \E n \in DOMAIN input.calls :
        LET c == input.calls[n]
            refused == \/ Typist \notin connected
                       \/ c.to # Everyone /\ c.to \notin connected /\ (c.active \/ c.to \notin states)
        IN /\ input' = [input EXCEPT !.calls = Without(@, n)]
           /\ IF refused \/ (~c.active /\ c.to \notin states) THEN UNCHANGED <<states, pages>>
              ELSE /\ states' = IF c.active THEN states \cup {c.to} ELSE states \ {c.to}
                   /\ Broadcast({c.to}, c.active)
           /\ UNCHANGED <<connected, events>>

\* A call fails, or the rate limit refuses it.
CallFails ==
    \E n \in DOMAIN input.calls :
        /\ Event
        /\ input' = [input EXCEPT !.calls = Without(@, n)]
        /\ UNCHANGED <<states, connected, pages>>

\* ChatTypingHub.expire
Expires ==
    \E k \in states :
        /\ states' = states \ {k}
        /\ Broadcast({k}, FALSE)
        /\ UNCHANGED <<input, connected, events>>

EventArrives ==
    \E u \in Others :
        LET ev == Head(pages[u].queue)
        IN /\ pages[u].queue # <<>>
           /\ pages' = [pages EXCEPT ![u] = [queue |-> Tail(@.queue),
                                             remote |-> IF ev.active THEN @.remote \cup ev.to
                                                        ELSE @.remote \ ev.to]]
           /\ UNCHANGED <<input, states, connected, events>>

\* scheduleTypingExpiry
RemoteExpires ==
    \E u \in Others : \E k \in pages[u].remote :
        /\ pages' = [pages EXCEPT ![u].remote = @ \ {k}]
        /\ UNCHANGED <<input, states, connected, events>>

\* The last stream of the typist ends (connect's result, clearSender).
TypistLost ==
    /\ Typist \in connected /\ Event
    /\ connected' = connected \ {Typist}
    /\ states' = {}
    /\ Broadcast(states, FALSE)
    /\ UNCHANGED input

\* The stream of another page ends, with what was on its way.
OtherLost ==
    \E u \in connected \ {Typist} :
        /\ Event
        /\ connected' = connected \ {u}
        /\ pages' = [pages EXCEPT ![u].queue = <<>>]
        /\ UNCHANGED <<input, states>>

\* Nothing is replayed.
Reconnects ==
    \E u \in (Others \cup {Typist}) \ connected :
        /\ connected' = connected \cup {u}
        /\ UNCHANGED <<input, states, pages, events>>

Next ==
    \/ Types \/ Stops \/ Switches \/ CallServed \/ CallFails \/ Expires
    \/ EventArrives \/ RemoteExpires \/ TypistLost \/ OtherLost \/ Reconnects

Spec == Init /\ [][Next]_vars

\* Calls arrive or fail, events arrive, timers end.
FairSpec ==
    Spec /\ WF_vars(Stops) /\ WF_vars(CallServed) /\ WF_vars(Expires) /\ WF_vars(EventArrives)
         /\ WF_vars(RemoteExpires)

-----------------------------------------------------------------------------
TypeOK ==
    /\ input.open \in Conversations /\ input.to \in Conversations /\ input.typing \in BOOLEAN
    /\ input.calls \in Seq(Key)
    /\ states \subseteq Conversations /\ connected \subseteq Others \cup {Typist}
    /\ \A u \in Others : pages[u].remote \subseteq {u, Everyone} /\ pages[u].queue \in Seq([to : SUBSET {u, Everyone}, active : BOOLEAN])

\* localChat.js:317: the server shows nobody as typing who has no stream.
TypistIsThere == states # {} => Typist \in connected

\* chat.ts:1247: no page shows the typist for ever, whatever calls and events were lost or
\* came in another order, once nobody types any more.
NobodyShown == \A u \in Others : pages[u].remote = {}
IndicatorEnds == <>[]NobodyShown
=============================================================================
