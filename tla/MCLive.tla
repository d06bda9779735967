------------------------------- MODULE MCLive -------------------------------
(* One page and one server, small.  The parts share no state: a step of one changes
   nothing another one reads, so each is checked while the others stand still, and
   `part` says which one is at work. *)
EXTENDS Live

CONSTANTS n1, p1, u1, u2

VARIABLE part

Either == BOOLEAN

MCInit ==
    /\ part \in {"feed", "favorites", "chat", "typing"}
    /\ LiveInit
    \* A part at rest is in one of its initial states.
    /\ part # "chat" => msgs = <<>>
    /\ part # "typing" => input.open = Everyone

MCNext ==
    \/ part = "feed" /\ FeedStep /\ UNCHANGED part
    \/ part = "favorites" /\ ListStep /\ UNCHANGED part
    \/ part = "chat" /\ ChatStep /\ UNCHANGED part
    \/ part = "typing" /\ TypingStep /\ UNCHANGED part

MCSpec == MCInit /\ [][MCNext]_<<part, liveVars>>

\* The fairness of each part while it is the one at work.
FeedFairness ==
    /\ \A i \in Instances :
          /\ WF_vars(part = "feed" /\ Tick(i)) /\ WF_vars(part = "feed" /\ BeginRound(i))
          /\ WF_vars(part = "feed" /\ Generate(i)) /\ WF_vars(part = "feed" /\ Send(i))
          /\ WF_vars(part = "feed" /\ SendClose(i))
    /\ \A b \in Browsers :
          /\ WF_vars(part = "feed" /\ PollAnswered(b)) /\ WF_vars(part = "feed" /\ Receive(b))
          /\ WF_vars(part = "feed" /\ \E i \in Instances : PollRead(b, i))
          /\ WF_vars(part = "feed" /\ \E i \in Instances : Connect(b, i))
          /\ WF_vars(part = "feed" /\ \E i \in Instances : Presence(b, i))
ListFairness ==
    /\ WF_listVars(part = "favorites" /\ Favorites!TimerFires) /\ WF_listVars(part = "favorites" /\ Favorites!PollServed)
    /\ WF_listVars(part = "favorites" /\ Favorites!PollAnswered) /\ WF_listVars(part = "favorites" /\ Favorites!WindowEnds)
    /\ WF_listVars(part = "favorites" /\ Favorites!CheckFires) /\ WF_listVars(part = "favorites" /\ Favorites!CallServed)
ChatFairness ==
    /\ WF_chatVars(part = "chat" /\ Chat!Connect) /\ WF_chatVars(part = "chat" /\ (Chat!ConnectServed \/ Chat!ConnectFails))
    /\ WF_chatVars(part = "chat" /\ Chat!Connected) /\ WF_chatVars(part = "chat" /\ (Chat!ReloadServed \/ Chat!ReloadFails))
    /\ WF_chatVars(part = "chat" /\ Chat!Reloaded)
    /\ WF_chatVars(part = "chat" /\ (Chat!StreamAuthorized \/ Chat!StreamRefused))
    /\ WF_chatVars(part = "chat" /\ Chat!StreamOpens) /\ WF_chatVars(part = "chat" /\ Chat!EventArrives)
TypingFairness ==
    /\ WF_typingVars(part = "typing" /\ Typing!Stops) /\ WF_typingVars(part = "typing" /\ Typing!CallServed)
    /\ WF_typingVars(part = "typing" /\ Typing!Expires) /\ WF_typingVars(part = "typing" /\ Typing!EventArrives)
    /\ WF_typingVars(part = "typing" /\ Typing!RemoteExpires)

MCFairSpec == MCSpec /\ FeedFairness /\ ListFairness /\ ChatFairness /\ TypingFairness

-----------------------------------------------------------------------------
(* What the modules state, of the part at work. *)

\* Whatever fails or is lost on the way, once users and failures leave them alone: each page comes
\* to show the net as it is, to say it is offline, or to leave (Converges); the list of favorites is
\* the server's (CatchesUp); and nobody is shown as typing for ever (IndicatorEnds).
PagesSettle ==
    <>[](CASE part = "feed" -> \A b \in Browsers : Settled(b)
           [] part = "favorites" -> Favorites!UpToDate
           [] part = "typing" -> Typing!NobodyShown
           [] part = "chat" -> TRUE)

\* A page that lost its chat stream reloads its history on the next one, also when a reload was
\* under way at that moment (Chat: chat.ts:1108).
ChatCatchesUp == part = "chat" => Chat!CatchesUp
=============================================================================
