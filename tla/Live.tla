---------------------------------- MODULE Live ----------------------------------
(***************************************************************************)
(* What reaches the pages while a net is on the air: its state, pushed and *)
(* polled (RealtimePush), the polled list of favorites (Favorites), the    *)
(* chat of one page (Chat) and who is typing (ChatTyping).  They come by   *)
(* connections of their own, and interleave.                               *)
(***************************************************************************)
EXTENDS RealtimePush

CONSTANTS
    Nets, MaxClicks, MaxNews, MaxFailures,      \* of the favorites
    Peers, Viewer, Everyone, Limit,             \* of the chat
    MaxMessages, MaxChatEvents,
    Typist, Onlookers, MaxTypingEvents          \* of the typing indicator

VARIABLES
    followed, news, store, off, loop, polls, follows, clicks, failures,
    msgs, cleared, ignored, banned, chatStream, chatPage, chatEvents,
    input, states, connected, typingPages, typingEvents

Favorites == INSTANCE Favorites WITH calls <- follows
Chat == INSTANCE Chat WITH
    MaxEvents <- MaxChatEvents, stream <- chatStream, page <- chatPage, events <- chatEvents
Typing == INSTANCE ChatTyping WITH
    Others <- Onlookers, MaxEvents <- MaxTypingEvents, pages <- typingPages, events <- typingEvents

ASSUME PartsAssumption == Favorites!FavoritesAssumption /\ Chat!ChatAssumption

listVars == <<followed, news, store, off, loop, polls, follows, clicks, failures>>
chatVars == <<msgs, cleared, ignored, banned, chatStream, chatPage, chatEvents>>
typingVars == <<input, states, connected, typingPages, typingEvents>>
liveVars == <<vars, listVars, chatVars, typingVars>>

LiveInit == Init /\ Favorites!Init /\ Chat!Init /\ Typing!Init

\* The steps of each part.
FeedStep == Next /\ UNCHANGED <<listVars, chatVars, typingVars>>
ListStep == Favorites!Next /\ UNCHANGED <<vars, chatVars, typingVars>>
ChatStep == Chat!Next /\ UNCHANGED <<vars, listVars, typingVars>>
TypingStep == Typing!Next /\ UNCHANGED <<vars, listVars, chatVars>>

LiveNext == FeedStep \/ ListStep \/ ChatStep \/ TypingStep

LiveSpec == LiveInit /\ [][LiveNext]_liveVars

-----------------------------------------------------------------------------
(* What the modules state. *)

\* The types of all parts.
LiveTypes == TypeOK /\ Favorites!TypeOK /\ Chat!TypeOK /\ Typing!TypeOK

\* The types of all parts; no page is sent home while its net is on the air (RealtimePush: HomeAfterEnd); the loop
\* that polls the favorites has a timer or a request that sets one, whatever fails (Favorites:
\* clientUtils.ts); one who is shown as typing has a stream (ChatTyping: localChat.js); and in whatever
\* order answers and events come, a page that has reloaded its history misses none of the newest public
\* messages and counts as unread only what is there (Chat: chat.ts).
LiveHolds ==
    /\ LiveTypes /\ HomeAfterEnd
    /\ Favorites!LoopLives
    /\ Typing!TypistIsThere
    /\ Chat!NoneMissing /\ Chat!UnreadIsThere

\* A public message leaves the page only when something took it away: no answer that was on its
\* way before the message drops it (Chat: chatState.ts).
MessagesStay == Chat!NoneVanish
=============================================================================
