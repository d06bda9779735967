-------------------------------- MODULE Logger --------------------------------
(***************************************************************************)
(* What operators set going on their logger pages: the commands on a       *)
(* station's standing and role (StationRoles), and the marks the pages     *)
(* share (SharedLogger), which viewers' pages take over too.  The two are  *)
(* kept apart by the server, and interleave.                               *)
(***************************************************************************)
EXTENDS StationRoles

CONSTANTS
    Viewers,        \* stations with a logger page open that manage nothing
    MarkKinds,      \* commands on check-states that the marks follow
    Failing,        \* whether saves fail and pages are loaded again
    MaxMarks,       \* bounds: on what is done to the marks,
    MaxNets         \* and on live nets

ASSUME MarksAssumption ==
    /\ MarkKinds \subseteq CheckVerbs
    /\ MaxMarks \in Nat /\ MaxNets \in Nat \ {0}

VARIABLES net, stations, loggerState, clock, cache, pages, marks

Shared == INSTANCE SharedLogger WITH
    Pages <- Managers \cup Viewers, Calls <- Others, Kinds <- MarkKinds, MaxEvents <- MaxMarks,
    state <- loggerState, events <- marks

marksVars == <<net, stations, loggerState, clock, cache, pages, marks>>

LoggerInit == Init /\ Shared!Init
LoggerNext ==
    \/ Next /\ UNCHANGED marksVars
    \/ Shared!Next /\ UNCHANGED vars
LoggerSpec == LoggerInit /\ [][LoggerNext]_<<vars, marksVars>>

-----------------------------------------------------------------------------

\* The types of both parts.
LoggerTypes == TypeOK /\ Shared!TypeOK

\* Of the stations' commands: a page has one under way for a station at a time, and a correction of a
\* callsign, nothing else being done to the two, leaves one of them logged, whatever fails (StationRoles:
\* OneAtATime, NobodyIsLost).  Of the marks: one that no save has read yet will be read by one (SharedLogger:
\* publishSharedSnapshotSafely).
LoggerHolds == OneAtATime /\ NobodyIsLost /\ Shared!PendingIsRemembered

\* What a page saved is not replaced by something it had saved before (SharedLogger).
OwnSavesInOrder == Shared!OwnSavesInOrder
=============================================================================
