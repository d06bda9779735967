------------------------------ MODULE LoggerPage ------------------------------
(***************************************************************************)
(* What is shown on the logger page and kept behind it, part by part: its  *)
(* dialogs (LoggerModals), what the chat lays over it (ChatOverlays), the  *)
(* groups the store keeps of its stations (StationGroups), their photos    *)
(* (StationPhotos), and the profile of a station, which the edit windows   *)
(* of several such pages write (StationProfiles).  The parts interleave.   *)
(***************************************************************************)
EXTENDS LoggerModals, FiniteSets

CONSTANTS
    None,
    Messages, Peers, Of,                        \* of the chat
    Calls, RolesTaken,                        \* stations, and the roles they take
    Self, Pictured, Rest,                       \* the operator's; those with a photo; a pause
    Editors, Fields, Own, Qrz, Blank,           \* of the profile
    MaxEdits, MaxVisits                         \* bounds: on what is done to the profile

VARIABLES
    open, actions, kept, marked, selected, unread,
    lightbox, previous, overflow, lock, logger, phone, crossed,
    cache, index, groups, flags, known, returned,
    present, queue, running, current, editor, fresh, blocked, qrzPhoto,
    image, pending, resolved, failed, full, broken, lookups,
    doc, room, account, lookup, modal, reqs, refilled, edits, visits

Overlays == INSTANCE ChatOverlays WITH panel <- logger
Groups == INSTANCE StationGroups WITH Roles <- RolesTaken
Photos == INSTANCE StationPhotos WITH photo <- qrzPhoto, asked <- lookups
Profiles == INSTANCE StationProfiles WITH Managers <- Editors

ASSUME PartsAssumption ==
    /\ Overlays!OfAssumption /\ Groups!RolesAssumption
    /\ Photos!PhotosAssumption /\ Profiles!ProfilesAssumption

PageInit == Init /\ Overlays!Init /\ Groups!Init /\ Photos!Init /\ Profiles!Init

overlayVars ==
    <<open, actions, kept, marked, selected, unread,
      lightbox, previous, overflow, lock, logger, phone, crossed>>
groupVars == <<cache, index, groups, flags, known, returned>>
photoVars ==
    <<present, queue, running, current, editor, fresh, blocked, qrzPhoto,
      image, pending, resolved, failed, full, broken, lookups>>
profileVars == <<doc, room, account, lookup, modal, reqs, refilled, edits, visits>>
pageVars == <<vars, overlayVars, groupVars, photoVars, profileVars>>

\* The steps of each part.
ModalStep == Next /\ UNCHANGED <<overlayVars, groupVars, photoVars, profileVars>>
OverlayStep == Overlays!Next /\ UNCHANGED <<vars, groupVars, photoVars, profileVars>>
GroupStep == Groups!Next /\ UNCHANGED <<vars, overlayVars, photoVars, profileVars>>
PhotoStep == Photos!Next /\ UNCHANGED <<vars, overlayVars, groupVars, profileVars>>
ProfileStep == Profiles!Next /\ UNCHANGED <<vars, overlayVars, groupVars, photoVars>>

PageNext == ModalStep \/ OverlayStep \/ GroupStep \/ PhotoStep \/ ProfileStep

PageSpec == PageInit /\ [][PageNext]_pageVars

-----------------------------------------------------------------------------
(* What the modules state. *)

\* The types of all parts.
PageTypes == TypeOK /\ Overlays!TypeOK /\ Groups!TypeOK /\ Photos!TypeOK /\ Profiles!TypeOK

\* One menu of the chat is open at most, marks and menus agree, and the page scrolls again when the
\* last overlay goes (ChatOverlays: chat.ts); the groups of stations say of each what its state says
\* (StationGroups: stores.ts); a queue of lookups has a processor, and a photo that is waited for is
\* being loaded (StationPhotos: ncoLogger.js).
PageAgrees ==
    /\ Overlays!OneOpen /\ Overlays!MarksAgree /\ Overlays!ScrollComesBack
    /\ Groups!GroupsTrue
    /\ Photos!QueueServed /\ Photos!SourcesAgree

\* An edit of a profile is accepted only on top of what its manager saw, and what a manager wrote is
\* not replaced by what the station's account says (StationProfiles: stationProfileService.js); a group
\* that changes has its flag up (StationGroups: stores.ts).
EditsStand == Profiles!StaleEditsConflict /\ Profiles!ManualStands /\ Groups!ChangesFlagged
=============================================================================
