---------------------------- MODULE ScreensAndBackups ----------------------------
(***************************************************************************)
(* The panels of a manager's logger page (LoggerLayout), the lists in them *)
(* (StationLists) and, beside the page, the backups of the server          *)
(* (Backup).  They share nothing and interleave.                           *)
(***************************************************************************)
EXTENDS LoggerLayout

CONSTANTS
    Calls, Nco, Helpers, MaxEvents,             \* of the lists
    Images, MaxNames, MaxCommands, MaxFaults    \* of the backups

VARIABLES
    page, rowDrag, fix, cause, events,
    image, dir, offsite, aged, run, command, target, named, commands, faults

Lists == INSTANCE StationLists WITH drag <- rowDrag
Backups == INSTANCE Backup

ASSUME PartsAssumption == ScreensAssumption /\ Lists!ListsAssumption /\ Backups!BackupAssumption

listVars == <<page, rowDrag, fix, cause, events>>
backupVars == <<image, dir, offsite, aged, run, command, target, named, commands, faults>>
allVars == <<vars, listVars, backupVars>>

AllInit == Init /\ Lists!Init /\ Backups!Init

\* The steps of each part.
LayoutStep == Next /\ UNCHANGED <<listVars, backupVars>>
ListStep == Lists!Next /\ UNCHANGED <<vars, backupVars>>
BackupStep == Backups!Next /\ UNCHANGED <<vars, listVars>>

AllNext == LayoutStep \/ ListStep \/ BackupStep

AllSpec == AllInit /\ [][AllNext]_allVars

-----------------------------------------------------------------------------
(* What the modules state. *)

\* The types of the parts; every station has one row, and what is chosen is there
\* (StationLists: ncoLogger.js).
ListsAgree == TypeOK /\ Backups!TypeOK /\ Lists!TypeOK /\ Lists!OneRowEach /\ Lists!ChosenAreThere

\* A panel comes to rest on the grid and no smaller than it may be, however old its layout; nothing the user
\* does to a sound layout covers a panel with another, pushes it off the grid or makes it too small, and
\* a panel that is edited leaves the others where they are (LoggerLayout).
PanelsStayClear == RestsOnGrid /\ EditsStayClear /\ OthersStay

\* A dropped row lands where its mark showed, and stations that stay on a list keep their order
\* though others come, go, are hidden or renamed (StationLists: moveDragged, ordered).
RowsKeepTheirPlaces == Lists!DropLands /\ Lists!PlacesKept

\* An archive beside a manifest is complete, and a restore that ends well brings back every image with the
\* message that names it; once there is a complete backup there always is one (Backup: cmdBackup, cmdRestore,
\* cmdPrune, backup-scheduler.sh).
BackupsRestore == Backups!BackupsRestore
AlwaysRestorable == Backups!AlwaysRestorable
=============================================================================
