------------------------------ MODULE MCScreens ------------------------------
(* The panels and the lists of the logger page, small, and the backups of the server.
   They share no state: a step of one changes nothing another one reads, so each is
   checked while the others stand still, and `part` says which one is at work. *)
EXTENDS ScreensAndBackups

CONSTANTS nc, a, b, i1

VARIABLE part

MCShifts == {-2, 3}
MCDrops == {[x |-> 11, y |-> 8]}

\* A layout of the grid of twelve columns, with one of an upright phone which is kept, and
\* one of the list of panels before it.
Gone == [id \in Modules |-> FALSE]
Stacked ==
    [version |-> 3, collapsed |-> [id \in Modules |-> id = "lurkers"],
     items |-> [controls |-> Rect(0, 0, 24, 6), active |-> Rect(0, 6, 24, 12), chat |-> Rect(0, 18, 24, 15),
                lurkers |-> Rect(0, 33, 24, 5), checkedOut |-> Rect(0, 38, 24, 7)]]
Left(desktop, upright) ==
    [s \in AllScreens |-> CASE s = "desktop" -> desktop [] s = "phonePortrait" -> upright [] OTHER -> None]
MCOlder ==
    {Left([version |-> 2, collapsed |-> Gone,
      items |-> [lurkers |-> Rect(0, 0, 5, 2), controls |-> Rect(5, 0, 2, 4),
                 checkedOut |-> Rect(7, 0, 5, 2), chat |-> Rect(0, 4, 4, 16),
                 active |-> Rect(4, 4, 8, 16)]], Stacked),
     Left([version |-> 1, collapsed |-> Gone, order |-> <<"active", "chat">>,
      spans |-> [id \in Modules |-> CASE id = "active" -> 8 [] id = "chat" -> 4 [] OTHER -> 6],
      heights |-> [id \in Modules |-> IF id = "lurkers" THEN 0 ELSE 161]], None)}

\* A part at rest is in one of its initial states.
MCInit ==
    /\ part \in {"layout", "lists", "backup"}
    /\ AllInit
    /\ part # "layout" => /\ ctx.role = "netcontrol" /\ ctx.screen = "desktop"
                          /\ layout.items = DesktopDefault.items
    /\ part # "lists" => ~page.touch /\ \A c \in Calls : page.seen[c] = "active"

MCNext ==
    \/ part = "layout" /\ LayoutStep /\ UNCHANGED part
    \/ part = "lists" /\ ListStep /\ UNCHANGED part
    \/ part = "backup" /\ BackupStep /\ UNCHANGED part

MCSpec == MCInit /\ [][MCNext]_<<part, allVars>>
=============================================================================
