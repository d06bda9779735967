------------------------------- MODULE StationGroups -------------------------------
(***************************************************************************)
(* The index which the store of the live net keeps of its stations: it is  *)
(* rebuilt from every new version of the net, while the groups widgets ask *)
(* it for, raised hands, loggers and so on, are carried on from one        *)
(* version to the next by what has changed, with a flag for each group.    *)
(***************************************************************************)
CONSTANTS
    Calls,
    Roles,      \* the roles the stations of an instance take
    None

VARIABLES
    cache,      \* mainCache: the stations of the net as the store has them
    index,      \* _stationIndex; None until the first version was indexed
    groups,     \* stateGroupCollection
    flags,      \* newData of each group
    known,      \* whether clientCallSign is known: from the page, or else from presence
    returned    \* history: stations that were away and are back

vars == <<cache, index, groups, flags, known, returned>>

CheckedStates == {"lurk", "in", "out"}
Station == [checkedState : CheckedStates, hand : BOOLEAN, role : Roles]
Stations == [Calls -> Station \cup {None}]
RolesAssumption ==
    /\ Roles \subseteq {"netuser", "netlogger", "netrelay", "netcontrol"}
    /\ None \notin Station /\ None \notin Stations

Groups == {"hand-up", "checked-in-ever", "loggers", "relays", "attendees", "checked-out", "netcontrols"}
RoleGroup(role) ==
    CASE role = "netlogger" -> {"loggers"} [] role = "netrelay" -> {"relays"} [] role = "netcontrol" -> {"netcontrols"}
      [] role = "netuser" -> {}
RoleGroups == UNION {RoleGroup(r) : r \in Roles}

Init ==
    /\ cache = [c \in Calls |-> None]
    /\ index = None
    /\ groups = [g \in Groups |-> {}]
    /\ flags = [g \in Groups |-> FALSE]
    /\ known \in BOOLEAN
    /\ returned = {}

Prior(c) == IF index = None THEN None ELSE index[c]
Present(stations) == {c \in Calls : stations[c] # None}
Changed(c, now, field) == now[c] # None /\ (Prior(c) = None \/ Prior(c)[field] # now[c][field])

\* Mutation: a group that a station's role gives up keeps the station.
InGroupSticky(g, c, now) ==
    CASE g = "hand-up" /\ Changed(c, now, "hand") -> now[c].hand
      [] g = "checked-out" /\ Changed(c, now, "checkedState") -> now[c].checkedState = "out"
      [] g = "checked-in-ever" /\ Changed(c, now, "checkedState") -> now[c].checkedState # "lurk"
      [] g = "checked-in-ever" /\ now[c] = None /\ Prior(c) # None /\ Prior(c).checkedState = "in" -> FALSE
      [] g \in RoleGroups /\ Changed(c, now, "role") /\ g \in RoleGroup(now[c].role) -> TRUE
      [] g = "attendees" -> now[c] # None
      [] OTHER -> c \in groups[g]

\* The hooks of process: what has changed of a station moves it into a group or out of it, the role it had before out of
\* that role's group; who left while checked in is no longer counted as one who has checked in.
InGroup(g, c, now) ==
    CASE g = "hand-up" /\ Changed(c, now, "hand") -> now[c].hand
      [] g = "checked-out" /\ Changed(c, now, "checkedState") -> now[c].checkedState = "out"
      [] g = "checked-in-ever" /\ Changed(c, now, "checkedState") -> now[c].checkedState # "lurk"
      [] g = "checked-in-ever" /\ now[c] = None /\ Prior(c) # None /\ Prior(c).checkedState = "in" -> FALSE
      [] g \in RoleGroups /\ Changed(c, now, "role") /\ g \in RoleGroup(now[c].role) -> TRUE
      [] g \in RoleGroups /\ Changed(c, now, "role") /\ Prior(c) # None /\ g \in RoleGroup(Prior(c).role) -> FALSE
      [] g = "attendees" -> now[c] # None
      [] OTHER -> c \in groups[g]

\* A group is touched when a station is added, though it was there, or was there and is taken out.
Touched(g, c, now) ==
    \/ c \in groups[g] /\ ~InGroup(g, c, now)
    \/ /\ InGroup(g, c, now)
       /\ CASE g = "hand-up" -> Changed(c, now, "hand")
            [] g \in {"checked-in-ever", "checked-out"} -> Changed(c, now, "checkedState")
            [] g = "attendees" -> Prior(c) = None
            [] OTHER -> Changed(c, now, "role") /\ g \in RoleGroup(now[c].role)

Flagged(g, now) ==
    \/ index = None
    \/ \E c \in Calls : Touched(g, c, now)
    \/ g = "checked-out" /\ \E c \in Calls : Changed(c, now, "checkedState")
    \/ g = "attendees" /\ Present(index) # Present(now)
    \/ g = "checked-in-ever" /\ \E c \in Calls :
          \/ Prior(c) # None /\ now[c] = None /\ Prior(c).checkedState = "in"
          \/ now[c] # None /\ Prior(c) = None
          \/ now[c] # None /\ Prior(c) # None
                /\ (now[c].checkedState = "lurk") # (Prior(c).checkedState = "lurk")

\* process: nothing is indexed of a version without stations, or before the operator's own callsign is known.
Process(now) ==
    IF known /\ Present(now) # {}
    THEN /\ index' = now
         /\ groups' = [g \in Groups |-> {c \in Calls : InGroup(g, c, now)}]
         /\ flags' = [g \in Groups |-> Flagged(g, now)]
         /\ returned' = returned \cup {c \in Calls : index # None /\ index[c] = None /\ now[c] # None}
    ELSE UNCHANGED <<index, groups, flags, returned>>

\* The server's version of the net becomes the store's: a station came, left or changed.
NewVersion == \E c \in Calls, s \in Station \cup {None} :
    /\ cache' = [cache EXCEPT ![c] = s]
    /\ cache' # cache
    /\ Process(cache')
    /\ UNCHANGED known

\* simpleInteractionWrapper: a hand is raised or a check-state set in the store before the server says so.
Interact(c) ==
    /\ index # None /\ index[c] # None /\ cache[c] # None
    /\ \/ \E state \in BOOLEAN : cache' = [cache EXCEPT ![c].hand = state]
       \/ \E state \in {"in", "out"} : cache' = [cache EXCEPT ![c].checkedState = state]
    /\ Process(cache')
    /\ UNCHANGED known

\* Presence tells the operator's callsign.
ClientKnown ==
    /\ ~known /\ known' = TRUE
    /\ UNCHANGED <<cache, index, groups, flags, returned>>

Next == NewVersion \/ (\E c \in Calls : Interact(c)) \/ ClientKnown

Spec == Init /\ [][Next]_vars

-----------------------------------------------------------------------------
(* Properties. *)

\* The shape of the state.
TypeOK ==
    /\ cache \in Stations /\ (index = None \/ index \in Stations)
    /\ groups \in [Groups -> SUBSET Calls] /\ flags \in [Groups -> BOOLEAN]
    /\ known \in BOOLEAN /\ returned \subseteq Calls

\* What a group says of a station that is there, from its state alone.
Belongs(g, c) ==
    CASE g = "hand-up" -> index[c].hand
      [] g = "checked-out" -> index[c].checkedState = "out"
      [] g = "checked-in-ever" -> index[c].checkedState # "lurk"
      [] g = "attendees" -> TRUE
      [] OTHER -> g \in RoleGroup(index[c].role)

\* The groups, though they are carried on by differences, versions that could not be indexed between them, say of every
\* station what its state says: all but the role of a station that was away (StationIndexer.process).
GroupsTrue ==
    index # None => \A g \in Groups, c \in Present(index) :
        (g \in RoleGroups => c \notin returned) => (c \in groups[g] <=> Belongs(g, c))

\* A group that changes has its flag up, or else no widget would draw it again (ReadonlyStateGroup.newData).
ChangesFlagged == [][groups' # groups => \A g \in Groups : groups'[g] # groups[g] => flags'[g]]_vars
=============================================================================
