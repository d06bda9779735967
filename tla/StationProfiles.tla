----------------------------- MODULE StationProfiles -----------------------------
(***************************************************************************)
(* The name and location of one station.  The server keeps them twice: in  *)
(* the station's profile, where every field has a revision and an origin,  *)
(* and in its interaction, which is what the room shows.  Managers edit    *)
(* them from the edit window of their logger pages, by revision; the       *)
(* station's own visits carry what its account says; QRZ fills in blanks.  *)
(***************************************************************************)
EXTENDS Integers

CONSTANTS
    Managers,       \* managers with a logger page open; each one writes its own text
    Fields,         \* fields looked at
    Own,            \* what the station's account says, now or later
    Qrz,            \* what QRZ says
    Blank,
    None,
    MaxEdits,       \* bound: edits saved
    MaxVisits       \* bound: visits of the station

VARIABLES
    doc,        \* the profile: fields, and the display name of old profiles
    room,       \* the interaction: what it shows, and what the account said at the last visit
    account,    \* the station's account
    lookup,     \* the QRZ lookup of a station that was checked in by a manager
    modal,      \* each manager's edit window
    reqs,       \* the request each of them has under way
    refilled,   \* history: a profile was prepared over the head of one who had prepared it already
    edits, visits

vars == <<doc, room, account, lookup, modal, reqs, refilled, edits, visits>>

Writers == Managers \cup {"station"}
Values == Managers \cup Own \cup {Qrz, Blank}
Field == [value : Values, rev : Nat, origin : {"legacy", "qrz", "manual", "participant"}]

\* What a profile is stored as.
Docs ==
    {d \in [Fields \cup {"old"} -> Field \cup Managers \cup {None}] :
        d["old"] \in Managers \cup {None} /\ \A f \in Fields : d[f] \in Field \cup {None}}

ProfilesAssumption ==
    /\ Fields \subseteq {"name", "location"}
    /\ "station" \notin Managers
    /\ None \notin Values /\ None \notin Field /\ None \notin Docs

Empty(value) == [value |-> value, rev |-> 0, origin |-> "legacy"]

\* fieldState: a field as stored, as an old profile implies it, or as the room shows it.
FieldState(d, f, shown) ==
    IF f = "name" /\ d["old"] # None /\ (d[f] # None => d[f].value = Blank /\ d[f].rev = 0)
    THEN [value |-> d["old"], rev |-> 1, origin |-> "manual"]
    ELSE IF d[f] # None
    THEN [d[f] EXCEPT !.value = IF d[f].origin \in {"qrz", "legacy"} /\ shown # Blank THEN shown ELSE @]
    ELSE Empty(shown)

\* What somebody wrote into a field, None as long as nobody did.
Content(f) == LET s == FieldState(doc, f, Blank) IN IF s.origin = "legacy" THEN None ELSE s

\* A profile that needs no preparation.
Complete(d) == (\A f \in Fields : d[f] # None) /\ d["old"] = None

\* A profile with no or the same content in every field, and the display name of an old one.
NewDoc(f, old) == [x \in Fields \cup {"old"} |-> IF x = "old" THEN old ELSE f]

Init ==
    /\ account \in [Fields -> Own]
    /\ doc \in {NewDoc(Empty(Blank), None), NewDoc(None, None)} \cup {NewDoc(None, m) : m \in Managers}
    /\ room \in {[shows |-> [f \in Fields |-> Blank], told |-> [f \in Fields |-> Blank]],
                 [shows |-> account, told |-> account]}
    /\ lookup \in (IF room.shows = account THEN {"none"} ELSE {"none", "pending"})
    /\ modal = [m \in Managers |-> None]
    /\ reqs = [w \in Writers |-> None]
    /\ refilled = FALSE
    /\ edits = 0 /\ visits = 0

At(k, at) == reqs[k] # None /\ reqs[k].at = at
Put(k, r) == reqs' = [reqs EXCEPT ![k] = r]

-----------------------------------------------------------------------------
(* The edit window of a manager. *)

\* openEditModal: the window shows each field, and keeps its revision.
OpenEdit(m) ==
    /\ modal[m] = None /\ edits < MaxEdits
    /\ modal' = [modal EXCEPT ![m] = [f \in Fields |-> [rev |-> FieldState(doc, f, room.shows[f]).rev, seen |-> Content(f)]]]
    /\ UNCHANGED <<doc, room, account, lookup, reqs, edits, visits, refilled>>

\* saveEditModal: a field is rewritten or cleared.  The window stays open until the answer.
SaveEdit(m) == \E f \in Fields, value \in {m, Blank} :
    /\ modal[m] # None /\ edits < MaxEdits
    /\ reqs[m] = None
    /\ reqs' = [reqs EXCEPT ![m] = [at |-> "sent", field |-> f, value |-> value, expected |-> modal[m][f].rev,
                                   seen |-> modal[m][f].seen, copy |-> None, shown |-> None, left |-> {}, tries |-> 0]]
    /\ edits' = edits + 1
    /\ UNCHANGED <<doc, room, account, lookup, modal, visits, refilled>>

\* The answer closes the window, accepted or not; closeEditModal closes it by hand.
CloseEdit(m) ==
    /\ modal[m] # None
    /\ modal' = [modal EXCEPT ![m] = None]
    /\ reqs[m] # None => reqs[m].at = "answered"
    /\ reqs' = [reqs EXCEPT ![m] = None]
    /\ UNCHANGED <<doc, room, account, lookup, edits, visits, refilled>>

-----------------------------------------------------------------------------
(* The server: an edit. *)

\* updateStationProfile compares revisions, asks QRZ for a field that was cleared.
ReadForEdit(k) ==
    /\ At(k, "sent")
    /\ LET r == reqs[k]
           shown == room.shows
           current == FieldState(doc, r.field, shown[r.field])
       IN  IF r.expected # current.rev
           THEN Put(k, [r EXCEPT !.at = "answered"])
           ELSE \/ r.value # Blank /\ Put(k, [r EXCEPT !.at = "ensure", !.shown = shown])
                \/ /\ r.value = Blank
                   /\ \/ Put(k, [r EXCEPT !.at = "ensure", !.shown = shown, !.value = Qrz])
                      \/ Put(k, [r EXCEPT !.at = "answered"])
    /\ UNCHANGED <<doc, room, account, lookup, modal, edits, visits, refilled>>

Shown(r, f) == IF r.shown = None THEN Blank ELSE r.shown[f]

\* ensureProfile reads the profile; one that is complete is left as it is.
EnsureRead(k) ==
    /\ At(k, "ensure")
    /\ LET r == reqs[k]
       IN  Put(k, IF Complete(doc) THEN [r EXCEPT !.at = "cas", !.copy = doc]
                  ELSE [r EXCEPT !.at = "fill",
                                 !.copy = [f \in Fields \cup {"old"} |->
                                              IF f = "old" THEN None ELSE FieldState(doc, f, Shown(r, f))]])
    /\ UNCHANGED <<doc, room, account, lookup, modal, edits, visits, refilled>>

\* ... and writes every field of one that was not, as it was read.
EnsureWrite(k) ==
    /\ At(k, "fill")
    /\ doc' = reqs[k].copy
    /\ refilled' = (refilled \/ Complete(doc))
    /\ Put(k, [reqs[k] EXCEPT !.at = "cas"])
    /\ UNCHANGED <<room, account, lookup, modal, edits, visits>>

Written(r, origin) == [value |-> r.value, rev |-> r.expected + 1, origin |-> origin]
Swaps(r) == doc[r.field] # None /\ doc[r.field].rev = r.expected

\* Mutation: the write of an edit does not ask for the revision.
SwapForEditBlindly(k) ==
    /\ At(k, "cas") /\ k \in Managers
    /\ LET r == reqs[k]
       IN  /\ doc' = [doc EXCEPT ![r.field] = Written(r, IF r.value = Qrz THEN "qrz" ELSE "manual")]
           /\ Put(k, [r EXCEPT !.at = "show"])
    /\ UNCHANGED <<room, account, lookup, modal, edits, visits, refilled>>

\* compareAndSetField for an edit.
SwapForEdit(k) ==
    /\ At(k, "cas") /\ k \in Managers
    /\ LET r == reqs[k]
       IN  IF Swaps(r)
           THEN /\ doc' = [doc EXCEPT ![r.field] = Written(r, IF r.value = Qrz THEN "qrz" ELSE "manual")]
                /\ Put(k, [r EXCEPT !.at = "show"])
           ELSE UNCHANGED doc /\ Put(k, [r EXCEPT !.at = "answered"])
    /\ UNCHANGED <<room, account, lookup, modal, edits, visits, refilled>>

\* An accepted edit is shown.
ShowEdit(k) ==
    /\ At(k, "show")
    /\ room' = [room EXCEPT !.shows[reqs[k].field] = reqs[k].value]
    /\ Put(k, [reqs[k] EXCEPT !.at = "answered"])
    /\ UNCHANGED <<doc, account, lookup, modal, edits, visits, refilled>>

-----------------------------------------------------------------------------
(* The server: the station's visits, and QRZ. *)

\* updateStationInteraction reads the interaction; the account is carried on when it has changed since.
Visit ==
    /\ visits < MaxVisits /\ visits' = visits + 1
    /\ reqs["station"] = None
    /\ \E now \in [Fields -> Own] :
          /\ account' = now
          /\ Put("station", [at |-> IF now = room.told THEN "write" ELSE "find", field |-> None, value |-> None,
                             expected |-> 0, seen |-> None, copy |-> None, shown |-> room.shows,
                             left |-> Fields, tries |-> 0])
    /\ UNCHANGED <<doc, room, lookup, modal, edits, refilled>>

\* syncParticipantProfile
Find(k) ==
    /\ At(k, "find")
    /\ Put(k, [reqs[k] EXCEPT !.at = IF Complete(doc) THEN "cas" ELSE "ensure", !.copy = doc, !.shown = None])
    /\ UNCHANGED <<doc, room, account, lookup, modal, edits, visits, refilled>>

\* What a manager wrote is protected.
Protected(r, current) == current.origin = "manual"

\* One attempt at one field: nothing to do, accepted, or lost to another writer and tried again.
SwapForVisit(k) ==
    /\ At(k, "cas") /\ k \notin Managers
    /\ \E f \in reqs[k].left :
        LET r == reqs[k]
            current == FieldState(r.copy, f, Blank)
            same == current.value = account[f] /\ current.origin = "participant"
            wins == doc[f] # None /\ doc[f].rev = current.rev
            next == [value |-> account[f], rev |-> current.rev + 1, origin |-> "participant"]
            over == [r EXCEPT !.left = @ \ {f}, !.tries = 0, !.at = IF r.left = {f} THEN "write" ELSE "cas"]
        IN  IF Protected(r, current) \/ same \/ r.tries = 3
            THEN UNCHANGED doc /\ Put(k, over)
            ELSE IF wins
            THEN doc' = [doc EXCEPT ![f] = next] /\ Put(k, [over EXCEPT !.copy[f] = next])
            ELSE UNCHANGED doc /\ Put(k, [r EXCEPT !.copy[f] = FieldState(doc, f, Blank), !.tries = @ + 1])
    /\ UNCHANGED <<room, account, lookup, modal, edits, visits, refilled>>

\* The visit is written: what was synced, or else what the interaction showed when it was read.
VisitWritten(k) ==
    /\ At(k, "write")
    /\ LET r == reqs[k]
       IN  room' = [shows |-> IF r.copy = None THEN r.shown ELSE [f \in Fields |-> FieldState(r.copy, f, Blank).value],
                    told |-> account]
    /\ Put(k, None)
    /\ UNCHANGED <<doc, account, lookup, modal, edits, visits, refilled>>

\* applyDeferredQrzEnrichment: a blank is filled in, unless somebody else did.
Enrich ==
    /\ lookup = "pending" /\ lookup' = "done"
    /\ room' = [room EXCEPT !.shows = [f \in Fields |-> IF @[f] = Blank THEN Qrz ELSE @[f]]]
    /\ UNCHANGED <<doc, account, modal, reqs, edits, visits, refilled>>

Serve(k) ==
    \/ ReadForEdit(k) \/ EnsureRead(k) \/ EnsureWrite(k) \/ SwapForEdit(k) \/ ShowEdit(k)
    \/ Find(k) \/ SwapForVisit(k) \/ VisitWritten(k)

Next ==
    \/ \E m \in Managers : OpenEdit(m) \/ SaveEdit(m) \/ CloseEdit(m)
    \/ Visit \/ Enrich
    \/ \E k \in Writers : Serve(k)

Spec == Init /\ [][Next]_vars

-----------------------------------------------------------------------------
(* Properties. *)

\* The requests there are of managers and of the station's visits.
Shows == [Fields -> Values]
EditRequest ==
    [at : {"sent", "ensure", "fill", "cas", "show", "answered"}, field : Fields, value : Values, expected : Nat,
     seen : Field \cup {None}, copy : Docs \cup {None}, shown : Shows \cup {None}, left : {{}}, tries : {0}]
VisitRequest ==
    [at : {"find", "ensure", "fill", "cas", "write"}, field : {None}, value : {None}, expected : {0},
     seen : {None}, copy : Docs \cup {None}, shown : Shows \cup {None}, left : SUBSET Fields, tries : 0..3]

\* The shape of the state.
TypeOK ==
    /\ doc \in Docs
    /\ room \in [shows : Shows, told : [Fields -> Own \cup {Blank}]] /\ account \in [Fields -> Own]
    /\ lookup \in {"none", "pending", "done"}
    /\ modal \in [Managers -> [Fields -> [rev : Nat, seen : Field \cup {None}]] \cup {None}]
    /\ DOMAIN reqs = Writers /\ reqs["station"] \in VisitRequest \cup {None}
    /\ \A m \in Managers : reqs[m] \in EditRequest \cup {None}
    /\ refilled \in BOOLEAN /\ edits \in Nat /\ visits \in Nat

\* An edit is accepted only on top of what its manager saw when the window opened: whoever wrote the field since, the
\* edit conflicts (compareAndSetField; saveEditModal reports what was kept).  Two who prepare the profile at once are
\* left out: the later of them takes the revisions back (ensureProfile).
StaleEditsConflict ==
    [][\A m \in Managers :
          At(m, "cas") /\ reqs'[m].at = "show" /\ ~refilled => Content(reqs[m].field) = reqs[m].seen]_vars

\* What a manager wrote is replaced by a manager only, or by QRZ when a manager cleared it: never by what the
\* station's account says (syncParticipantProfile).
ManualStands ==
    [][\A f \in Fields :
          doc[f] # None /\ doc[f].origin = "manual" /\ doc'[f] # doc[f] /\ ~refilled' => doc'[f].origin \in {"manual", "qrz"}]_vars

=============================================================================
