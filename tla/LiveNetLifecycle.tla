-------------------------- MODULE LiveNetLifecycle --------------------------
(***************************************************************************)
(* One net: its NetProfile.liveNet link, the LiveNet documents ("rooms")   *)
(* created for it, its ScheduledOccurrences, the NCO's StationInteraction  *)
(* in each room, and the code that keeps the four in step.                 *)
(*                                                                         *)
(* The transactions of lifecycle.js are one action each.  closeNet,        *)
(* liveNetCreatePost and reconcileLiveNetPersistence are not transactions: *)
(* each database call of theirs is an action, and a server crash between   *)
(* two of them loses the rest.  LiveNet.url is unique and is derived from  *)
(* the profile id, so a net never has two stored rooms.                    *)
(***************************************************************************)
EXTENDS Naturals

CONSTANTS
    Occurrences,    \* ScheduledOccurrence documents of the net
    Rooms,          \* LiveNet ids; each is created at most once
    Closers,        \* concurrent calls of closeNet
    Creators,       \* concurrent calls of liveNetCreatePost
    None,
    Prep,           \* PREPARATION_WINDOW_MS, in clock ticks
    Grace,          \* GRACE_PERIOD_MS
    Stale,          \* CLAIM_STALE_MS
    StartTimes,     \* the times an owner schedules
    MaxTime,        \* bound of the clock
    MaxCrashes      \* bound on server crashes

ASSUME NoneAssumption == None \notin Rooms /\ None \notin Occurrences
ASSUME TimeAssumption ==
    /\ Prep \in Nat /\ Grace \in Nat /\ Stale \in Nat
    /\ MaxTime \in Nat /\ MaxCrashes \in Nat /\ StartTimes \subseteq Nat

VARIABLES
    now,
    crashes,
    profile,        \* NetProfile.liveNet
    rooms,          \* LiveNet documents
    occurrences,    \* ScheduledOccurrence documents
    crew,           \* the netcontrol StationInteraction of each room
    retained,       \* rooms with a ChatRetention job
    creators,       \* liveNetCreatePost calls in flight
    closers,        \* closeNet calls in flight
    worker          \* the scheduling worker: at most one pass at a time

vars == <<now, crashes, profile, rooms, occurrences, crew, retained,
          creators, closers, worker>>

Engaged == {"preparing", "live"}

Occurrence ==
    [status : {"scheduled", "preparing", "live", "completed", "cancelled", "missed"},
     liveNet : Rooms \cup {None},
     startAt : Nat]

\* state: no document yet, stored, or deleted.  opening is FALSE in a room
\* prepared without a roomOpening choice, which goes on the air only under
\* the eye of its NCO.  updatedAt is kept while the room is closing, the only
\* time its value is compared with the clock; a deleted room keeps no more
\* than closeNet's copy of it is read for.
Room ==
    [state : {"unused", "stored", "deleted"},
     occurrence : Occurrences \cup {None},
     opening : BOOLEAN,
     started : BOOLEAN,
     closing : BOOLEAN,
     updatedAt : Nat]

UnusedRoom == [state |-> "unused", occurrence |-> None, opening |-> FALSE,
               started |-> FALSE, closing |-> FALSE, updatedAt |-> 0]

\* What the integrity sweep remembers between its queries.  unchanged tells
\* whether its copy of the room still has the stored updatedAt.
Worker ==
    [pc : {"idle", "expire", "profile", "occurrence", "judge", "delete", "discard",
           "unlink", "remaining", "orphans", "dangling", "repair"},
     at : Nat,
     target : Occurrences \cup {None},
     room : Rooms \cup {None},
     copy : Room,
     unchanged : BOOLEAN,
     link : Rooms \cup {None},
     entry : Occurrence \cup {None},
     remaining : SUBSET Rooms,
     dangling : SUBSET (Occurrences \X Rooms \X Engaged)]

\* A pass over nothing: what the worker remembers when none is running.
IdleWorker ==
    [pc |-> "idle", at |-> 0, target |-> None, room |-> None, copy |-> UnusedRoom,
     unchanged |-> FALSE, link |-> None, entry |-> None, remaining |-> {},
     dangling |-> {}]

\* entry: the interaction saved by the call's first write still exists.
CreateCall ==
    [pc : {"idle", "checked", "saved", "bound"}, room : Rooms \cup {None}, entry : BOOLEAN]

CloseCall ==
    [pc : {"idle", "claimed", "retained", "completed", "cleared", "removed"},
     room : Rooms \cup {None}]

IdleCreate == [pc |-> "idle", room |-> None, entry |-> FALSE]
IdleCall == [pc |-> "idle", room |-> None]

TypeOK ==
    /\ now \in Nat
    /\ crashes \in Nat
    /\ profile \in Rooms \cup {None}
    /\ rooms \in [Rooms -> Room]
    /\ occurrences \in [Occurrences -> Occurrence]
    /\ crew \in [Rooms -> {"none", "away", "recent"}]
    /\ retained \in SUBSET Rooms
    /\ creators \in [Creators -> CreateCall]
    /\ closers \in [Closers -> CloseCall]
    /\ worker \in Worker

Init ==
    /\ now = 0
    /\ crashes = 0
    /\ profile = None
    /\ rooms = [r \in Rooms |-> UnusedRoom]
    /\ occurrences \in [Occurrences -> {[status |-> "scheduled", liveNet |-> None,
                                         startAt |-> t] : t \in StartTimes}]
    /\ crew = [r \in Rooms |-> "none"]
    /\ retained = {}
    /\ creators = [c \in Creators |-> IdleCreate]
    /\ closers = [c \in Closers |-> IdleCall]
    /\ worker = IdleWorker

-----------------------------------------------------------------------------
(* Shared pieces *)

Stored(r) == rooms[r].state = "stored"
StoredRooms == {r \in Rooms : Stored(r)}

\* Any write of the room's document moves its updatedAt, which the sweep's
\* findOneAndDelete compares with its own copy.
Overtake(r) == worker' = [worker EXCEPT !.unchanged = @ /\ worker.room # r]

\* The last instant at which the bounded clock still lets a close claim go stale.
WithinHorizon == now + Stale <= MaxTime

Opened(o) == occurrences[o].startAt <= now + Prep
Due(o) == occurrences[o].startAt <= now
GraceOver(o) == occurrences[o].startAt + Grace <= now

\* Mutation of NewRoom: the room does not record that it is on the air already.
NewRoomNotStarted(o, opening, started) ==
    [state |-> "stored", occurrence |-> o, opening |-> opening,
     started |-> FALSE, closing |-> FALSE, updatedAt |-> 0]

NewRoom(o, opening, started) ==
    [state |-> "stored", occurrence |-> o, opening |-> opening,
     started |-> started, closing |-> FALSE, updatedAt |-> 0]

Removed(room) ==
    [UnusedRoom EXCEPT !.state = "deleted", !.occurrence = room.occurrence]

-----------------------------------------------------------------------------
(* Clock and crashes *)

Tick ==
    /\ now < MaxTime
    /\ now' = now + 1
    /\ UNCHANGED <<crashes, profile, rooms, occurrences, crew, retained,
                   creators, closers, worker>>

\* The server process dies: its requests and its worker pass are lost, what
\* they wrote stays.
Crash ==
    /\ crashes < MaxCrashes
    /\ crashes' = crashes + 1
    /\ creators' = [c \in Creators |-> IdleCreate]
    /\ closers' = [c \in Closers |-> IdleCall]
    /\ worker' = IdleWorker
    /\ UNCHANGED <<now, profile, rooms, occurrences, crew, retained>>

-----------------------------------------------------------------------------
(* The owner's occurrence edits, one findOneAndUpdate each.  They also refuse *)
(* an occurrence whose reminder is being delivered; the reminders are not      *)
(* part of this module, which lets the edit happen then too.                   *)

UpdateOccurrence(o, t) ==
    /\ occurrences[o].status = "scheduled"
    /\ occurrences' = [occurrences EXCEPT ![o].startAt = t]
    /\ UNCHANGED <<now, crashes, profile, rooms, crew, retained, creators, closers, worker>>

\* Mutation of CancelOccurrence: a status outside the schema's enum.
CancelOccurrenceMisspelt(o) ==
    /\ occurrences[o].status = "scheduled"
    /\ occurrences' = [occurrences EXCEPT ![o].status = "canceled"]
    /\ UNCHANGED <<now, crashes, profile, rooms, crew, retained, creators, closers, worker>>

CancelOccurrence(o) ==
    /\ occurrences[o].status = "scheduled"
    /\ occurrences' = [occurrences EXCEPT ![o].status = "cancelled"]
    /\ UNCHANGED <<now, crashes, profile, rooms, crew, retained, creators, closers, worker>>

-----------------------------------------------------------------------------
(* lifecycle.js: transactions *)

\* A repeated call for an occurrence that already has its room changes nothing.
PrepareOccurrence(o, r, opening) ==
    LET shouldStart == Due(o) IN
    /\ opening \/ Opened(o)
    /\ ~GraceOver(o)
    /\ occurrences[o].status = "scheduled"
    /\ profile = None /\ StoredRooms = {}
    /\ rooms[r].state = "unused"
    /\ rooms' = [rooms EXCEPT ![r] = NewRoom(o, opening, shouldStart)]
    /\ crew' = [crew EXCEPT ![r] = "recent"]
    /\ profile' = r
    /\ occurrences' = [occurrences EXCEPT
                          ![o].status = IF shouldStart THEN "live" ELSE "preparing",
                          ![o].liveNet = r]
    /\ Overtake(r)
    /\ UNCHANGED <<now, crashes, retained, creators, closers>>

\* A room opened by choice goes on the air at its start time; a legacy one
\* needs its NCO present and ends with the grace period.
CanTransition(o) ==
    LET r == occurrences[o].liveNet IN
    /\ occurrences[o].status = "preparing" /\ Due(o)
    /\ r # None /\ Stored(r)
    /\ rooms[r].occurrence = o /\ ~rooms[r].started /\ ~rooms[r].closing
    /\ rooms[r].opening \/ (~GraceOver(o) /\ crew[r] = "recent")

\* By the worker's lifecycle pass or by the NCO's presence report.
TransitionPreparedOccurrence(o) ==
    LET r == occurrences[o].liveNet IN
    /\ CanTransition(o)
    /\ occurrences' = [occurrences EXCEPT ![o].status = "live"]
    /\ rooms' = [rooms EXCEPT ![r].started = TRUE]
    /\ Overtake(r)
    /\ UNCHANGED <<now, crashes, profile, crew, retained, creators, closers>>

\* The integrity check of cleanPreparation.
Cleanable(o) ==
    LET r == occurrences[o].liveNet IN
    r # None => Stored(r) /\ rooms[r].occurrence = o /\ ~rooms[r].started

\* cleanPreparation, then outside the transaction enqueueChatRetention, whose
\* failure is only logged.
CleanPreparation(o, finalStatus) ==
    LET r == occurrences[o].liveNet IN
    /\ occurrences' = [occurrences EXCEPT ![o].status = finalStatus, ![o].liveNet = None]
    /\ IF r = None
       THEN UNCHANGED <<profile, rooms, crew, retained>>
       ELSE /\ rooms' = [rooms EXCEPT ![r] = Removed(@)]
            /\ crew' = [crew EXCEPT ![r] = "none"]
            /\ profile' = IF profile = r THEN None ELSE profile
            /\ retained' \in {retained, retained \cup {r}}

CancelPreparation(o) ==
    /\ occurrences[o].status = "preparing" /\ Cleanable(o)
    /\ CleanPreparation(o, "cancelled")
    /\ Overtake(occurrences[o].liveNet)
    /\ UNCHANGED <<now, crashes, creators, closers>>

\* processOccurrenceLifecycle: an unprepared occurrence past its grace period.
MissUnprepared(o) ==
    /\ worker.pc = "idle"
    /\ occurrences[o].status = "scheduled" /\ GraceOver(o) /\ Cleanable(o)
    /\ CleanPreparation(o, "missed")
    /\ UNCHANGED <<now, crashes, creators, closers, worker>>

\* The same pass on a preparing one: the transition is tried first, and its
\* refusal is what the pass acts on in its next transaction.
ExpireDecide(o) ==
    /\ worker.pc = "idle"
    /\ occurrences[o].status = "preparing" /\ GraceOver(o)
    /\ ~CanTransition(o)
    /\ worker' = [IdleWorker EXCEPT !.pc = "expire", !.target = o]
    /\ UNCHANGED <<now, crashes, profile, rooms, occurrences, crew, retained,
                   creators, closers>>

\* Mutation of ExpirePreparation: it finalizes unprepared occurrences only.
ExpireScheduledOnly ==
    /\ worker.pc = "expire"
    /\ LET o == worker.target IN
       IF occurrences[o].status = "scheduled" /\ GraceOver(o) /\ Cleanable(o)
       THEN CleanPreparation(o, "missed")
       ELSE UNCHANGED <<profile, rooms, occurrences, crew, retained>>
    /\ worker' = IdleWorker
    /\ UNCHANGED <<now, crashes, creators, closers>>

ExpirePreparation ==
    /\ worker.pc = "expire"
    /\ LET o == worker.target IN
       IF occurrences[o].status \in {"scheduled", "preparing"} /\ GraceOver(o) /\ Cleanable(o)
       THEN CleanPreparation(o, "missed")
       ELSE UNCHANGED <<profile, rooms, occurrences, crew, retained>>
    /\ worker' = IdleWorker
    /\ UNCHANGED <<now, crashes, creators, closers>>

-----------------------------------------------------------------------------
(* Requests of the people in a room, found through the profile's link *)

\* The NCO's heartbeat, refused while the room is closing.
NcoSeen(r) ==
    /\ profile = r /\ Stored(r) /\ ~rooms[r].closing
    /\ crew[r] = "away"
    /\ crew' = [crew EXCEPT ![r] = "recent"]
    /\ UNCHANGED <<now, crashes, profile, rooms, occurrences, retained,
                   creators, closers, worker>>

NcoAway(r) ==
    /\ Stored(r) /\ crew[r] = "recent"
    /\ crew' = [crew EXCEPT ![r] = "away"]
    /\ UNCHANGED <<now, crashes, profile, rooms, occurrences, retained,
                   creators, closers, worker>>

\* The countdown of an unscheduled net has run out when its NCO is next seen.
StartUnscheduled(r) ==
    /\ profile = r /\ Stored(r) /\ ~rooms[r].closing /\ ~rooms[r].started
    /\ rooms[r].occurrence = None /\ crew[r] = "recent"
    /\ rooms' = [rooms EXCEPT ![r].started = TRUE]
    /\ Overtake(r)
    /\ UNCHANGED <<now, crashes, profile, occurrences, crew, retained, creators, closers>>

\* Any save of the room's other fields (frequency, logger state, net details);
\* a closing room refuses it.  Its read of the room and its save are one step:
\* nothing of the room that this module keeps is written back.
EditRoom(r) ==
    /\ profile = r /\ Stored(r) /\ ~rooms[r].closing /\ crew[r] # "none"
    /\ Overtake(r)
    /\ UNCHANGED <<now, crashes, profile, rooms, occurrences, crew, retained,
                   creators, closers>>

-----------------------------------------------------------------------------
(* liveNetCreatePost: four writes, no transaction *)

\* The profile is free; the NCO's interaction is saved without its liveNet.
CreateCheck(c) ==
    /\ creators[c].pc = "idle"
    /\ profile = None
    /\ creators' = [creators EXCEPT ![c].pc = "checked", ![c].entry = TRUE]
    /\ UNCHANGED <<now, crashes, profile, rooms, occurrences, crew, retained,
                   closers, worker>>

\* The unique url refuses a second room.
CreateRoom(c, r) ==
    /\ creators[c].pc = "checked"
    /\ rooms[r].state = "unused"
    /\ IF StoredRooms = {}
       THEN /\ rooms' = [rooms EXCEPT ![r] = NewRoom(None, FALSE, FALSE)]
            /\ creators' = [creators EXCEPT ![c].pc = "saved", ![c].room = r]
            /\ Overtake(r)
       ELSE /\ creators' = [creators EXCEPT ![c] = IdleCreate]
            /\ UNCHANGED <<rooms, worker>>
    /\ UNCHANGED <<now, crashes, profile, occurrences, crew, retained, closers>>

\* The save fails if the interaction is gone; the room then stays unlinked.
CreateEntry(c) ==
    /\ creators[c].pc = "saved"
    /\ IF creators[c].entry
       THEN /\ crew' = [crew EXCEPT ![creators[c].room] = "away"]
            /\ creators' = [creators EXCEPT ![c].pc = "bound"]
       ELSE /\ creators' = [creators EXCEPT ![c] = IdleCreate]
            /\ UNCHANGED crew
    /\ UNCHANGED <<now, crashes, profile, rooms, occurrences, retained, closers, worker>>

CreateLink(c) ==
    /\ creators[c].pc = "bound"
    /\ profile' = creators[c].room
    /\ creators' = [creators EXCEPT ![c] = IdleCreate]
    /\ UNCHANGED <<now, crashes, rooms, occurrences, crew, retained, closers, worker>>

-----------------------------------------------------------------------------
(* closeNet: a claim, then one write at a time *)

CloseStep(c, from, to) ==
    /\ closers[c].pc = from
    /\ closers' = [closers EXCEPT ![c].pc = to]

\* The net control's commands reach the room through the profile's link; the
\* operators' tool takes it from the list of LiveNets, so no link is asked for.

\* Mutation of CloseClaim: the claim does not ask whether the room is claimed.
CloseClaimBlind(c, r) ==
    /\ WithinHorizon
    /\ closers[c].pc = "idle"
    /\ Stored(r)
    /\ rooms' = [rooms EXCEPT ![r].closing = TRUE, ![r].updatedAt = now]
    /\ closers' = [closers EXCEPT ![c] = [pc |-> "claimed", room |-> r]]
    /\ Overtake(r)
    /\ UNCHANGED <<now, crashes, profile, occurrences, crew, retained, creators>>

CloseClaim(c, r) ==
    /\ WithinHorizon
    /\ closers[c].pc = "idle"
    /\ Stored(r) /\ ~rooms[r].closing
    /\ rooms' = [rooms EXCEPT ![r].closing = TRUE, ![r].updatedAt = now]
    /\ closers' = [closers EXCEPT ![c] = [pc |-> "claimed", room |-> r]]
    /\ Overtake(r)
    /\ UNCHANGED <<now, crashes, profile, occurrences, crew, retained, creators>>

\* Mutation of CloseRetain: a job that cannot be queued is only logged.
CloseRetainBestEffort(c) ==
    /\ CloseStep(c, "claimed", "retained")
    /\ retained' \in {retained, retained \cup {closers[c].room}}
    /\ UNCHANGED <<now, crashes, profile, rooms, occurrences, crew, creators, worker>>

CloseRetain(c) ==
    /\ CloseStep(c, "claimed", "retained")
    /\ retained' = retained \cup {closers[c].room}
    /\ UNCHANGED <<now, crashes, profile, rooms, occurrences, crew, creators, worker>>

\* The retry state cannot be preserved: the room is reopened.
CloseReopen(c) ==
    LET r == closers[c].room IN
    /\ closers[c].pc = "claimed"
    /\ closers' = [closers EXCEPT ![c] = IdleCall]
    /\ IF Stored(r)
       THEN /\ rooms' = [rooms EXCEPT ![r].closing = FALSE, ![r].updatedAt = 0]
            /\ Overtake(r)
       ELSE UNCHANGED <<rooms, worker>>
    /\ UNCHANGED <<now, crashes, profile, occurrences, crew, retained, creators>>

\* Mutation of CloseComplete: the completed occurrence keeps its room.
CloseCompleteLinked(c) ==
    LET r == closers[c].room
        o == rooms[r].occurrence
    IN
    /\ CloseStep(c, "retained", "completed")
    /\ IF o # None /\ occurrences[o].liveNet = r /\ occurrences[o].status \in Engaged
       THEN occurrences' = [occurrences EXCEPT ![o].status = "completed"]
       ELSE UNCHANGED occurrences
    /\ UNCHANGED <<now, crashes, profile, rooms, crew, retained, creators, worker>>

CloseComplete(c) ==
    LET r == closers[c].room
        o == rooms[r].occurrence
    IN
    /\ CloseStep(c, "retained", "completed")
    /\ IF o # None /\ occurrences[o].liveNet = r /\ occurrences[o].status \in Engaged
       THEN occurrences' = [occurrences EXCEPT ![o].status = "completed", ![o].liveNet = None]
       ELSE UNCHANGED occurrences
    /\ UNCHANGED <<now, crashes, profile, rooms, crew, retained, creators, worker>>

\* Interactions are deleted by net profile, not by room: those of a call of
\* liveNetCreatePost in progress too.
CloseClear(c) ==
    /\ CloseStep(c, "completed", "cleared")
    /\ crew' = [r \in Rooms |-> "none"]
    /\ creators' = [k \in Creators |-> [creators[k] EXCEPT !.entry = FALSE]]
    /\ UNCHANGED <<now, crashes, profile, rooms, occurrences, retained, worker>>

CloseRemove(c) ==
    LET r == closers[c].room IN
    /\ CloseStep(c, "cleared", "removed")
    /\ rooms' = [rooms EXCEPT ![r] = Removed(@)]
    /\ Overtake(r)
    /\ UNCHANGED <<now, crashes, profile, occurrences, crew, retained, creators>>

CloseUnlink(c) ==
    /\ closers[c].pc = "removed"
    /\ profile' = IF profile = closers[c].room THEN None ELSE profile
    /\ closers' = [closers EXCEPT ![c] = IdleCall]
    /\ UNCHANGED <<now, crashes, rooms, occurrences, crew, retained, creators, worker>>

\* A write of the cleanup fails: closeNet returns false, the room stays closing.
CloseFail(c) ==
    /\ closers[c].pc \in {"retained", "completed", "cleared", "removed"}
    /\ closers' = [closers EXCEPT ![c] = IdleCall]
    /\ UNCHANGED <<now, crashes, profile, rooms, occurrences, crew, retained,
                   creators, worker>>

-----------------------------------------------------------------------------
(* reconcileLiveNetPersistence: three queries, then repairs from the copies *)

SweepStep(from, to) == worker.pc = from /\ worker' = [worker EXCEPT !.pc = to]

SweepReadRooms ==
    /\ worker.pc = "idle"
    /\ worker' = IF StoredRooms = {}
                 THEN [IdleWorker EXCEPT !.pc = "profile", !.at = now]
                 ELSE LET r == CHOOSE r \in StoredRooms : TRUE IN
                      [IdleWorker EXCEPT !.pc = "profile", !.at = now, !.room = r,
                                         !.copy = rooms[r], !.unchanged = TRUE]
    /\ UNCHANGED <<now, crashes, profile, rooms, occurrences, crew, retained,
                   creators, closers>>

SweepReadProfile ==
    /\ worker.pc = "profile"
    /\ worker' = [worker EXCEPT !.pc = "occurrence", !.link = profile]
    /\ UNCHANGED <<now, crashes, profile, rooms, occurrences, crew, retained,
                   creators, closers>>

SweepReadOccurrence ==
    LET o == worker.copy.occurrence IN
    /\ worker.pc = "occurrence"
    /\ worker' = [worker EXCEPT !.pc = "judge", !.target = o,
                                !.entry = IF o = None THEN None ELSE occurrences[o]]
    /\ UNCHANGED <<now, crashes, profile, rooms, occurrences, crew, retained,
                   creators, closers>>

\* occurrenceCompatible
Compatible(r, room, entry) ==
    \/ room.occurrence = None
    \/ /\ entry.liveNet = r
       /\ entry.status = IF room.started THEN "live" ELSE "preparing"

\* Mutation of RecentlyClosing: an abandoned close is never given up.
RecentlyClosingForever(room, at) == room.closing

RecentlyClosing(room, at) == room.closing /\ room.updatedAt + Stale > at

\* The copy of the room is a session worth keeping, if the profile links to it.
Sound ==
    \/ RecentlyClosing(worker.copy, worker.at)
    \/ ~worker.copy.closing /\ Compatible(worker.room, worker.copy, worker.entry)

\* The profile's link is cleared unless it names the copied room and that is
\* sound; the room is doomed unless it is sound and linked.
SweepJudge ==
    LET valid == worker.room # None /\ worker.link = worker.room /\ Sound IN
    /\ worker.pc = "judge"
    /\ profile' = IF ~valid /\ profile = worker.link THEN None ELSE profile
    /\ worker' = IF worker.room = None \/ valid
                 THEN [IdleWorker EXCEPT !.pc = "remaining", !.at = worker.at]
                 ELSE [worker EXCEPT !.pc = "delete", !.copy = UnusedRoom]
    /\ UNCHANGED <<now, crashes, rooms, occurrences, crew, retained, creators, closers>>

\* findOneAndDelete by _id and updatedAt.
SweepDelete ==
    /\ worker.pc = "delete"
    /\ IF worker.unchanged
       THEN /\ rooms' = [rooms EXCEPT ![worker.room] = Removed(@)]
            /\ worker' = [worker EXCEPT !.pc = "discard", !.unchanged = FALSE]
       ELSE /\ worker' = [IdleWorker EXCEPT !.pc = "remaining", !.at = worker.at]
            /\ UNCHANGED rooms
    /\ UNCHANGED <<now, crashes, profile, occurrences, crew, retained, creators, closers>>

\* The link once more, the chat retention job (a failure is only logged), and
\* the room's interactions.  Nobody reads any of them for a room that is gone.
SweepDiscard ==
    LET r == worker.room IN
    /\ SweepStep("discard", "unlink")
    /\ profile' = IF worker.link = r /\ profile = r THEN None ELSE profile
    /\ retained' \in {retained, retained \cup {r}}
    /\ crew' = [crew EXCEPT ![r] = "none"]
    /\ UNCHANGED <<now, crashes, rooms, occurrences, creators, closers>>

\* Mutation of Release: the update is not conditional on the status read.
ReleaseByRoom(o, r, status) ==
    occurrences' =
        IF occurrences[o].liveNet = r
        THEN [occurrences EXCEPT
                 ![o].liveNet = None,
                 ![o].status = CASE status = "live" -> "completed"
                                 [] status = "preparing" ->
                                      IF occurrences[o].startAt + Grace <= worker.at
                                      THEN "missed" ELSE "scheduled"
                                 [] OTHER -> status]
        ELSE occurrences

\* reconcileOccurrenceAfterLiveNetRemoval: the update is made only if the
\* occurrence still has the room and the status that were read.
Release(o, r, status) ==
    occurrences' =
        IF occurrences[o].liveNet = r /\ occurrences[o].status = status
        THEN [occurrences EXCEPT
                 ![o].liveNet = None,
                 ![o].status = CASE status = "live" -> "completed"
                                 [] status = "preparing" ->
                                      IF occurrences[o].startAt + Grace <= worker.at
                                      THEN "missed" ELSE "scheduled"
                                 [] OTHER -> status]
        ELSE occurrences

SweepUnlink ==
    /\ worker.pc = "unlink"
    /\ IF worker.target # None /\ worker.entry.liveNet = worker.room
       THEN Release(worker.target, worker.room, worker.entry.status)
       ELSE UNCHANGED occurrences
    /\ worker' = [IdleWorker EXCEPT !.pc = "remaining", !.at = worker.at]
    /\ UNCHANGED <<now, crashes, profile, rooms, crew, retained, creators, closers>>

SweepReadRemaining ==
    /\ worker.pc = "remaining"
    /\ worker' = [worker EXCEPT !.pc = "orphans", !.remaining = StoredRooms]
    /\ UNCHANGED <<now, crashes, profile, rooms, occurrences, crew, retained,
                   creators, closers>>

SweepOrphans ==
    /\ SweepStep("orphans", "dangling")
    /\ crew' = [r \in Rooms |-> IF r \in worker.remaining THEN crew[r] ELSE "none"]
    /\ UNCHANGED <<now, crashes, profile, rooms, occurrences, retained, creators, closers>>

Dangling(o) ==
    /\ occurrences[o].status \in Engaged
    /\ occurrences[o].liveNet \notin worker.remaining \cup {None}

SweepReadDangling ==
    /\ worker.pc = "dangling"
    /\ worker' = [worker EXCEPT
                     !.pc = "repair",
                     !.remaining = {},
                     !.dangling = {<<o, occurrences[o].liveNet, occurrences[o].status>> :
                                     o \in {k \in Occurrences : Dangling(k)}}]
    /\ UNCHANGED <<now, crashes, profile, rooms, occurrences, crew, retained,
                   creators, closers>>

SweepRepair ==
    /\ worker.pc = "repair"
    /\ IF worker.dangling = {}
       THEN /\ worker' = IdleWorker
            /\ UNCHANGED occurrences
       ELSE \E d \in worker.dangling :
              /\ Release(d[1], d[2], d[3])
              /\ worker' = [worker EXCEPT !.dangling = @ \ {d}]
    /\ UNCHANGED <<now, crashes, profile, rooms, crew, retained, creators, closers>>

-----------------------------------------------------------------------------
Owner ==
    \E o \in Occurrences :
        \/ \E t \in StartTimes : UpdateOccurrence(o, t)
        \/ CancelOccurrence(o)
        \/ CancelPreparation(o)
        \/ \E r \in Rooms, opening \in BOOLEAN : PrepareOccurrence(o, r, opening)

Lifecycle ==
    \/ \E o \in Occurrences : TransitionPreparedOccurrence(o) \/ MissUnprepared(o)
    \/ \E o \in Occurrences : ExpireDecide(o)
    \/ ExpirePreparation

Presence ==
    \E r \in Rooms : NcoSeen(r) \/ NcoAway(r) \/ StartUnscheduled(r) \/ EditRoom(r)

Create ==
    \E c \in Creators :
        \/ CreateCheck(c)
        \/ \E r \in Rooms : CreateRoom(c, r)
        \/ CreateEntry(c)
        \/ CreateLink(c)

Close ==
    \E c \in Closers :
        \/ \E r \in Rooms : CloseClaim(c, r)
        \/ CloseRetain(c) \/ CloseReopen(c) \/ CloseComplete(c) \/ CloseClear(c)
        \/ CloseRemove(c) \/ CloseUnlink(c) \/ CloseFail(c)

SweepContinue ==
    \/ SweepReadProfile \/ SweepReadOccurrence \/ SweepJudge \/ SweepDelete
    \/ SweepDiscard \/ SweepUnlink \/ SweepReadRemaining \/ SweepOrphans
    \/ SweepReadDangling \/ SweepRepair

Sweep == SweepReadRooms \/ SweepContinue

Next == Tick \/ Crash \/ Owner \/ Lifecycle \/ Presence \/ Create \/ Close \/ Sweep

Spec == Init /\ [][Next]_vars

(* The worker's timer starts a pass every minute for as long as the process
   runs, and every pass goes over the due occurrences and then sweeps: what a
   pass finds to do again and again it does.  Nobody else is bound to act: a
   request may be lost at any of its steps, an owner may never come. *)
Fairness ==
    /\ WF_vars(Tick)
    /\ \A o \in Occurrences :
          /\ SF_vars(MissUnprepared(o))
          /\ SF_vars(TransitionPreparedOccurrence(o) \/ ExpireDecide(o))
    /\ WF_vars(ExpirePreparation)
    /\ SF_vars(SweepReadRooms)
    /\ WF_vars(SweepContinue)

FairSpec == Spec /\ Fairness

-----------------------------------------------------------------------------
(* Safety *)

(* An occurrence has a room exactly while it is preparing or live, whoever
   moved it: owner, worker, closeNet or the integrity sweep. *)
LinkIffEngaged ==
    \A o \in Occurrences :
        occurrences[o].liveNet # None <=> occurrences[o].status \in Engaged

(* As long as the room of an engaged occurrence is stored it is that
   occurrence's own, and it is on the air exactly when the occurrence is
   live: what occurrenceCompatible and cleanPreparation test for. *)
RoomMatchesOccurrence ==
    \A o \in Occurrences :
        LET r == occurrences[o].liveNet IN
        r # None /\ Stored(r) =>
            /\ rooms[r].occurrence = o
            /\ rooms[r].started <=> occurrences[o].status = "live"

(* Two closeNet calls are never past the claim of one room together. *)
ClosersExclusive ==
    \A c, d \in Closers :
        /\ closers[c].pc # "idle" /\ closers[d].pc # "idle"
        /\ closers[c].room = closers[d].room
        => c = d

(* A net that has been on the air is destroyed only after its chat and report
   have a durable retention job.  The integrity sweep alone may go on when the
   job could not be queued. *)
AiredRoomRetained ==
    [][\A r \in Rooms :
          /\ Stored(r) /\ rooms[r].started /\ rooms'[r].state = "deleted"
          /\ worker.pc # "delete"
          => r \in retained]_vars

(* The statuses move as the scheduling subsystem promises: completed and
   missed are final, an aired occurrence is never missed nor rescheduled. *)
StatusOf == [o \in Occurrences |-> occurrences[o].status]
Abstract == INSTANCE OccurrenceStatus WITH status <- StatusOf
ImplementsOccurrenceStatus == Abstract!Spec

(* The profile's link to a session is taken away when the session ends, never
   handed to another one while it is set: liveNetCreatePost refuses a profile
   that has one. *)
LinkNeverReplaced ==
    [][profile # None /\ profile' # profile => profile' = None]_vars

(* A healthy session: stored, not closing, linked both ways. *)
Healthy(r) ==
    /\ Stored(r) /\ ~rooms[r].closing /\ profile = r
    /\ LET o == rooms[r].occurrence IN
       o # None => Compatible(r, rooms[r], occurrences[o])

(* Reconciliation leaves a healthy session alone. *)
SweepSparesHealthy == [][Sweep => \A r \in Rooms : Healthy(r) => Healthy(r)']_vars

-----------------------------------------------------------------------------
(* Liveness *)

(* No occurrence stays scheduled or preparing past its grace period. *)
PastGraceSettles ==
    \A o \in Occurrences :
        LET pending == occurrences[o].status \in {"scheduled", "preparing"} IN
        pending /\ GraceOver(o) ~> ~pending

(* A room that its profile or its occurrence disowns, or whose close was
   abandoned, is removed or set right. *)
Broken(r) == Stored(r) /\ ~Healthy(r)
BrokenRoomRemoved == \A r \in Rooms : Broken(r) ~> ~Broken(r)

(* A link to a room that is gone does not lock the net's profile for ever. *)
StaleLinkCleared ==
    \A r \in Rooms : profile = r /\ ~Stored(r) ~> profile # r

(* No interaction is left behind by a room that is gone. *)
OrphanCrewRemoved ==
    \A r \in Rooms : crew[r] # "none" /\ ~Stored(r) ~> crew[r] = "none"

(* An occurrence does not stay engaged with a room that is gone. *)
DanglingReleased ==
    \A o \in Occurrences, r \in Rooms :
        occurrences[o].liveNet = r /\ ~Stored(r) ~> occurrences[o].liveNet # r

(* All that interrupted creations and closes may leave behind is cleared. *)
RemainsCleared == BrokenRoomRemoved /\ StaleLinkCleared /\ OrphanCrewRemoved /\ DanglingReleased
=============================================================================
