----------------------- MODULE LiveNetLifecycleProofs -----------------------
(* What holds of LiveNetLifecycle for every number of occurrences, rooms,
   closers and creators, every window and every bound. *)
EXTENDS LiveNetLifecycle, TLAPS

-----------------------------------------------------------------------------
(* Typing *)

LEMMA RoomTypes ==
    /\ UnusedRoom \in Room
    /\ \A room \in Room : Removed(room) \in Room
    /\ \A o \in Occurrences \cup {None}, opening \in BOOLEAN, started \in BOOLEAN :
          NewRoom(o, opening, started) \in Room
BY DEF UnusedRoom, Room, Removed, NewRoom

LEMMA IdleWorkerType == IdleWorker \in Worker
BY RoomTypes DEF IdleWorker, Worker

\* A write of a room disturbs nothing of the sweep but its unchanged flag.
LEMMA OvertakeType ==
    ASSUME worker \in Worker, NEW r, Overtake(r)
    PROVE  worker' \in Worker
BY DEF Overtake, Worker

\* What a write of one document does to the type of the collection.
LEMMA RoomWriteTypes ==
    ASSUME rooms \in [Rooms -> Room], NEW r
    PROVE  /\ [rooms EXCEPT ![r].started = TRUE] \in [Rooms -> Room]
           /\ \A t \in Nat, b \in BOOLEAN :
                 [rooms EXCEPT ![r].closing = b, ![r].updatedAt = t] \in [Rooms -> Room]
           /\ [rooms EXCEPT ![r] = Removed(@)] \in [Rooms -> Room]
<1>1. \A room \in Room : [room EXCEPT !.started = TRUE] \in Room
  BY DEF Room
<1>2. \A room \in Room, t \in Nat, b \in BOOLEAN :
         [room EXCEPT !.closing = b, !.updatedAt = t] \in Room
  BY DEF Room
<1>3. [rooms EXCEPT ![r].started = TRUE] \in [Rooms -> Room]
  BY <1>1
<1>4. ASSUME NEW t \in Nat, NEW b \in BOOLEAN
      PROVE  [rooms EXCEPT ![r].closing = b, ![r].updatedAt = t] \in [Rooms -> Room]
  BY <1>2
<1>5. [rooms EXCEPT ![r] = Removed(@)] \in [Rooms -> Room]
  BY RoomTypes
<1> QED BY <1>3, <1>4, <1>5

LEMMA OccurrenceWriteTypes ==
    ASSUME occurrences \in [Occurrences -> Occurrence], NEW o,
           NEW s \in {"scheduled", "preparing", "live", "completed", "cancelled", "missed"}
    PROVE  /\ [occurrences EXCEPT ![o].status = s] \in [Occurrences -> Occurrence]
           /\ \A r \in Rooms \cup {None} :
                 /\ [occurrences EXCEPT ![o].status = s, ![o].liveNet = r]
                       \in [Occurrences -> Occurrence]
                 /\ [occurrences EXCEPT ![o].liveNet = r, ![o].status = s]
                       \in [Occurrences -> Occurrence]
<1>1. ASSUME NEW e \in Occurrence, NEW r \in Rooms \cup {None}
      PROVE  /\ [e EXCEPT !.status = s] \in Occurrence
             /\ [e EXCEPT !.status = s, !.liveNet = r] \in Occurrence
             /\ [e EXCEPT !.liveNet = r, !.status = s] \in Occurrence
  BY DEF Occurrence
<1>2. [occurrences EXCEPT ![o].status = s] \in [Occurrences -> Occurrence]
  BY <1>1
<1>3. ASSUME NEW r \in Rooms \cup {None}
      PROVE  /\ [occurrences EXCEPT ![o].status = s, ![o].liveNet = r]
                   \in [Occurrences -> Occurrence]
             /\ [occurrences EXCEPT ![o].liveNet = r, ![o].status = s]
                   \in [Occurrences -> Occurrence]
  BY <1>1
<1> QED BY <1>2, <1>3

\* Releasing an occurrence keeps it an occurrence.
LEMMA ReleaseType ==
    ASSUME TypeOK, NEW o \in Occurrences, NEW r, NEW status, Release(o, r, status)
    PROVE  occurrences' \in [Occurrences -> Occurrence]
<1> DEFINE S == CASE status = "live" -> "completed"
                  [] status = "preparing" ->
                       IF occurrences[o].startAt + Grace <= worker.at
                       THEN "missed" ELSE "scheduled"
                  [] OTHER -> status
<1>1. CASE occurrences[o].liveNet = r /\ occurrences[o].status = status
  <2>1. status \in {"scheduled", "preparing", "live", "completed", "cancelled", "missed"}
    BY <1>1 DEF TypeOK, Occurrence
  <2>2. S \in {"scheduled", "preparing", "live", "completed", "cancelled", "missed"}
    BY <2>1
  <2>3. occurrences' = [occurrences EXCEPT ![o].liveNet = None, ![o].status = S]
    BY <1>1 DEF Release
  <2> HIDE DEF S
  <2> QED BY <2>2, <2>3, OccurrenceWriteTypes DEF TypeOK
<1>2. CASE ~(occurrences[o].liveNet = r /\ occurrences[o].status = status)
  BY <1>2 DEF Release, TypeOK
<1> QED BY <1>1, <1>2

\* What a write of one call in flight does to the type of the calls.
LEMMA CreateCallTypes ==
    ASSUME creators \in [Creators -> CreateCall], NEW c \in Creators
    PROVE  /\ [creators EXCEPT ![c].pc = "checked", ![c].entry = TRUE]
                  \in [Creators -> CreateCall]
           /\ \A r \in Rooms : [creators EXCEPT ![c].pc = "saved", ![c].room = r]
                                  \in [Creators -> CreateCall]
           /\ [creators EXCEPT ![c].pc = "bound"] \in [Creators -> CreateCall]
           /\ [creators EXCEPT ![c] = IdleCreate] \in [Creators -> CreateCall]
<1>1. ASSUME NEW call \in CreateCall
      PROVE  /\ [call EXCEPT !.pc = "checked", !.entry = TRUE] \in CreateCall
             /\ \A r \in Rooms : [call EXCEPT !.pc = "saved", !.room = r] \in CreateCall
             /\ [call EXCEPT !.pc = "bound"] \in CreateCall
             /\ IdleCreate \in CreateCall
  BY DEF CreateCall, IdleCreate
<1>2. [creators EXCEPT ![c].pc = "checked", ![c].entry = TRUE] \in [Creators -> CreateCall]
  BY <1>1
<1>3. ASSUME NEW r \in Rooms
      PROVE  [creators EXCEPT ![c].pc = "saved", ![c].room = r] \in [Creators -> CreateCall]
  BY <1>1
<1>4. [creators EXCEPT ![c].pc = "bound"] \in [Creators -> CreateCall]
  BY <1>1
<1>5. [creators EXCEPT ![c] = IdleCreate] \in [Creators -> CreateCall]
  BY <1>1
<1> QED BY <1>2, <1>3, <1>4, <1>5

LEMMA CloseCallTypes ==
    ASSUME closers \in [Closers -> CloseCall], NEW c \in Closers
    PROVE  /\ \A p \in {"retained", "completed", "cleared", "removed"} :
                 [closers EXCEPT ![c].pc = p] \in [Closers -> CloseCall]
           /\ [closers EXCEPT ![c] = IdleCall] \in [Closers -> CloseCall]
<1>1. ASSUME NEW call \in CloseCall
      PROVE  /\ \A p \in {"retained", "completed", "cleared", "removed"} :
                   [call EXCEPT !.pc = p] \in CloseCall
             /\ IdleCall \in CloseCall
  BY DEF CloseCall, IdleCall
<1> QED BY <1>1

LEMMA CleanPreparationType ==
    ASSUME TypeOK, NEW o \in Occurrences,
           NEW finalStatus \in {"cancelled", "missed"},
           CleanPreparation(o, finalStatus)
    PROVE  /\ occurrences' \in [Occurrences -> Occurrence]
           /\ rooms' \in [Rooms -> Room]
           /\ crew' \in [Rooms -> {"none", "away", "recent"}]
           /\ profile' \in Rooms \cup {None}
           /\ retained' \in SUBSET Rooms
<1>1. occurrences' \in [Occurrences -> Occurrence]
  BY OccurrenceWriteTypes DEF CleanPreparation, TypeOK
<1>2. occurrences[o].liveNet \in Rooms \cup {None}
  BY DEF TypeOK, Occurrence
<1>3. CASE occurrences[o].liveNet = None
  BY <1>1, <1>3 DEF CleanPreparation, TypeOK
<1>4. CASE occurrences[o].liveNet \in Rooms
  <2> DEFINE r == occurrences[o].liveNet
  <2>1. /\ rooms' = [rooms EXCEPT ![r] = Removed(@)]
        /\ crew' = [crew EXCEPT ![r] = "none"]
        /\ profile' = IF profile = r THEN None ELSE profile
        /\ retained' \in {retained, retained \cup {r}}
    BY <1>4, NoneAssumption DEF CleanPreparation
  <2>2. rooms' \in [Rooms -> Room]
    BY <2>1, RoomWriteTypes DEF TypeOK
  <2> QED BY <1>1, <1>4, <2>1, <2>2 DEF TypeOK
<1> QED BY <1>2, <1>3, <1>4

\* A call of closeNet past its claim has a room, the finalization of an overdue
\* occurrence its target, the removal of a room its room: what TypeOK lacks to
\* be inductive.
BusyIsBound ==
    /\ \A c \in Closers : closers[c].pc # "idle" => closers[c].room # None
    /\ worker.pc = "expire" => worker.target # None
    /\ worker.pc \in {"delete", "discard"} => worker.room # None

TypeInv == TypeOK /\ BusyIsBound

LEMMA TypeStep == TypeInv /\ [Next]_vars => TypeOK'
<1> SUFFICES ASSUME TypeInv, [Next]_vars
             PROVE  TypeOK'
  OBVIOUS
<1> USE NoneAssumption, TimeAssumption DEF TypeInv
<1>1. CASE Tick
  BY <1>1 DEF Tick, TypeOK
<1>2. CASE Crash
  BY <1>2, IdleWorkerType DEF Crash, TypeOK, IdleCreate, IdleCall, CreateCall, CloseCall
<1>3. CASE Owner
  <2> SUFFICES ASSUME NEW o \in Occurrences,
                      \/ \E t \in StartTimes : UpdateOccurrence(o, t)
                      \/ CancelOccurrence(o)
                      \/ CancelPreparation(o)
                      \/ \E r \in Rooms, opening \in BOOLEAN :
                             PrepareOccurrence(o, r, opening)
               PROVE  TypeOK'
    BY <1>3 DEF Owner
  <2>1. CASE \E t \in StartTimes : UpdateOccurrence(o, t)
    BY <2>1 DEF UpdateOccurrence, TypeOK, Occurrence
  <2>2. CASE CancelOccurrence(o)
    BY <2>2 DEF CancelOccurrence, TypeOK, Occurrence
  <2>3. CASE CancelPreparation(o)
    BY <2>3, CleanPreparationType, OvertakeType DEF CancelPreparation, TypeOK
  <2>4. CASE \E r \in Rooms, opening \in BOOLEAN : PrepareOccurrence(o, r, opening)
    <3> PICK r \in Rooms, opening \in BOOLEAN : PrepareOccurrence(o, r, opening)
      BY <2>4
    <3>1. Due(o) \in BOOLEAN
      BY DEF Due
    <3>2. NewRoom(o, opening, Due(o)) \in Room
      BY <3>1, RoomTypes
    <3>3. rooms' \in [Rooms -> Room]
      BY <3>2 DEF PrepareOccurrence, TypeOK
    <3>4. occurrences' \in [Occurrences -> Occurrence]
      BY OccurrenceWriteTypes DEF PrepareOccurrence, TypeOK
    <3>5. worker' \in Worker
      BY OvertakeType DEF PrepareOccurrence, TypeOK
    <3> QED
      BY <3>3, <3>4, <3>5 DEF PrepareOccurrence, TypeOK
  <2> QED BY <2>1, <2>2, <2>3, <2>4
<1>4. CASE Lifecycle
  <2>1. ASSUME NEW o \in Occurrences, TransitionPreparedOccurrence(o)
        PROVE  TypeOK'
    <3>1. occurrences' \in [Occurrences -> Occurrence]
      BY <2>1, OccurrenceWriteTypes DEF TransitionPreparedOccurrence, TypeOK
    <3>2. rooms' \in [Rooms -> Room]
      BY <2>1, RoomWriteTypes DEF TransitionPreparedOccurrence, TypeOK
    <3>3. worker' \in Worker
      BY <2>1, OvertakeType DEF TransitionPreparedOccurrence, TypeOK
    <3> QED
      BY <2>1, <3>1, <3>2, <3>3 DEF TransitionPreparedOccurrence, TypeOK
  <2>2. ASSUME NEW o \in Occurrences, MissUnprepared(o)
        PROVE  TypeOK'
    BY <2>2, CleanPreparationType DEF MissUnprepared, TypeOK
  <2>3. ASSUME NEW o \in Occurrences, ExpireDecide(o)
        PROVE  TypeOK'
    <3>1. worker' \in Worker
      BY <2>3, IdleWorkerType DEF ExpireDecide, Worker
    <3> QED
      BY <2>3, <3>1 DEF ExpireDecide, TypeOK
  <2>4. CASE ExpirePreparation
    <3> DEFINE o == worker.target
    <3>1. CASE /\ occurrences[o].status \in {"scheduled", "preparing"}
               /\ GraceOver(o) /\ Cleanable(o) /\ o \in Occurrences
      BY <2>4, <3>1, CleanPreparationType, IdleWorkerType DEF ExpirePreparation, TypeOK
    <3>2. o \in Occurrences
      BY <2>4 DEF ExpirePreparation, TypeOK, Worker, BusyIsBound
    <3> QED
      BY <2>4, <3>1, <3>2, IdleWorkerType DEF ExpirePreparation, TypeOK
  <2> QED BY <1>4, <2>1, <2>2, <2>3, <2>4 DEF Lifecycle
<1>5. CASE Presence
  <2> SUFFICES ASSUME NEW r \in Rooms,
                      NcoSeen(r) \/ NcoAway(r) \/ StartUnscheduled(r) \/ EditRoom(r)
               PROVE  TypeOK'
    BY <1>5 DEF Presence
  <2>1. CASE NcoSeen(r)
    BY <2>1 DEF NcoSeen, TypeOK
  <2>2. CASE NcoAway(r)
    BY <2>2 DEF NcoAway, TypeOK
  <2>3. CASE StartUnscheduled(r)
    <3>1. rooms' \in [Rooms -> Room]
      BY <2>3, RoomWriteTypes DEF StartUnscheduled, TypeOK
    <3> QED
      BY <2>3, <3>1, OvertakeType DEF StartUnscheduled, TypeOK
  <2>4. CASE EditRoom(r)
    BY <2>4, OvertakeType DEF EditRoom, TypeOK
  <2> QED BY <2>1, <2>2, <2>3, <2>4
<1>6. CASE Create
  <2> SUFFICES ASSUME NEW c \in Creators,
                      \/ CreateCheck(c)
                      \/ \E r \in Rooms : CreateRoom(c, r)
                      \/ CreateEntry(c)
                      \/ CreateLink(c)
               PROVE  TypeOK'
    BY <1>6 DEF Create
  <2>1. CASE CreateCheck(c)
    BY <2>1, CreateCallTypes DEF CreateCheck, TypeOK
  <2>2. CASE \E r \in Rooms : CreateRoom(c, r)
    <3> PICK r \in Rooms : CreateRoom(c, r)
      BY <2>2
    <3>1. rooms' \in [Rooms -> Room]
      <4>1. NewRoom(None, FALSE, FALSE) \in Room
        BY RoomTypes
      <4> QED BY <4>1 DEF CreateRoom, TypeOK
    <3>2. worker' \in Worker
      BY OvertakeType DEF CreateRoom, TypeOK
    <3>3. creators' \in [Creators -> CreateCall]
      <4>1. CASE creators' = [creators EXCEPT ![c].pc = "saved", ![c].room = r]
        BY <4>1, CreateCallTypes DEF TypeOK
      <4>2. CASE creators' = [creators EXCEPT ![c] = IdleCreate]
        BY <4>2, CreateCallTypes DEF TypeOK
      <4> QED BY <4>1, <4>2 DEF CreateRoom
    <3> QED
      BY <3>1, <3>2, <3>3 DEF CreateRoom, TypeOK
  <2>3. CASE CreateEntry(c)
    BY <2>3, CreateCallTypes DEF CreateEntry, TypeOK
  <2>4. CASE CreateLink(c)
    BY <2>4, CreateCallTypes DEF CreateLink, TypeOK, CreateCall
  <2> QED BY <2>1, <2>2, <2>3, <2>4
<1>7. CASE Close
  <2> SUFFICES ASSUME NEW c \in Closers,
                      \/ \E r \in Rooms : CloseClaim(c, r)
                      \/ CloseRetain(c) \/ CloseReopen(c) \/ CloseComplete(c)
                      \/ CloseClear(c) \/ CloseRemove(c) \/ CloseUnlink(c)
                      \/ CloseFail(c)
               PROVE  TypeOK'
    BY <1>7 DEF Close
  <2>1. CASE \E r \in Rooms : CloseClaim(c, r)
    <3> PICK r \in Rooms : CloseClaim(c, r)
      BY <2>1
    <3>1. rooms' \in [Rooms -> Room]
      BY RoomWriteTypes DEF CloseClaim, TypeOK
    <3> QED
      BY <3>1, OvertakeType DEF CloseClaim, TypeOK, CloseCall
  <2>2. CASE CloseRetain(c)
    <3>1. closers[c].room \in Rooms
      BY <2>2 DEF CloseRetain, CloseStep, TypeOK, CloseCall, BusyIsBound
    <3> QED
      BY <2>2, <3>1, CloseCallTypes DEF CloseRetain, CloseStep, TypeOK
  <2>3. CASE CloseReopen(c)
    <3>1. rooms' \in [Rooms -> Room]
      <4>1. rooms' = [rooms EXCEPT ![closers[c].room].closing = FALSE,
                                  ![closers[c].room].updatedAt = 0]
            \/ rooms' = rooms
        BY <2>3 DEF CloseReopen
      <4>2. CASE rooms' = [rooms EXCEPT ![closers[c].room].closing = FALSE,
                                       ![closers[c].room].updatedAt = 0]
        BY <4>2, RoomWriteTypes DEF TypeOK
      <4>3. CASE rooms' = rooms
        BY <4>3 DEF TypeOK
      <4> QED BY <4>1, <4>2, <4>3
    <3>2. worker' \in Worker
      BY <2>3, OvertakeType DEF CloseReopen, TypeOK
    <3> QED
      BY <2>3, <3>1, <3>2, CloseCallTypes DEF CloseReopen, TypeOK
  <2>4. CASE CloseComplete(c)
    <3>1. occurrences' \in [Occurrences -> Occurrence]
      <4> DEFINE o == rooms[closers[c].room].occurrence
      <4>1. \/ occurrences' = [occurrences EXCEPT ![o].status = "completed",
                                                 ![o].liveNet = None]
            \/ occurrences' = occurrences
        BY <2>4 DEF CloseComplete
      <4>2. CASE occurrences' = [occurrences EXCEPT ![o].status = "completed",
                                                   ![o].liveNet = None]
        BY <4>2, OccurrenceWriteTypes DEF TypeOK
      <4>3. CASE occurrences' = occurrences
        BY <4>3 DEF TypeOK
      <4> QED BY <4>1, <4>2, <4>3
    <3> QED
      BY <2>4, <3>1, CloseCallTypes DEF CloseComplete, CloseStep, TypeOK
  <2>5. CASE CloseClear(c)
    BY <2>5, CloseCallTypes DEF CloseClear, CloseStep, TypeOK, CreateCall
  <2>6. CASE CloseRemove(c)
    <3>1. rooms' \in [Rooms -> Room]
      BY <2>6, RoomWriteTypes DEF CloseRemove, TypeOK
    <3> QED
      BY <2>6, <3>1, OvertakeType, CloseCallTypes DEF CloseRemove, CloseStep, TypeOK
  <2>7. CASE CloseUnlink(c)
    BY <2>7, CloseCallTypes DEF CloseUnlink, TypeOK
  <2>8. CASE CloseFail(c)
    BY <2>8, CloseCallTypes DEF CloseFail, TypeOK
  <2> QED BY <2>1, <2>2, <2>3, <2>4, <2>5, <2>6, <2>7, <2>8
<1>8. CASE Sweep
  <2>1. CASE SweepReadRooms
    <3>1. worker' \in Worker
      <4>1. CASE StoredRooms = {}
        BY <2>1, <4>1, IdleWorkerType DEF SweepReadRooms, Worker, TypeOK
      <4>2. CASE StoredRooms # {}
        <5>1. (CHOOSE r \in StoredRooms : TRUE) \in Rooms
          BY <4>2 DEF StoredRooms
        <5> QED
          BY <2>1, <4>2, <5>1, IdleWorkerType DEF SweepReadRooms, Worker, TypeOK
      <4> QED BY <4>1, <4>2
    <3> QED BY <2>1, <3>1 DEF SweepReadRooms, TypeOK
  <2>2. CASE SweepReadProfile
    <3>1. worker' \in Worker
      BY <2>2 DEF SweepReadProfile, TypeOK, Worker
    <3> QED BY <2>2, <3>1 DEF SweepReadProfile, TypeOK
  <2>3. CASE SweepReadOccurrence
    <3>1. worker.copy.occurrence \in Occurrences \cup {None}
      BY DEF TypeOK, Worker, Room
    <3>2. worker' \in Worker
      BY <2>3, <3>1 DEF SweepReadOccurrence, TypeOK, Worker
    <3> QED BY <2>3, <3>2 DEF SweepReadOccurrence, TypeOK
  <2>4. CASE SweepJudge
    <3>1. worker' \in Worker
      BY <2>4, IdleWorkerType, RoomTypes DEF SweepJudge, TypeOK, Worker
    <3> QED BY <2>4, <3>1 DEF SweepJudge, TypeOK
  <2>5. CASE SweepDelete
    <3>1. worker' \in Worker
      <4>1. \/ worker' = [worker EXCEPT !.pc = "discard", !.unchanged = FALSE]
            \/ worker' = [IdleWorker EXCEPT !.pc = "remaining", !.at = worker.at]
        BY <2>5 DEF SweepDelete
      <4>2. CASE worker' = [worker EXCEPT !.pc = "discard", !.unchanged = FALSE]
        BY <4>2 DEF TypeOK, Worker
      <4>3. CASE worker' = [IdleWorker EXCEPT !.pc = "remaining", !.at = worker.at]
        BY <4>3, IdleWorkerType DEF TypeOK, Worker
      <4> QED BY <4>1, <4>2, <4>3
    <3>2. rooms' \in [Rooms -> Room]
      <4>1. \/ rooms' = [rooms EXCEPT ![worker.room] = Removed(@)]
            \/ rooms' = rooms
        BY <2>5 DEF SweepDelete
      <4>2. CASE rooms' = [rooms EXCEPT ![worker.room] = Removed(@)]
        BY <4>2, RoomWriteTypes DEF TypeOK
      <4>3. CASE rooms' = rooms
        BY <4>3 DEF TypeOK
      <4> QED BY <4>1, <4>2, <4>3
    <3> QED BY <2>5, <3>1, <3>2 DEF SweepDelete, TypeOK
  <2>6. CASE SweepDiscard
    <3>1. worker' \in Worker
      BY <2>6 DEF SweepDiscard, SweepStep, TypeOK, Worker
    <3>2. worker.room \in Rooms
      BY <2>6 DEF SweepDiscard, SweepStep, TypeOK, Worker, BusyIsBound
    <3> QED BY <2>6, <3>1, <3>2 DEF SweepDiscard, TypeOK
  <2>7. CASE SweepUnlink
    <3>1. worker' \in Worker
      BY <2>7, IdleWorkerType DEF SweepUnlink, TypeOK, Worker
    <3>2. worker.target \in Occurrences \cup {None}
      BY DEF TypeOK, Worker
    <3>3. occurrences' \in [Occurrences -> Occurrence]
      BY <2>7, <3>2, ReleaseType DEF SweepUnlink, TypeOK
    <3> QED BY <2>7, <3>1, <3>3 DEF SweepUnlink, TypeOK
  <2>8. CASE SweepReadRemaining
    <3>1. worker' \in Worker
      BY <2>8 DEF SweepReadRemaining, StoredRooms, TypeOK, Worker
    <3> QED BY <2>8, <3>1 DEF SweepReadRemaining, TypeOK
  <2>9. CASE SweepOrphans
    <3>1. worker' \in Worker
      BY <2>9 DEF SweepOrphans, SweepStep, TypeOK, Worker
    <3> QED BY <2>9, <3>1 DEF SweepOrphans, TypeOK
  <2>10. CASE SweepReadDangling
    <3>1. worker' \in Worker
      <4>1. worker'.dangling \in SUBSET (Occurrences \X Rooms \X Engaged)
        BY <2>10 DEF SweepReadDangling, Dangling, TypeOK, Worker, Occurrence, Engaged
      <4> QED BY <2>10, <4>1 DEF SweepReadDangling, TypeOK, Worker
    <3> QED BY <2>10, <3>1 DEF SweepReadDangling, TypeOK
  <2>11. CASE SweepRepair
    <3>1. worker' \in Worker
      BY <2>11, IdleWorkerType DEF SweepRepair, TypeOK, Worker
    <3>2. occurrences' \in [Occurrences -> Occurrence]
      <4>1. CASE worker.dangling = {}
        BY <2>11, <4>1 DEF SweepRepair, TypeOK
      <4>2. CASE worker.dangling # {}
        <5> PICK d \in worker.dangling : Release(d[1], d[2], d[3])
          BY <2>11, <4>2 DEF SweepRepair
        <5>1. d[1] \in Occurrences
          BY DEF TypeOK, Worker
        <5> QED BY <5>1, ReleaseType
      <4> QED BY <4>1, <4>2
    <3> QED BY <2>11, <3>1, <3>2 DEF SweepRepair, TypeOK
  <2> QED
    BY <1>8, <2>1, <2>2, <2>3, <2>4, <2>5, <2>6, <2>7, <2>8, <2>9, <2>10, <2>11
       DEF Sweep, SweepContinue
<1>9. CASE UNCHANGED vars
  BY <1>9 DEF vars, TypeOK
<1> QED
  BY <1>1, <1>2, <1>3, <1>4, <1>5, <1>6, <1>7, <1>8, <1>9 DEF Next

LEMMA BusyStep == TypeInv /\ [Next]_vars => BusyIsBound'
<1> SUFFICES ASSUME TypeInv, [Next]_vars
             PROVE  BusyIsBound'
  OBVIOUS
<1> USE NoneAssumption DEF TypeInv
<1>1. ASSUME UNCHANGED closers, UNCHANGED worker
      PROVE  BusyIsBound'
  BY <1>1 DEF BusyIsBound
<1>2. ASSUME UNCHANGED closers, NEW r, Overtake(r)
      PROVE  BusyIsBound'
  BY <1>2 DEF BusyIsBound, Overtake, TypeOK, Worker
<1>3. CASE Tick \/ Presence \/ Create \/ UNCHANGED vars
  BY <1>1, <1>2, <1>3
     DEF Tick, Presence, NcoSeen, NcoAway, StartUnscheduled, EditRoom, vars,
         Create, CreateCheck, CreateRoom, CreateEntry, CreateLink
<1>4. CASE Crash
  BY <1>4 DEF Crash, BusyIsBound, IdleCall, IdleWorker
<1>5. CASE Owner
  BY <1>1, <1>2, <1>5
     DEF Owner, UpdateOccurrence, CancelOccurrence, CancelPreparation, PrepareOccurrence
<1>6. CASE Lifecycle
  <2>1. ASSUME NEW o \in Occurrences, TransitionPreparedOccurrence(o) \/ MissUnprepared(o)
        PROVE  BusyIsBound'
    BY <1>1, <1>2, <2>1 DEF TransitionPreparedOccurrence, MissUnprepared
  <2>2. ASSUME NEW o \in Occurrences, ExpireDecide(o)
        PROVE  BusyIsBound'
    BY <2>2 DEF ExpireDecide, BusyIsBound, IdleWorker
  <2>3. CASE ExpirePreparation
    BY <2>3 DEF ExpirePreparation, BusyIsBound, IdleWorker
  <2> QED BY <1>6, <2>1, <2>2, <2>3 DEF Lifecycle
<1>7. CASE Close
  <2> SUFFICES ASSUME NEW c \in Closers,
                      \/ \E r \in Rooms : CloseClaim(c, r)
                      \/ CloseRetain(c) \/ CloseReopen(c) \/ CloseComplete(c)
                      \/ CloseClear(c) \/ CloseRemove(c) \/ CloseUnlink(c)
                      \/ CloseFail(c)
               PROVE  BusyIsBound'
    BY <1>7 DEF Close
  <2>1. \/ \E r \in Rooms : closers' = [closers EXCEPT ![c] = [pc |-> "claimed", room |-> r]]
        \/ closers' = [closers EXCEPT ![c] = IdleCall]
        \/ /\ closers[c].pc # "idle"
           /\ \E p \in {"retained", "completed", "cleared", "removed"} :
                 closers' = [closers EXCEPT ![c].pc = p]
    BY DEF CloseClaim, CloseRetain, CloseReopen, CloseComplete, CloseClear,
           CloseRemove, CloseUnlink, CloseFail, CloseStep
  <2>2. ASSUME NEW d \in Closers, closers'[d].pc # "idle"
        PROVE  closers'[d].room # None
    <3>1. closers \in [Closers -> CloseCall] /\ (closers[d].pc # "idle" => closers[d].room # None)
      BY DEF TypeOK, BusyIsBound
    <3> QED BY <2>1, <2>2, <3>1 DEF CloseCall, IdleCall
  <2>3. UNCHANGED worker \/ \E r : Overtake(r)
    BY DEF CloseClaim, CloseRetain, CloseReopen, CloseComplete, CloseClear,
           CloseRemove, CloseUnlink, CloseFail
  <2> QED
    BY <2>2, <2>3 DEF BusyIsBound, Overtake, TypeOK, Worker
<1>8. CASE Sweep
  <2>1. UNCHANGED closers
    BY <1>8 DEF Sweep, SweepContinue, SweepReadRooms, SweepReadProfile,
         SweepReadOccurrence, SweepJudge, SweepDelete, SweepDiscard, SweepUnlink,
         SweepReadRemaining, SweepOrphans, SweepReadDangling, SweepRepair
  <2>2. worker \in Worker /\ IdleWorker.pc = "idle" /\ IdleWorker \in Worker
    BY IdleWorkerType DEF TypeOK, IdleWorker
  <2>3. CASE SweepJudge
    <3>1. CASE worker' = [IdleWorker EXCEPT !.pc = "remaining", !.at = worker.at]
      BY <2>1, <2>2, <3>1 DEF BusyIsBound, Worker
    <3>2. CASE /\ worker.room # None
               /\ worker' = [worker EXCEPT !.pc = "delete", !.copy = UnusedRoom]
      BY <2>1, <2>2, <3>2 DEF BusyIsBound, Worker
    <3> QED BY <2>3, <3>1, <3>2 DEF SweepJudge
  <2>4. CASE SweepDelete
    <3>1. CASE worker' = [IdleWorker EXCEPT !.pc = "remaining", !.at = worker.at]
      BY <2>1, <2>2, <3>1 DEF BusyIsBound, Worker
    <3>2. CASE worker' = [worker EXCEPT !.pc = "discard", !.unchanged = FALSE]
      BY <2>1, <2>2, <2>4, <3>2 DEF SweepDelete, BusyIsBound, Worker
    <3> QED BY <2>4, <3>1, <3>2 DEF SweepDelete
  <2>5. CASE SweepReadRooms
    <3>1. worker'.pc = "profile"
      BY <2>2, <2>5 DEF SweepReadRooms, Worker
    <3> QED BY <2>1, <3>1 DEF BusyIsBound
  <2>6. CASE SweepRepair
    <3>1. worker'.pc \in {"idle", "repair"}
      BY <2>2, <2>6 DEF SweepRepair, Worker
    <3> QED BY <2>1, <3>1 DEF BusyIsBound
  <2>7. CASE \/ SweepReadProfile \/ SweepReadOccurrence \/ SweepDiscard \/ SweepUnlink
             \/ SweepReadRemaining \/ SweepOrphans \/ SweepReadDangling
    <3>1. worker'.pc \in {"occurrence", "judge", "unlink", "remaining", "orphans",
                           "dangling", "repair"}
      BY <2>2, <2>7
         DEF SweepReadProfile, SweepReadOccurrence, SweepDiscard, SweepUnlink, SweepStep,
             SweepReadRemaining, SweepOrphans, SweepReadDangling, Worker
    <3> QED BY <2>1, <3>1 DEF BusyIsBound
  <2> QED
    BY <1>8, <2>3, <2>4, <2>5, <2>6, <2>7 DEF Sweep, SweepContinue
<1> QED
  BY <1>3, <1>4, <1>5, <1>6, <1>7, <1>8 DEF Next

LEMMA TypeInvariant == Spec => []TypeInv
<1>1. Init => TypeOK
  <2> SUFFICES ASSUME Init PROVE TypeOK
    OBVIOUS
  <2>1. occurrences \in [Occurrences -> Occurrence]
    <3>1. {[status |-> "scheduled", liveNet |-> None, startAt |-> t] : t \in StartTimes}
             \subseteq Occurrence
      BY TimeAssumption DEF Occurrence
    <3> QED BY <3>1 DEF Init
  <2>2. creators \in [Creators -> CreateCall] /\ closers \in [Closers -> CloseCall]
    BY DEF Init, CreateCall, CloseCall, IdleCreate, IdleCall
  <2> QED
    BY <2>1, <2>2, RoomTypes, IdleWorkerType DEF Init, TypeOK
<1>2. Init => BusyIsBound
  BY DEF Init, BusyIsBound, IdleCall, IdleWorker
<1> QED
  BY <1>1, <1>2, TypeStep, BusyStep, PTL DEF Spec, TypeInv

(* Every variable keeps its type: in particular no document ever takes a
   status, a state or a reference outside its schema, whoever writes it. *)
THEOREM TypeCorrect == Spec => []TypeOK
BY TypeInvariant, PTL DEF TypeInv

-----------------------------------------------------------------------------
(* What one step does to the documents *)

\* What a step may do to one occurrence.
Kept(o) ==
    /\ occurrences'[o].status = occurrences[o].status
    /\ occurrences'[o].liveNet = occurrences[o].liveNet

Cancelled(o) ==
    /\ occurrences[o].status = "scheduled"
    /\ occurrences'[o].status = "cancelled"
    /\ occurrences'[o].liveNet = occurrences[o].liveNet

Prepared(o) == \E r \in Rooms, opening \in BOOLEAN : PrepareOccurrence(o, r, opening)

Ended(o) ==
    /\ <<occurrences[o].status, occurrences'[o].status>> \in
          { <<"scheduled", "missed">>, <<"preparing", "missed">>,
            <<"preparing", "cancelled">>, <<"preparing", "completed">>,
            <<"preparing", "scheduled">>, <<"live", "completed">> }
    /\ occurrences'[o].liveNet = None

Unlinked(o) ==
    /\ occurrences'[o].status = occurrences[o].status
    /\ occurrences[o].status \notin Engaged
    /\ occurrences'[o].liveNet = None

OccurrenceStep(o) ==
    \/ Kept(o) \/ Cancelled(o) \/ Prepared(o) \/ TransitionPreparedOccurrence(o)
    \/ Ended(o) \/ Unlinked(o)

\* A release is conditional on the status it was decided on.
LEMMA ReleaseStep ==
    ASSUME TypeOK, NEW k \in Occurrences, NEW r, NEW status, Release(k, r, status),
           NEW o \in Occurrences
    PROVE  OccurrenceStep(o)
<1> DEFINE S == CASE status = "live" -> "completed"
                  [] status = "preparing" ->
                       IF occurrences[k].startAt + Grace <= worker.at
                       THEN "missed" ELSE "scheduled"
                  [] OTHER -> status
<1>1. CASE o = k /\ occurrences[k].liveNet = r /\ occurrences[k].status = status
  <2>1. occurrences' = [occurrences EXCEPT ![k].liveNet = None, ![k].status = S]
    BY <1>1 DEF Release
  <2>2. \/ status = "live" /\ S = "completed"
        \/ status = "preparing" /\ S \in {"missed", "scheduled"}
        \/ status \notin Engaged /\ S = status
    BY DEF Engaged
  <2> HIDE DEF S
  <2>3. occurrences'[o].liveNet = None /\ occurrences'[o].status = S
    BY <1>1, <2>1 DEF TypeOK, Occurrence
  <2> QED BY <1>1, <2>2, <2>3 DEF OccurrenceStep, Ended, Unlinked
<1>2. CASE ~(o = k /\ occurrences[k].liveNet = r /\ occurrences[k].status = status)
  <2>1. occurrences'[o] = occurrences[o]
    BY <1>2 DEF Release, TypeOK
  <2> QED BY <2>1 DEF OccurrenceStep, Kept
<1> QED BY <1>1, <1>2

LEMMA CleanPreparationStep ==
    ASSUME TypeOK, NEW k \in Occurrences, NEW final \in {"cancelled", "missed"},
           \/ occurrences[k].status = "preparing"
           \/ occurrences[k].status = "scheduled" /\ final = "missed",
           CleanPreparation(k, final),
           NEW o \in Occurrences
    PROVE  OccurrenceStep(o)
<1>1. occurrences' = [occurrences EXCEPT ![k].status = final, ![k].liveNet = None]
  BY DEF CleanPreparation
<1>2. CASE o = k
  <2>1. occurrences'[o].status = final /\ occurrences'[o].liveNet = None
    BY <1>1, <1>2 DEF TypeOK, Occurrence
  <2> QED BY <1>2, <2>1 DEF OccurrenceStep, Ended
<1>3. CASE o # k
  BY <1>1, <1>3 DEF OccurrenceStep, Kept, TypeOK
<1> QED BY <1>2, <1>3

LEMMA OccurrenceSteps ==
    ASSUME TypeInv, [Next]_vars, NEW o \in Occurrences
    PROVE  OccurrenceStep(o)
<1> USE DEF TypeInv
<1>1. CASE UNCHANGED occurrences
  BY <1>1 DEF OccurrenceStep, Kept
<1>2. CASE Tick \/ Crash \/ Presence \/ Create \/ UNCHANGED vars
  BY <1>1, <1>2
     DEF Tick, Crash, Presence, NcoSeen, NcoAway, StartUnscheduled, EditRoom, vars,
         Create, CreateCheck, CreateRoom, CreateEntry, CreateLink
<1>3. CASE Owner
  <2> PICK k \in Occurrences :
             \/ \E t \in StartTimes : UpdateOccurrence(k, t)
             \/ CancelOccurrence(k)
             \/ CancelPreparation(k)
             \/ \E r \in Rooms, opening \in BOOLEAN : PrepareOccurrence(k, r, opening)
    BY <1>3 DEF Owner
  <2>1. CASE \E t \in StartTimes : UpdateOccurrence(k, t)
    BY <2>1 DEF UpdateOccurrence, OccurrenceStep, Kept, TypeOK, Occurrence
  <2>2. CASE CancelOccurrence(k)
    BY <2>2 DEF CancelOccurrence, OccurrenceStep, Kept, Cancelled, TypeOK, Occurrence
  <2>3. CASE CancelPreparation(k)
    BY <2>3, CleanPreparationStep DEF CancelPreparation
  <2>4. CASE \E r \in Rooms, opening \in BOOLEAN : PrepareOccurrence(k, r, opening)
    <3>1. CASE o = k
      BY <2>4, <3>1 DEF OccurrenceStep, Prepared
    <3>2. CASE o # k
      BY <2>4, <3>2 DEF PrepareOccurrence, OccurrenceStep, Kept, TypeOK
    <3> QED BY <3>1, <3>2
  <2> QED BY <2>1, <2>2, <2>3, <2>4
<1>4. CASE Lifecycle
  <2>1. ASSUME NEW k \in Occurrences, TransitionPreparedOccurrence(k)
        PROVE  OccurrenceStep(o)
    <3>1. CASE o = k
      BY <2>1, <3>1 DEF OccurrenceStep
    <3>2. CASE o # k
      BY <2>1, <3>2 DEF TransitionPreparedOccurrence, OccurrenceStep, Kept, TypeOK
    <3> QED BY <3>1, <3>2
  <2>2. ASSUME NEW k \in Occurrences, MissUnprepared(k)
        PROVE  OccurrenceStep(o)
    BY <2>2, CleanPreparationStep DEF MissUnprepared
  <2>3. ASSUME NEW k \in Occurrences, ExpireDecide(k)
        PROVE  OccurrenceStep(o)
    BY <1>1, <2>3 DEF ExpireDecide
  <2>4. CASE ExpirePreparation
    <3>1. worker.target \in Occurrences
      BY <2>4 DEF ExpirePreparation, TypeOK, Worker, BusyIsBound
    <3>2. CASE UNCHANGED occurrences
      BY <1>1, <3>2
    <3>3. CASE ~UNCHANGED occurrences
      <4>1. /\ occurrences[worker.target].status \in {"scheduled", "preparing"}
            /\ CleanPreparation(worker.target, "missed")
        BY <2>4, <3>3 DEF ExpirePreparation
      <4> QED BY <3>1, <4>1, CleanPreparationStep
    <3> QED BY <3>2, <3>3
  <2> QED BY <1>4, <2>1, <2>2, <2>3, <2>4 DEF Lifecycle
<1>5. CASE Close
  <2>1. ASSUME NEW c \in Closers, CloseComplete(c)
        PROVE  OccurrenceStep(o)
    <3> DEFINE k == rooms[closers[c].room].occurrence
    <3>1. CASE /\ o = k /\ occurrences[k].status \in Engaged
               /\ occurrences' = [occurrences EXCEPT ![k].status = "completed",
                                                     ![k].liveNet = None]
      BY <3>1 DEF OccurrenceStep, Ended, Engaged, TypeOK, Occurrence
    <3>2. CASE /\ o # k
               /\ occurrences' = [occurrences EXCEPT ![k].status = "completed",
                                                     ![k].liveNet = None]
      BY <3>2 DEF OccurrenceStep, Kept, TypeOK
    <3> QED BY <1>1, <2>1, <3>1, <3>2 DEF CloseComplete
  <2>2. CASE \E c \in Closers :
               \/ \E r \in Rooms : CloseClaim(c, r)
               \/ CloseRetain(c) \/ CloseReopen(c) \/ CloseClear(c)
               \/ CloseRemove(c) \/ CloseUnlink(c) \/ CloseFail(c)
    BY <1>1, <2>2
       DEF CloseClaim, CloseRetain, CloseReopen, CloseClear, CloseRemove, CloseUnlink,
           CloseFail
  <2> QED BY <1>5, <2>1, <2>2 DEF Close
<1>6. CASE Sweep
  <2>1. CASE SweepUnlink
    <3>1. worker.target \in Occurrences \cup {None}
      BY DEF TypeOK, Worker
    <3> QED BY <1>1, <2>1, <3>1, ReleaseStep DEF SweepUnlink
  <2>2. CASE SweepRepair
    <3>1. ASSUME NEW d \in worker.dangling, Release(d[1], d[2], d[3])
          PROVE  OccurrenceStep(o)
      <4>1. d[1] \in Occurrences
        BY DEF TypeOK, Worker
      <4> QED BY <3>1, <4>1, ReleaseStep
    <3> QED BY <1>1, <2>2, <3>1 DEF SweepRepair
  <2>3. CASE \/ SweepReadRooms \/ SweepReadProfile \/ SweepReadOccurrence \/ SweepJudge
             \/ SweepDelete \/ SweepDiscard \/ SweepReadRemaining \/ SweepOrphans
             \/ SweepReadDangling
    BY <1>1, <2>3
       DEF SweepReadRooms, SweepReadProfile, SweepReadOccurrence, SweepJudge, SweepDelete,
           SweepDiscard, SweepReadRemaining, SweepOrphans, SweepReadDangling
  <2> QED BY <1>6, <2>1, <2>2, <2>3 DEF Sweep, SweepContinue
<1> QED
  BY <1>2, <1>3, <1>4, <1>5, <1>6 DEF Next

\* What a step may do to one room.
Unmoved(r) ==
    /\ rooms'[r].state = rooms[r].state
    /\ rooms'[r].occurrence = rooms[r].occurrence
    /\ rooms'[r].started = rooms[r].started

Aired(r) ==
    /\ Stored(r) /\ rooms[r].occurrence = None
    /\ rooms'[r].state = "stored" /\ rooms'[r].occurrence = None

Opening(r) == rooms[r].state = "unused" /\ rooms'[r].state = "stored"

RoomStep(r) ==
    \/ Unmoved(r) \/ Aired(r) \/ rooms'[r].state = "deleted"
    \/ Opening(r) /\ rooms'[r].occurrence = None
    \/ Opening(r) /\ \E o \in Occurrences, opening \in BOOLEAN : PrepareOccurrence(o, r, opening)
    \/ \E o \in Occurrences : TransitionPreparedOccurrence(o) /\ r = occurrences[o].liveNet

LEMMA RoomSteps ==
    ASSUME TypeInv, [Next]_vars, NEW r \in Rooms
    PROVE  RoomStep(r)
<1> USE DEF TypeInv
<1>1. CASE UNCHANGED rooms
  BY <1>1 DEF RoomStep, Unmoved
<1>2. ASSUME NEW x, rooms' = [rooms EXCEPT ![x] = Removed(@)]
      PROVE  RoomStep(r)
  <2>1. rooms'[r] = rooms[r] \/ rooms'[r].state = "deleted"
    <3>1. Removed(rooms[r]).state = "deleted"
      BY DEF Removed, UnusedRoom
    <3> QED BY <1>2, <3>1 DEF TypeOK
  <2> QED BY <2>1 DEF RoomStep, Unmoved
<1>3. ASSUME NEW k \in Occurrences, NEW final, CleanPreparation(k, final)
      PROVE  RoomStep(r)
  BY <1>1, <1>2, <1>3 DEF CleanPreparation
<1>4. CASE Tick \/ Crash \/ UNCHANGED vars
  BY <1>1, <1>4 DEF Tick, Crash, vars
<1>5. CASE Owner
  <2> PICK k \in Occurrences :
             \/ \E t \in StartTimes : UpdateOccurrence(k, t)
             \/ CancelOccurrence(k)
             \/ CancelPreparation(k)
             \/ \E x \in Rooms, opening \in BOOLEAN : PrepareOccurrence(k, x, opening)
    BY <1>5 DEF Owner
  <2>1. CASE (\E t \in StartTimes : UpdateOccurrence(k, t)) \/ CancelOccurrence(k)
    BY <1>1, <2>1 DEF UpdateOccurrence, CancelOccurrence
  <2>2. CASE CancelPreparation(k)
    BY <1>3, <2>2 DEF CancelPreparation
  <2>3. ASSUME NEW x \in Rooms, NEW opening \in BOOLEAN, PrepareOccurrence(k, x, opening)
        PROVE  RoomStep(r)
    <3>1. CASE r = x
      <4>1. Opening(r)
        BY <2>3, <3>1 DEF PrepareOccurrence, Opening, NewRoom, TypeOK
      <4> QED BY <2>3, <3>1, <4>1 DEF RoomStep
    <3>2. CASE r # x
      BY <2>3, <3>2 DEF PrepareOccurrence, RoomStep, Unmoved, TypeOK
    <3> QED BY <3>1, <3>2
  <2> QED BY <2>1, <2>2, <2>3
<1>6. CASE Lifecycle
  <2>1. ASSUME NEW k \in Occurrences, TransitionPreparedOccurrence(k)
        PROVE  RoomStep(r)
    <3>1. CASE r = occurrences[k].liveNet
      BY <2>1, <3>1 DEF RoomStep
    <3>2. CASE r # occurrences[k].liveNet
      BY <2>1, <3>2 DEF TransitionPreparedOccurrence, RoomStep, Unmoved, TypeOK
    <3> QED BY <3>1, <3>2
  <2>2. ASSUME NEW k \in Occurrences, MissUnprepared(k) \/ ExpireDecide(k)
        PROVE  RoomStep(r)
    BY <1>1, <1>3, <2>2 DEF MissUnprepared, ExpireDecide
  <2>3. CASE ExpirePreparation
    <3>1. worker.target \in Occurrences
      BY <2>3 DEF ExpirePreparation, TypeOK, Worker, BusyIsBound
    <3> QED BY <1>1, <1>3, <2>3, <3>1 DEF ExpirePreparation
  <2> QED BY <1>6, <2>1, <2>2, <2>3 DEF Lifecycle
<1>7. CASE Presence
  <2>1. ASSUME NEW x \in Rooms, StartUnscheduled(x)
        PROVE  RoomStep(r)
    <3>1. rooms' = [rooms EXCEPT ![x].started = TRUE]
      BY <2>1 DEF StartUnscheduled
    <3>2. CASE r = x
      <4>1. /\ rooms'[r].state = rooms[r].state
            /\ rooms'[r].occurrence = rooms[r].occurrence
        BY <3>1, <3>2 DEF TypeOK, Room
      <4> QED BY <2>1, <3>2, <4>1 DEF StartUnscheduled, Stored, RoomStep, Aired
    <3>3. CASE r # x
      BY <3>1, <3>3 DEF RoomStep, Unmoved, TypeOK
    <3> QED BY <3>2, <3>3
  <2>2. ASSUME NEW x \in Rooms, NcoSeen(x) \/ NcoAway(x) \/ EditRoom(x)
        PROVE  RoomStep(r)
    BY <1>1, <2>2 DEF NcoSeen, NcoAway, EditRoom
  <2> QED BY <1>7, <2>1, <2>2 DEF Presence
<1>8. CASE Create
  <2>1. ASSUME NEW c \in Creators, NEW x \in Rooms, CreateRoom(c, x)
        PROVE  RoomStep(r)
    <3>1. CASE UNCHANGED rooms
      BY <1>1, <3>1
    <3>2. CASE /\ rooms[x].state = "unused"
               /\ rooms' = [rooms EXCEPT ![x] = NewRoom(None, FALSE, FALSE)]
      <4>1. CASE r = x
        BY <3>2, <4>1 DEF RoomStep, Opening, NewRoom, TypeOK
      <4>2. CASE r # x
        BY <3>2, <4>2 DEF RoomStep, Unmoved, TypeOK
      <4> QED BY <4>1, <4>2
    <3> QED BY <2>1, <3>1, <3>2 DEF CreateRoom
  <2>2. ASSUME NEW c \in Creators, CreateCheck(c) \/ CreateEntry(c) \/ CreateLink(c)
        PROVE  RoomStep(r)
    BY <1>1, <2>2 DEF CreateCheck, CreateEntry, CreateLink
  <2> QED BY <1>8, <2>1, <2>2 DEF Create
<1>9. CASE Close
  <2>1. ASSUME NEW x, NEW t, NEW b,
               rooms' = [rooms EXCEPT ![x].closing = b, ![x].updatedAt = t]
        PROVE  RoomStep(r)
    <3>1. /\ rooms'[r].state = rooms[r].state
          /\ rooms'[r].occurrence = rooms[r].occurrence
          /\ rooms'[r].started = rooms[r].started
      BY <2>1 DEF TypeOK, Room
    <3> QED BY <3>1 DEF RoomStep, Unmoved
  <2>2. ASSUME NEW c \in Closers,
               \/ \E x \in Rooms : CloseClaim(c, x)
               \/ CloseReopen(c) \/ CloseRemove(c)
        PROVE  RoomStep(r)
    BY <1>1, <1>2, <2>1, <2>2 DEF CloseClaim, CloseReopen, CloseRemove
  <2>3. ASSUME NEW c \in Closers,
               \/ CloseRetain(c) \/ CloseComplete(c) \/ CloseClear(c)
               \/ CloseUnlink(c) \/ CloseFail(c)
        PROVE  RoomStep(r)
    BY <1>1, <2>3 DEF CloseRetain, CloseComplete, CloseClear, CloseUnlink, CloseFail
  <2> QED BY <1>9, <2>2, <2>3 DEF Close
<1>10. CASE Sweep
  <2>1. CASE SweepDelete
    BY <1>1, <1>2, <2>1 DEF SweepDelete
  <2>2. CASE ~SweepDelete
    BY <1>1, <1>10, <2>2
       DEF Sweep, SweepContinue, SweepReadRooms, SweepReadProfile, SweepReadOccurrence,
           SweepJudge, SweepDiscard, SweepUnlink, SweepReadRemaining, SweepOrphans,
           SweepReadDangling, SweepRepair
  <2> QED BY <2>1, <2>2
<1> QED
  BY <1>4, <1>5, <1>6, <1>7, <1>8, <1>9, <1>10 DEF Next

-----------------------------------------------------------------------------
(* Occurrences and rooms agree *)

\* No room is linked before it is stored: what keeps a new room from being
\* somebody else's.
LinkedRoomUsed ==
    \A o \in Occurrences, r \in Rooms :
        occurrences[o].liveNet = r => rooms[r].state # "unused"

AgreementInv == LinkIffEngaged /\ RoomMatchesOccurrence /\ LinkedRoomUsed

LEMMA LinkStep ==
    ASSUME TypeInv, LinkIffEngaged, [Next]_vars
    PROVE  LinkIffEngaged'
<1> SUFFICES ASSUME NEW o \in Occurrences
             PROVE  occurrences'[o].liveNet # None <=> occurrences'[o].status \in Engaged
  BY DEF LinkIffEngaged
<1>1. occurrences[o].liveNet # None <=> occurrences[o].status \in Engaged
  BY DEF LinkIffEngaged
<1>2. CASE Kept(o) \/ Cancelled(o) \/ Ended(o) \/ Unlinked(o)
  BY <1>1, <1>2 DEF Kept, Cancelled, Ended, Unlinked, Engaged
<1>3. ASSUME NEW r \in Rooms, NEW opening \in BOOLEAN, PrepareOccurrence(o, r, opening)
      PROVE  /\ occurrences'[o].liveNet = r
             /\ occurrences'[o].status \in Engaged
  BY <1>3 DEF PrepareOccurrence, TypeInv, TypeOK, Occurrence, Engaged
<1>4. CASE TransitionPreparedOccurrence(o)
  <2>1. occurrences'[o].status = "live" /\ occurrences'[o].liveNet = occurrences[o].liveNet
    BY <1>4 DEF TransitionPreparedOccurrence, TypeInv, TypeOK, Occurrence
  <2> QED BY <1>1, <1>4, <2>1 DEF TransitionPreparedOccurrence, CanTransition, Engaged
<1> QED
  BY <1>2, <1>3, <1>4, OccurrenceSteps, NoneAssumption DEF OccurrenceStep, Prepared

\* What is known of an occurrence that is linked to a room after the step.
LEMMA LinkedAfter ==
    ASSUME TypeInv, [Next]_vars,
           NEW o \in Occurrences, NEW r \in Rooms, occurrences'[o].liveNet = r
    PROVE  \/ Kept(o) \/ Cancelled(o) \/ TransitionPreparedOccurrence(o)
           \/ \E opening \in BOOLEAN : PrepareOccurrence(o, r, opening)
<1>1. ~Ended(o) /\ ~Unlinked(o)
  BY NoneAssumption DEF Ended, Unlinked
<1>2. ASSUME NEW x \in Rooms, NEW opening \in BOOLEAN, PrepareOccurrence(o, x, opening)
      PROVE  x = r
  BY <1>2 DEF PrepareOccurrence, TypeInv, TypeOK, Occurrence
<1> QED
  BY <1>1, <1>2, OccurrenceSteps DEF OccurrenceStep, Prepared

\* An occurrence that gets a room gets an unused one; one that has a room keeps it.
LEMMA LinkKept ==
    ASSUME TypeInv, [Next]_vars,
           NEW o \in Occurrences, NEW r \in Rooms, occurrences'[o].liveNet = r,
           ~ \E opening \in BOOLEAN : PrepareOccurrence(o, r, opening)
    PROVE  occurrences[o].liveNet = r
<1>1. CASE TransitionPreparedOccurrence(o)
  BY <1>1 DEF TransitionPreparedOccurrence, TypeInv, TypeOK, Occurrence
<1> QED
  BY <1>1, LinkedAfter DEF Kept, Cancelled

LEMMA UsedStep ==
    ASSUME TypeInv, LinkedRoomUsed, [Next]_vars
    PROVE  LinkedRoomUsed'
<1> SUFFICES ASSUME NEW o \in Occurrences, NEW r \in Rooms, occurrences'[o].liveNet = r
             PROVE  rooms'[r].state # "unused"
  BY DEF LinkedRoomUsed
<1>1. ASSUME NEW opening \in BOOLEAN, PrepareOccurrence(o, r, opening)
      PROVE  rooms'[r].state = "stored"
  BY <1>1 DEF PrepareOccurrence, NewRoom, TypeInv, TypeOK
<1>2. CASE occurrences[o].liveNet = r
  <2>1. rooms[r].state # "unused"
    BY <1>2 DEF LinkedRoomUsed
  <2>2. ASSUME NEW k \in Occurrences, TransitionPreparedOccurrence(k), r = occurrences[k].liveNet
        PROVE  rooms'[r].state = rooms[r].state
    BY <2>2 DEF TransitionPreparedOccurrence, TypeInv, TypeOK, Room
  <2> QED
    BY <2>1, <2>2, RoomSteps DEF RoomStep, Unmoved, Aired, Opening
<1> QED
  BY <1>1, <1>2, LinkKept

LEMMA MatchStep ==
    ASSUME TypeInv, AgreementInv, [Next]_vars
    PROVE  RoomMatchesOccurrence'
<1> SUFFICES ASSUME NEW o \in Occurrences,
                    occurrences'[o].liveNet # None, Stored(occurrences[o].liveNet)'
             PROVE  /\ rooms'[occurrences'[o].liveNet].occurrence = o
                    /\ rooms'[occurrences'[o].liveNet].started
                          <=> occurrences'[o].status = "live"
  BY DEF RoomMatchesOccurrence, Stored
<1> DEFINE r == occurrences'[o].liveNet
<1>1. r \in Rooms
  <2>1. TypeOK'
    BY TypeStep DEF TypeInv
  <2> QED BY <2>1 DEF TypeOK, Occurrence
<1>2. rooms'[r].state = "stored"
  BY DEF Stored
<1> HIDE DEF r
<1>3. CASE \E opening \in BOOLEAN : PrepareOccurrence(o, r, opening)
  <2> PICK opening \in BOOLEAN : PrepareOccurrence(o, r, opening)
    BY <1>3
  <2>1. rooms'[r] = NewRoom(o, opening, Due(o))
    BY <1>1 DEF PrepareOccurrence, TypeInv, TypeOK
  <2>2. rooms'[r].occurrence = o /\ (rooms'[r].started <=> Due(o))
    BY <2>1 DEF NewRoom
  <2>3. occurrences'[o].status = IF Due(o) THEN "live" ELSE "preparing"
    BY DEF PrepareOccurrence, TypeInv, TypeOK, Occurrence
  <2> QED BY <2>2, <2>3 DEF r
<1>4. CASE ~ \E opening \in BOOLEAN : PrepareOccurrence(o, r, opening)
  <2>1. occurrences[o].liveNet = r
    BY <1>1, <1>4, LinkKept DEF r
  <2>2. rooms[r].state # "unused"
    BY <1>1, <2>1 DEF AgreementInv, LinkedRoomUsed
  <2>3. Stored(r) => /\ rooms[r].occurrence = o
                     /\ rooms[r].started <=> occurrences[o].status = "live"
    BY <1>1, <2>1, NoneAssumption DEF AgreementInv, RoomMatchesOccurrence
  <2>4. CASE TransitionPreparedOccurrence(o)
    <3>1. rooms'[r].occurrence = rooms[r].occurrence /\ rooms'[r].started = TRUE
      BY <1>1, <2>1, <2>4 DEF TransitionPreparedOccurrence, TypeInv, TypeOK, Room
    <3>2. Stored(r) /\ occurrences'[o].status = "live"
      BY <2>1, <2>4
         DEF TransitionPreparedOccurrence, CanTransition, TypeInv, TypeOK, Occurrence
    <3> QED BY <2>3, <3>1, <3>2 DEF r
  <2>5. CASE Kept(o) \/ Cancelled(o)
    <3>1. occurrences'[o].status = "live" <=> occurrences[o].status = "live"
      BY <2>5 DEF Kept, Cancelled
    <3>2. Unmoved(r)
      <4>1. ASSUME NEW k \in Occurrences, TransitionPreparedOccurrence(k),
                   r = occurrences[k].liveNet
            PROVE  FALSE
        <5>1. rooms[r].occurrence = k /\ Stored(r)
          BY <4>1 DEF TransitionPreparedOccurrence, CanTransition
        <5>2. k = o
          BY <2>3, <5>1
        <5>3. occurrences[o].status = "preparing" /\ occurrences'[o].status = "live"
          BY <4>1, <5>2
             DEF TransitionPreparedOccurrence, CanTransition, TypeInv, TypeOK, Occurrence
        <5> QED BY <2>5, <5>3 DEF Kept, Cancelled
      <4>2. ~Aired(r)
        BY <2>3, NoneAssumption DEF Aired
      <4>3. ~Opening(r) /\ rooms'[r].state # "deleted"
        BY <1>2, <2>2 DEF Opening
      <4> QED BY <1>1, <4>1, <4>2, <4>3, RoomSteps DEF RoomStep
    <3>3. Stored(r)
      BY <1>2, <3>2 DEF Unmoved, Stored
    <3> QED BY <2>3, <3>1, <3>2, <3>3 DEF Unmoved, r
  <2> QED BY <1>1, <1>4, <2>4, <2>5, LinkedAfter DEF r
<1> QED BY <1>3, <1>4

LEMMA AgreementInvariant == Spec => []AgreementInv
<1>1. Init => AgreementInv
  <2> SUFFICES ASSUME Init PROVE AgreementInv
    OBVIOUS
  <2>1. \A o \in Occurrences :
           occurrences[o].liveNet = None /\ occurrences[o].status = "scheduled"
    BY DEF Init
  <2> QED
    BY <2>1, NoneAssumption
       DEF AgreementInv, LinkIffEngaged, RoomMatchesOccurrence, LinkedRoomUsed, Engaged
<1>2. TypeInv /\ AgreementInv /\ [Next]_vars => AgreementInv'
  BY LinkStep, MatchStep, UsedStep DEF AgreementInv
<1> QED
  BY <1>1, <1>2, TypeInvariant, PTL DEF Spec

(* At every step of every call, an occurrence has a room exactly while it is
   preparing or live: no interleaving of lifecycle.js, closeNet and the
   integrity sweep leaves a finished one linked or an engaged one without. *)
THEOREM LinksFollowStatus == Spec => []LinkIffEngaged
BY AgreementInvariant, PTL DEF AgreementInv

(* The room of an engaged occurrence is its own and is on the air exactly when
   it is live, as occurrenceCompatible and cleanPreparation test. *)
THEOREM RoomsFollowOccurrences == Spec => []RoomMatchesOccurrence
BY AgreementInvariant, PTL DEF AgreementInv

-----------------------------------------------------------------------------
(* The moves of the statuses *)

\* A step writes at most one occurrence.
LEMMA OneOccurrence ==
    ASSUME TypeInv, [Next]_vars
    PROVE  \/ UNCHANGED occurrences
           \/ \E k \in Occurrences :
                 \A o \in Occurrences \ {k} : occurrences'[o] = occurrences[o]
<1> DEFINE Only(k) == \A o \in Occurrences \ {k} : occurrences'[o] = occurrences[o]
<1> USE DEF TypeInv
<1>1. CASE Tick \/ Crash \/ Presence \/ Create \/ UNCHANGED vars
  BY <1>1
     DEF Tick, Crash, Presence, NcoSeen, NcoAway, StartUnscheduled, EditRoom, vars,
         Create, CreateCheck, CreateRoom, CreateEntry, CreateLink
<1>2. ASSUME NEW k \in Occurrences, NEW final, CleanPreparation(k, final)
      PROVE  Only(k)
  BY <1>2 DEF CleanPreparation, TypeOK
<1>3. ASSUME NEW k \in Occurrences, NEW r, NEW status, Release(k, r, status)
      PROVE  Only(k)
  <2>1. CASE occurrences[k].liveNet = r /\ occurrences[k].status = status
    <3> DEFINE S == CASE status = "live" -> "completed"
                      [] status = "preparing" ->
                           IF occurrences[k].startAt + Grace <= worker.at
                           THEN "missed" ELSE "scheduled"
                      [] OTHER -> status
    <3>1. occurrences' = [occurrences EXCEPT ![k].liveNet = None, ![k].status = S]
      BY <1>3, <2>1 DEF Release
    <3> HIDE DEF S
    <3> QED BY <3>1 DEF TypeOK
  <2>2. CASE ~(occurrences[k].liveNet = r /\ occurrences[k].status = status)
    BY <1>3, <2>2 DEF Release
  <2> QED BY <2>1, <2>2
<1>4. CASE Owner
  <2> PICK k \in Occurrences :
             \/ \E t \in StartTimes : UpdateOccurrence(k, t)
             \/ CancelOccurrence(k)
             \/ CancelPreparation(k)
             \/ \E r \in Rooms, opening \in BOOLEAN : PrepareOccurrence(k, r, opening)
    BY <1>4 DEF Owner
  <2>1. Only(k)
    BY <1>2 DEF UpdateOccurrence, CancelOccurrence, CancelPreparation, PrepareOccurrence,
                TypeOK
  <2> QED BY <2>1
<1>5. CASE Lifecycle
  <2>1. ASSUME NEW k \in Occurrences,
               TransitionPreparedOccurrence(k) \/ MissUnprepared(k) \/ ExpireDecide(k)
        PROVE  Only(k)
    BY <1>2, <2>1 DEF TransitionPreparedOccurrence, MissUnprepared, ExpireDecide, TypeOK
  <2>2. CASE ExpirePreparation
    <3>1. worker.target \in Occurrences
      BY <2>2 DEF ExpirePreparation, TypeOK, Worker, BusyIsBound
    <3>2. Only(worker.target)
      BY <1>2, <2>2, <3>1 DEF ExpirePreparation
    <3> QED BY <3>1, <3>2
  <2> QED BY <1>5, <2>1, <2>2 DEF Lifecycle
<1>6. CASE Close
  <2>1. ASSUME NEW c \in Closers, CloseComplete(c)
        PROVE  \/ UNCHANGED occurrences
               \/ \E k \in Occurrences : Only(k)
    <3> DEFINE k == rooms[closers[c].room].occurrence
    <3>1. CASE UNCHANGED occurrences
      BY <3>1
    <3>2. CASE occurrences' = [occurrences EXCEPT ![k].status = "completed",
                                                  ![k].liveNet = None]
      <4>1. CASE k \in Occurrences
        BY <3>2, <4>1 DEF TypeOK
      <4>2. CASE k \notin Occurrences
        BY <3>2, <4>2 DEF TypeOK
      <4> QED BY <4>1, <4>2
    <3> QED BY <2>1, <3>1, <3>2 DEF CloseComplete
  <2>2. CASE \E c \in Closers :
               \/ \E r \in Rooms : CloseClaim(c, r)
               \/ CloseRetain(c) \/ CloseReopen(c) \/ CloseClear(c)
               \/ CloseRemove(c) \/ CloseUnlink(c) \/ CloseFail(c)
    BY <2>2
       DEF CloseClaim, CloseRetain, CloseReopen, CloseClear, CloseRemove, CloseUnlink,
           CloseFail
  <2> QED BY <1>6, <2>1, <2>2 DEF Close
<1>7. CASE Sweep
  <2>1. CASE SweepUnlink
    <3>1. worker.target \in Occurrences \cup {None}
      BY DEF TypeOK, Worker
    <3> QED BY <1>3, <2>1, <3>1 DEF SweepUnlink
  <2>2. CASE SweepRepair
    <3>1. ASSUME NEW d \in worker.dangling, Release(d[1], d[2], d[3])
          PROVE  d[1] \in Occurrences /\ Only(d[1])
      <4>1. d[1] \in Occurrences
        BY DEF TypeOK, Worker
      <4> QED BY <1>3, <3>1, <4>1
    <3> QED BY <2>2, <3>1 DEF SweepRepair
  <2>3. CASE ~SweepUnlink /\ ~SweepRepair
    BY <1>7, <2>3
       DEF Sweep, SweepContinue, SweepReadRooms, SweepReadProfile, SweepReadOccurrence,
           SweepJudge, SweepDelete, SweepDiscard, SweepReadRemaining, SweepOrphans,
           SweepReadDangling
  <2> QED BY <2>1, <2>2, <2>3
<1> QED
  BY <1>1, <1>4, <1>5, <1>6, <1>7 DEF Next

LEMMA MoveStep ==
    ASSUME TypeInv, [Next]_vars, NEW o \in Occurrences
    PROVE  \/ occurrences'[o].status = occurrences[o].status
           \/ <<occurrences[o].status, occurrences'[o].status>> \in Abstract!Moves
<1>1. CASE Kept(o) \/ Cancelled(o) \/ Ended(o) \/ Unlinked(o)
  BY <1>1 DEF Kept, Cancelled, Ended, Unlinked, Abstract!Moves
<1>2. CASE Prepared(o)
  <2> PICK r \in Rooms, opening \in BOOLEAN : PrepareOccurrence(o, r, opening)
    BY <1>2 DEF Prepared
  <2>1. /\ occurrences[o].status = "scheduled"
        /\ occurrences'[o].status \in {"live", "preparing"}
    BY DEF PrepareOccurrence, TypeInv, TypeOK, Occurrence
  <2> QED BY <2>1 DEF Abstract!Moves
<1>3. CASE TransitionPreparedOccurrence(o)
  <2>1. occurrences[o].status = "preparing" /\ occurrences'[o].status = "live"
    BY <1>3 DEF TransitionPreparedOccurrence, CanTransition, TypeInv, TypeOK, Occurrence
  <2> QED BY <2>1 DEF Abstract!Moves
<1> QED
  BY <1>1, <1>2, <1>3, OccurrenceSteps DEF OccurrenceStep

LEMMA AbstractStep ==
    ASSUME TypeInv, [Next]_vars
    PROVE  [Abstract!Next]_StatusOf
<1>1. TypeOK'
  BY TypeStep
<1>2. CASE \A o \in Occurrences : occurrences'[o].status = occurrences[o].status
  BY <1>2 DEF StatusOf
<1>3. ASSUME NEW k \in Occurrences, occurrences'[k].status # occurrences[k].status
      PROVE  Abstract!Next
  <2>1. \A o \in Occurrences \ {k} : occurrences'[o].status = occurrences[o].status
    BY <1>3, OneOccurrence
  <2>2. <<StatusOf[k], occurrences'[k].status>> \in Abstract!Moves
    BY <1>3, MoveStep DEF StatusOf
  <2>3. StatusOf' = [StatusOf EXCEPT ![k] = occurrences'[k].status]
    BY <2>1 DEF StatusOf
  <2>4. occurrences'[k].status \in Abstract!Statuses
    BY <1>1 DEF TypeOK, Occurrence, Abstract!Statuses
  <2> QED BY <2>2, <2>3, <2>4 DEF Abstract!Next, Abstract!Move
<1> QED BY <1>2, <1>3

(* Whatever the calls and the worker do at once, every status makes only the
   moves the scheduling subsystem promises: nothing leaves completed, missed
   or cancelled, and an aired occurrence is neither missed nor rescheduled. *)
THEOREM StatusRefinement == Spec => ImplementsOccurrenceStatus
<1>1. Init => Abstract!Init
  BY DEF Init, Abstract!Init, StatusOf
<1>2. TypeInv /\ [Next]_vars => [Abstract!Next]_StatusOf
  BY AbstractStep
<1> QED
  BY <1>1, <1>2, TypeInvariant, PTL DEF Spec, ImplementsOccurrenceStatus, Abstract!Spec

-----------------------------------------------------------------------------
(* closeNet *)

\* What a step may do to one call of closeNet.
Past == {"retained", "completed", "cleared", "removed"}

Advanced(c) ==
    /\ closers[c].pc # "idle"
    /\ closers'[c].room = closers[c].room
    /\ closers'[c].pc \in Past
    /\ closers[c].pc \in Past \/ closers[c].room \in retained'

CloserStep(c) ==
    \/ closers'[c] = closers[c]
    \/ closers'[c].pc = "idle"
    \/ Advanced(c)
    \/ \E r \in Rooms : CloseClaim(c, r) /\ closers'[c] = [pc |-> "claimed", room |-> r]

LEMMA CloserSteps ==
    ASSUME TypeInv, [Next]_vars, NEW c \in Closers
    PROVE  CloserStep(c)
<1> USE DEF TypeInv
<1>1. CASE UNCHANGED closers
  BY <1>1 DEF CloserStep
<1>2. CASE Tick \/ Owner \/ Lifecycle \/ Presence \/ UNCHANGED vars
  BY <1>1, <1>2
     DEF Tick, Owner, UpdateOccurrence, CancelOccurrence, CancelPreparation,
         PrepareOccurrence, Lifecycle, TransitionPreparedOccurrence, MissUnprepared,
         ExpireDecide, ExpirePreparation, Presence, NcoSeen, NcoAway, StartUnscheduled,
         EditRoom, vars
<1>3. CASE Create \/ Sweep
  BY <1>1, <1>3
     DEF Create, CreateCheck, CreateRoom, CreateEntry, CreateLink, Sweep, SweepContinue,
         SweepReadRooms, SweepReadProfile, SweepReadOccurrence, SweepJudge, SweepDelete,
         SweepDiscard, SweepUnlink, SweepReadRemaining, SweepOrphans, SweepReadDangling,
         SweepRepair
<1>4. CASE Crash
  BY <1>4 DEF Crash, IdleCall, CloserStep
<1>5. CASE Close
  <2> PICK d \in Closers :
             \/ \E r \in Rooms : CloseClaim(d, r)
             \/ CloseRetain(d) \/ CloseReopen(d) \/ CloseComplete(d)
             \/ CloseClear(d) \/ CloseRemove(d) \/ CloseUnlink(d)
             \/ CloseFail(d)
    BY <1>5 DEF Close
  <2>1. closers \in [Closers -> CloseCall]
    BY DEF TypeOK
  <2>2. CASE c # d
    BY <2>1, <2>2
       DEF CloserStep, CloseClaim, CloseRetain, CloseReopen, CloseComplete, CloseClear,
           CloseRemove, CloseUnlink, CloseFail, CloseStep
  <2>3. CASE c = d
    <3>1. CASE \E r \in Rooms : CloseClaim(d, r)
      BY <2>1, <2>3, <3>1 DEF CloserStep, CloseClaim
    <3>2. CASE CloseReopen(d) \/ CloseUnlink(d) \/ CloseFail(d)
      BY <2>1, <2>3, <3>2 DEF CloserStep, CloseReopen, CloseUnlink, CloseFail, IdleCall
    <3>3. CASE CloseRetain(d)
      BY <2>1, <2>3, <3>3 DEF CloserStep, CloseRetain, CloseStep, Advanced, Past, CloseCall
    <3>4. CASE CloseComplete(d) \/ CloseClear(d) \/ CloseRemove(d)
      BY <2>1, <2>3, <3>4
         DEF CloserStep, CloseComplete, CloseClear, CloseRemove, CloseStep, Advanced, Past,
             CloseCall
    <3> QED BY <3>1, <3>2, <3>3, <3>4
  <2> QED BY <2>2, <2>3
<1> QED
  BY <1>2, <1>3, <1>4, <1>5 DEF Next

\* Who may delete a stored room.
LEMMA RemovalSteps ==
    ASSUME TypeInv, [Next]_vars, NEW r \in Rooms, Stored(r), rooms'[r].state = "deleted"
    PROVE  \/ \E k \in Occurrences : Cleanable(k) /\ occurrences[k].liveNet = r
           \/ \E c \in Closers : closers[c].pc = "cleared" /\ closers[c].room = r
           \/ worker.pc = "delete"
<1> USE DEF TypeInv
<1>1. ~UNCHANGED rooms
  BY DEF Stored
<1>2. ASSUME NEW k \in Occurrences, NEW final, CleanPreparation(k, final)
      PROVE  occurrences[k].liveNet = r
  BY <1>1, <1>2 DEF CleanPreparation, Stored, TypeOK
<1>3. ~(Tick \/ Crash \/ UNCHANGED vars)
  BY <1>1 DEF Tick, Crash, vars
<1>4. CASE Owner
  <2>1. ASSUME NEW k \in Occurrences, CancelPreparation(k)
        PROVE  Cleanable(k) /\ occurrences[k].liveNet = r
    BY <1>2, <2>1 DEF CancelPreparation
  <2>2. ASSUME NEW k \in Occurrences, NEW x \in Rooms, NEW opening \in BOOLEAN,
               PrepareOccurrence(k, x, opening)
        PROVE  FALSE
    BY <2>2 DEF PrepareOccurrence, NewRoom, Stored, StoredRooms, TypeOK
  <2>3. ASSUME NEW k \in Occurrences,
               (\E t \in StartTimes : UpdateOccurrence(k, t)) \/ CancelOccurrence(k)
        PROVE  FALSE
    BY <1>1, <2>3 DEF UpdateOccurrence, CancelOccurrence
  <2> QED BY <1>4, <2>1, <2>2, <2>3 DEF Owner
<1>5. CASE Lifecycle
  <2>1. ASSUME NEW k \in Occurrences, TransitionPreparedOccurrence(k)
        PROVE  FALSE
    <3>1. rooms'[r].state = rooms[r].state
      BY <2>1 DEF TransitionPreparedOccurrence, TypeOK, Room
    <3> QED BY <3>1 DEF Stored
  <2>2. ASSUME NEW k \in Occurrences, MissUnprepared(k) \/ ExpireDecide(k)
        PROVE  Cleanable(k) /\ occurrences[k].liveNet = r
    BY <1>1, <1>2, <2>2 DEF MissUnprepared, ExpireDecide
  <2>3. CASE ExpirePreparation
    <3>1. worker.target \in Occurrences
      BY <2>3 DEF ExpirePreparation, TypeOK, Worker, BusyIsBound
    <3>2. Cleanable(worker.target) /\ occurrences[worker.target].liveNet = r
      BY <1>1, <1>2, <2>3, <3>1 DEF ExpirePreparation
    <3> QED BY <3>1, <3>2
  <2> QED BY <1>5, <2>1, <2>2, <2>3 DEF Lifecycle
<1>6. CASE Presence
  <2>1. ASSUME NEW x \in Rooms, StartUnscheduled(x)
        PROVE  FALSE
    <3>1. rooms'[r].state = rooms[r].state
      BY <2>1 DEF StartUnscheduled, TypeOK, Room
    <3> QED BY <3>1 DEF Stored
  <2>2. ASSUME NEW x \in Rooms, NcoSeen(x) \/ NcoAway(x) \/ EditRoom(x)
        PROVE  FALSE
    BY <1>1, <2>2 DEF NcoSeen, NcoAway, EditRoom
  <2> QED BY <1>6, <2>1, <2>2 DEF Presence
<1>7. CASE Create
  <2>1. ASSUME NEW c \in Creators, NEW x \in Rooms, CreateRoom(c, x)
        PROVE  FALSE
    BY <1>1, <2>1 DEF CreateRoom, NewRoom, Stored, StoredRooms, TypeOK
  <2>2. ASSUME NEW c \in Creators, CreateCheck(c) \/ CreateEntry(c) \/ CreateLink(c)
        PROVE  FALSE
    BY <1>1, <2>2 DEF CreateCheck, CreateEntry, CreateLink
  <2> QED BY <1>7, <2>1, <2>2 DEF Create
<1>8. CASE Close
  <2>1. ASSUME NEW c \in Closers, CloseRemove(c)
        PROVE  closers[c].pc = "cleared" /\ closers[c].room = r
    BY <2>1 DEF CloseRemove, CloseStep, Stored, TypeOK
  <2>2. ASSUME NEW x, NEW t, NEW b,
               rooms' = [rooms EXCEPT ![x].closing = b, ![x].updatedAt = t]
        PROVE  FALSE
    <3>1. rooms'[r].state = rooms[r].state
      BY <2>2 DEF TypeOK, Room
    <3> QED BY <3>1 DEF Stored
  <2>3. ASSUME NEW c \in Closers,
               \/ \E x \in Rooms : CloseClaim(c, x)
               \/ CloseRetain(c) \/ CloseReopen(c) \/ CloseComplete(c)
               \/ CloseClear(c) \/ CloseUnlink(c) \/ CloseFail(c)
        PROVE  FALSE
    BY <1>1, <2>2, <2>3
       DEF CloseClaim, CloseRetain, CloseReopen, CloseComplete, CloseClear, CloseUnlink,
           CloseFail
  <2> QED BY <1>8, <2>1, <2>3 DEF Close
<1>9. CASE Sweep
  BY <1>1, <1>9
     DEF Sweep, SweepContinue, SweepReadRooms, SweepReadProfile, SweepReadOccurrence,
         SweepJudge, SweepDelete, SweepDiscard, SweepUnlink, SweepReadRemaining,
         SweepOrphans, SweepReadDangling, SweepRepair
<1> QED
  BY <1>3, <1>4, <1>5, <1>6, <1>7, <1>8, <1>9 DEF Next

LEMMA RetainedGrows ==
    ASSUME TypeInv, [Next]_vars
    PROVE  retained \subseteq retained'
<1> USE DEF TypeInv
<1>1. ASSUME NEW k, NEW final, CleanPreparation(k, final)
      PROVE  retained \subseteq retained'
  BY <1>1 DEF CleanPreparation
<1>2. CASE Owner \/ Lifecycle
  BY <1>1, <1>2
     DEF Owner, UpdateOccurrence, CancelOccurrence, CancelPreparation, PrepareOccurrence,
         Lifecycle, TransitionPreparedOccurrence, MissUnprepared, ExpireDecide,
         ExpirePreparation
<1>3. CASE Close
  BY <1>3
     DEF Close, CloseClaim, CloseRetain, CloseReopen, CloseComplete, CloseClear,
         CloseRemove, CloseUnlink, CloseFail
<1>4. CASE Tick \/ Crash \/ Presence \/ Create \/ UNCHANGED vars
  BY <1>4
     DEF Tick, Crash, Presence, NcoSeen, NcoAway, StartUnscheduled, EditRoom, Create,
         CreateCheck, CreateRoom, CreateEntry, CreateLink, vars
<1>5. CASE Sweep
  BY <1>5
     DEF Sweep, SweepContinue, SweepReadRooms, SweepReadProfile, SweepReadOccurrence,
         SweepJudge, SweepDelete, SweepDiscard, SweepUnlink, SweepReadRemaining,
         SweepOrphans, SweepReadDangling, SweepRepair
<1> QED
  BY <1>2, <1>3, <1>4, <1>5 DEF Next

\* A close that goes on after its claim has queued its job first.
RetainedFirst ==
    \A c \in Closers : closers[c].pc \in Past => closers[c].room \in retained

LEMMA RetainedInvariant == Spec => []RetainedFirst
<1>1. Init => RetainedFirst
  BY DEF Init, RetainedFirst, Past, IdleCall
<1>2. TypeInv /\ RetainedFirst /\ [Next]_vars => RetainedFirst'
  <2> SUFFICES ASSUME TypeInv, RetainedFirst, [Next]_vars,
                      NEW c \in Closers, closers'[c].pc \in Past
               PROVE  closers'[c].room \in retained'
    BY DEF RetainedFirst
  <2>1. CloserStep(c) /\ retained \subseteq retained'
    BY CloserSteps, RetainedGrows
  <2>2. CASE closers'[c] = closers[c]
    BY <2>1, <2>2 DEF RetainedFirst
  <2>3. CASE Advanced(c)
    BY <2>1, <2>3 DEF RetainedFirst, Advanced
  <2>4. closers'[c].pc # "idle"
    BY DEF Past
  <2>5. CASE \E r \in Rooms : /\ CloseClaim(c, r)
                              /\ closers'[c] = [pc |-> "claimed", room |-> r]
    BY <2>5 DEF Past
  <2> QED
    BY <2>1, <2>2, <2>3, <2>4, <2>5 DEF CloserStep
<1> QED
  BY <1>1, <1>2, TypeInvariant, PTL DEF Spec

(* A net that has been on the air is never destroyed before its chat and its
   report have a durable job, whichever of the concurrent calls destroys it and
   wherever it was interrupted; the integrity sweep alone does not wait. *)
THEOREM AiredNetsRetained == Spec => AiredRoomRetained
<1>1. TypeInv /\ RetainedFirst /\ [Next]_vars
      => [\A r \in Rooms :
            /\ Stored(r) /\ rooms[r].started /\ rooms'[r].state = "deleted"
            /\ worker.pc # "delete"
            => r \in retained]_vars
  <2> SUFFICES ASSUME TypeInv, RetainedFirst, [Next]_vars,
                      NEW r \in Rooms, Stored(r), rooms[r].started,
                      rooms'[r].state = "deleted", worker.pc # "delete"
               PROVE  r \in retained
    OBVIOUS
  <2>1. ASSUME NEW k \in Occurrences, Cleanable(k), occurrences[k].liveNet = r
        PROVE  FALSE
    BY <2>1, NoneAssumption DEF Cleanable
  <2>2. ASSUME NEW c \in Closers, closers[c].pc = "cleared", closers[c].room = r
        PROVE  r \in retained
    BY <2>2 DEF RetainedFirst, Past
  <2> QED BY <2>1, <2>2, RemovalSteps
<1> QED
  BY <1>1, TypeInvariant, RetainedInvariant, PTL DEF Spec, AiredRoomRetained

-----------------------------------------------------------------------------
(* One closeNet at a time holds a room: the room stays closing, or is gone,
   for as long as a call is past its claim. *)

Claimed(c) ==
    LET r == closers[c].room IN
    rooms[r].state # "unused" /\ (Stored(r) => rooms[r].closing)

ClaimHeld == \A c \in Closers : closers[c].pc # "idle" => Claimed(c)

\* A closing room stays so until it is removed, unless its own call gives up.
Reopened(r) ==
    \E c \in Closers :
        closers[c].pc = "claimed" /\ closers[c].room = r /\ closers'[c].pc = "idle"

StillClosing(r) ==
    rooms'[r].state # "unused" /\ (rooms'[r].state = "stored" => rooms'[r].closing)

LEMMA ClosingSteps ==
    ASSUME TypeInv, [Next]_vars, NEW r \in Rooms,
           rooms[r].state # "unused", Stored(r) => rooms[r].closing
    PROVE  StillClosing(r) \/ Reopened(r)
<1> USE DEF TypeInv
<1>1. ASSUME rooms' = rooms
      PROVE  StillClosing(r)
  BY <1>1 DEF StillClosing, Stored
<1>2. ASSUME NEW x \in Rooms, rooms' = [rooms EXCEPT ![x] = Removed(@)]
      PROVE  StillClosing(r)
  BY <1>2 DEF Removed, UnusedRoom, StillClosing, Stored, TypeOK
<1>3. ASSUME NEW x \in Rooms, rooms' = [rooms EXCEPT ![x].started = TRUE]
      PROVE  StillClosing(r)
  <2>1. rooms'[r].state = rooms[r].state /\ rooms'[r].closing = rooms[r].closing
    BY <1>3 DEF TypeOK, Room
  <2> QED BY <2>1 DEF StillClosing, Stored
<1>4. ASSUME NEW k \in Occurrences, NEW final, CleanPreparation(k, final)
      PROVE  StillClosing(r)
  <2>1. occurrences[k].liveNet \in Rooms \cup {None}
    BY DEF TypeOK, Occurrence
  <2>2. CASE occurrences[k].liveNet = None
    BY <1>1, <1>4, <2>2 DEF CleanPreparation
  <2>3. CASE occurrences[k].liveNet \in Rooms
    BY <1>2, <1>4, <2>3, NoneAssumption DEF CleanPreparation
  <2> QED BY <2>1, <2>2, <2>3
<1>5. CASE Tick \/ Crash \/ UNCHANGED vars
  BY <1>1, <1>5 DEF Tick, Crash, vars
<1>6. CASE Owner
  <2>1. ASSUME NEW k \in Occurrences, NEW x \in Rooms, NEW opening \in BOOLEAN,
               PrepareOccurrence(k, x, opening)
        PROVE  StillClosing(r)
    BY <2>1 DEF PrepareOccurrence, StillClosing, Stored, TypeOK
  <2>2. ASSUME NEW k \in Occurrences,
               \/ \E t \in StartTimes : UpdateOccurrence(k, t)
               \/ CancelOccurrence(k) \/ CancelPreparation(k)
        PROVE  StillClosing(r)
    BY <1>1, <1>4, <2>2 DEF UpdateOccurrence, CancelOccurrence, CancelPreparation
  <2> QED BY <1>6, <2>1, <2>2 DEF Owner
<1>7. CASE Lifecycle
  <2>1. ASSUME NEW k \in Occurrences, TransitionPreparedOccurrence(k)
        PROVE  StillClosing(r)
    BY <1>3, <2>1, NoneAssumption
       DEF TransitionPreparedOccurrence, CanTransition, TypeOK, Occurrence
  <2>2. ASSUME NEW k \in Occurrences, MissUnprepared(k) \/ ExpireDecide(k)
        PROVE  StillClosing(r)
    BY <1>1, <1>4, <2>2 DEF MissUnprepared, ExpireDecide
  <2>3. CASE ExpirePreparation
    BY <1>1, <1>4, <2>3 DEF ExpirePreparation, TypeOK, Worker, BusyIsBound
  <2> QED BY <1>7, <2>1, <2>2, <2>3 DEF Lifecycle
<1>8. CASE Presence
  BY <1>1, <1>3, <1>8 DEF Presence, NcoSeen, NcoAway, StartUnscheduled, EditRoom
<1>9. CASE Create
  <2>1. ASSUME NEW c \in Creators, NEW x \in Rooms, CreateRoom(c, x)
        PROVE  StillClosing(r)
    BY <1>1, <2>1 DEF CreateRoom, StillClosing, Stored, TypeOK
  <2>2. ASSUME NEW c \in Creators, CreateCheck(c) \/ CreateEntry(c) \/ CreateLink(c)
        PROVE  StillClosing(r)
    BY <1>1, <2>2 DEF CreateCheck, CreateEntry, CreateLink
  <2> QED BY <1>9, <2>1, <2>2 DEF Create
<1>10. CASE Close
  <2>1. ASSUME NEW c \in Closers, NEW x \in Rooms, CloseClaim(c, x)
        PROVE  StillClosing(r)
    <3>1. rooms'[r].state = rooms[r].state /\ (x = r => rooms'[r].closing)
          /\ (x # r => rooms'[r] = rooms[r])
      BY <2>1 DEF CloseClaim, TypeOK, Room
    <3> QED BY <3>1 DEF StillClosing, Stored
  <2>2. ASSUME NEW c \in Closers, CloseReopen(c)
        PROVE  StillClosing(r) \/ Reopened(r)
    <3>1. CASE closers[c].room = r
      BY <2>2, <3>1 DEF CloseReopen, Reopened, IdleCall, TypeOK
    <3>2. CASE closers[c].room # r
      <4>1. rooms'[r] = rooms[r]
        BY <2>2, <3>2 DEF CloseReopen, TypeOK
      <4> QED BY <4>1 DEF StillClosing, Stored
    <3> QED BY <3>1, <3>2
  <2>3. ASSUME NEW c \in Closers, CloseRemove(c)
        PROVE  StillClosing(r)
    BY <2>3 DEF CloseRemove, StillClosing, Stored, Removed, UnusedRoom, TypeOK
  <2>4. ASSUME NEW c \in Closers,
               \/ CloseRetain(c) \/ CloseComplete(c) \/ CloseClear(c)
               \/ CloseUnlink(c) \/ CloseFail(c)
        PROVE  StillClosing(r)
    BY <1>1, <2>4 DEF CloseRetain, CloseComplete, CloseClear, CloseUnlink, CloseFail
  <2> QED BY <1>10, <2>1, <2>2, <2>3, <2>4 DEF Close
<1>11. CASE Sweep
  <2>1. CASE SweepDelete
    BY <1>1, <2>1 DEF SweepDelete, StillClosing, Stored, Removed, UnusedRoom, TypeOK
  <2>2. CASE ~SweepDelete
    BY <1>1, <1>11, <2>2
       DEF Sweep, SweepContinue, SweepReadRooms, SweepReadProfile, SweepReadOccurrence,
           SweepJudge, SweepDiscard, SweepUnlink, SweepReadRemaining, SweepOrphans,
           SweepReadDangling, SweepRepair
  <2> QED BY <2>1, <2>2
<1> QED
  BY <1>5, <1>6, <1>7, <1>8, <1>9, <1>10, <1>11 DEF Next

\* What a call past its claim did in this step: nothing or its next write, or
\* it has just claimed a room that nobody held.
LEMMA HoldingSteps ==
    ASSUME TypeInv, [Next]_vars, NEW c \in Closers, closers'[c].pc # "idle"
    PROVE  \/ /\ closers[c].pc # "idle"
              /\ closers'[c].room = closers[c].room
           \/ \E r \in Rooms :
                 /\ CloseClaim(c, r)
                 /\ closers'[c].room = r
<1>1. CloserStep(c)
  BY CloserSteps
<1>2. CASE closers'[c] = closers[c]
  BY <1>2
<1>3. CASE Advanced(c)
  BY <1>3 DEF Advanced
<1>4. CASE \E r \in Rooms : CloseClaim(c, r) /\ closers'[c] = [pc |-> "claimed", room |-> r]
  BY <1>4
<1> QED
  BY <1>1, <1>2, <1>3, <1>4 DEF CloserStep

LEMMA ClaimInvariant == Spec => [](ClaimHeld /\ ClosersExclusive)
<1>1. Init => ClaimHeld /\ ClosersExclusive
  BY DEF Init, ClaimHeld, ClosersExclusive, IdleCall
<1>2. TypeInv /\ ClaimHeld /\ ClosersExclusive /\ [Next]_vars => ClaimHeld'
  <2> SUFFICES ASSUME TypeInv, ClaimHeld, ClosersExclusive, [Next]_vars,
                      NEW c \in Closers, closers'[c].pc # "idle"
               PROVE  StillClosing(closers'[c].room)
    BY DEF ClaimHeld, Claimed, StillClosing, Stored
  <2>1. CASE closers[c].pc # "idle" /\ closers'[c].room = closers[c].room
    <3>1. closers[c].room \in Rooms
      BY <2>1 DEF TypeInv, BusyIsBound, TypeOK, CloseCall
    <3>2. StillClosing(closers[c].room) \/ Reopened(closers[c].room)
      BY <2>1, <3>1, ClosingSteps DEF ClaimHeld, Claimed
    <3>3. ~Reopened(closers[c].room)
      BY <2>1 DEF Reopened, ClosersExclusive
    <3> QED BY <2>1, <3>2, <3>3
  <2>2. ASSUME NEW r \in Rooms, CloseClaim(c, r), closers'[c].room = r
        PROVE  StillClosing(closers'[c].room)
    <3>1. rooms'[r].state = rooms[r].state /\ rooms'[r].closing
      BY <2>2 DEF CloseClaim, TypeInv, TypeOK, Room
    <3> QED BY <2>2, <3>1 DEF CloseClaim, Stored, StillClosing
  <2> QED BY <2>1, <2>2, HoldingSteps
<1>3. TypeInv /\ ClaimHeld /\ ClosersExclusive /\ [Next]_vars => ClosersExclusive'
  <2> SUFFICES ASSUME TypeInv, ClaimHeld, ClosersExclusive, [Next]_vars,
                      NEW c \in Closers, NEW d \in Closers,
                      closers'[c].pc # "idle", closers'[d].pc # "idle",
                      closers'[c].room = closers'[d].room, c # d
               PROVE  FALSE
    BY DEF ClosersExclusive
  <2>1. ASSUME NEW x \in Closers, NEW y \in Closers, x # y, NEW r \in Rooms,
               CloseClaim(x, r), closers'[x].room = r,
               closers'[y].pc # "idle", closers'[y].room = r
        PROVE  FALSE
    <3>1. closers'[y] = closers[y]
      BY <2>1 DEF CloseClaim, TypeInv, TypeOK
    <3>2. Stored(r) => rooms[r].closing
      BY <2>1, <3>1 DEF ClaimHeld, Claimed
    <3> QED BY <2>1, <3>2 DEF CloseClaim
  <2>2. CASE /\ closers[c].pc # "idle" /\ closers'[c].room = closers[c].room
             /\ closers[d].pc # "idle" /\ closers'[d].room = closers[d].room
    BY <2>2 DEF ClosersExclusive
  <2>3. ASSUME NEW r \in Rooms, CloseClaim(c, r), closers'[c].room = r
        PROVE  FALSE
    BY <2>1, <2>3
  <2>4. ASSUME NEW r \in Rooms, CloseClaim(d, r), closers'[d].room = r
        PROVE  FALSE
    BY <2>1, <2>4
  <2> QED BY <2>2, <2>3, <2>4, HoldingSteps
<1> QED
  BY <1>1, <1>2, <1>3, TypeInvariant, PTL DEF Spec

(* However many calls of closeNet run, on however many rooms, two of them are
   never past the claim of the same room. *)
THEOREM OneCloserPerRoom == Spec => []ClosersExclusive
BY ClaimInvariant, PTL
=============================================================================
