----------------------------- MODULE StationPhotos -----------------------------
(***************************************************************************)
(* How the logger finds names and photos of the stations on its list: a    *)
(* queue of callsigns that one processor looks up at the server, one at a  *)
(* time, fed by every rendering of the list, and the images of the rows,   *)
(* whose sources are preloaded once for all of them.  An outcome is worth  *)
(* something for a while: a name that was found is fresh, a failure blocks *)
(* the next attempt.                                                       *)
(***************************************************************************)
EXTENDS Naturals, FiniteSets, SequencesExt

CONSTANTS
    Calls,          \* stations of the net
    Self,           \* the operator's
    Pictured,       \* those of whom there is a photo
    Rest            \* the processor waits 250 ms between two lookups

PhotosAssumption == IsFiniteSet(Calls) /\ Self \in Calls /\ Pictured \subseteq Calls /\ Rest \notin Calls

VARIABLES
    present,        \* latestStations
    queue,          \* qrzLookupQueue
    running,        \* qrzLookupRunning
    current,        \* what the processor awaits: the lookup of a call, Rest, or nothing
    editor,         \* the call that correctCallsign looks up meanwhile
    fresh,          \* calls with a name that is fresh
    blocked,        \* calls not to be asked again yet
    photo,          \* calls with a qrzPhoto
    image,          \* what the row of a call shows
    pending,        \* avatarSourceCache
    resolved,       \* resolvedAvatarDataUrls
    failed,         \* avatarFailureRetryAt
    full,           \* localStorage refuses to write
    broken,         \* history: it refused the processor
    asked           \* history: how often the processor asked for a call since its last outcome expired

vars == <<present, queue, running, current, editor, fresh, blocked, photo, image, pending, resolved, failed, full, broken, asked>>
sources == <<pending, resolved, failed>>
outcomes == <<fresh, blocked, photo>>

Nothing == {}
Images == {"default", "loading", "photo"}
Outcomes == {"photo", "name", "unknown", "failure"}
OutcomesOf(call) == IF call \in Pictured THEN Outcomes ELSE Outcomes \ {"photo"}
Names == {"photo", "name"}

Init ==
    /\ present = {} /\ queue = <<>> /\ running = FALSE /\ current = Nothing /\ editor = Nothing
    /\ fresh = {} /\ blocked = {} /\ photo = {}
    /\ image = [c \in Calls |-> "default"]
    /\ pending = {} /\ resolved = {} /\ failed = {}
    /\ full = FALSE /\ broken = FALSE
    /\ asked = [c \in Calls |-> 0]

\* hydrateAvatars over rows that were just built, and resolvedAvatarSource for those without a source.
Wanted(calls, photos) == (calls \cap photos) \ (resolved \cup failed)
Hydrated(calls, photos) ==
    /\ image' = [c \in Calls |->
          IF c \notin calls \cap photos \/ c \in failed \ resolved THEN "default"
          ELSE IF c \in resolved THEN "photo" ELSE "loading"]
    /\ pending' = pending \cup Wanted(calls, photos)

\* queueMissingQrzPhotos: whom to ask for, given whose name is fresh.
Queued(calls, fresher) == calls \ (fresher \cup blocked \cup Range(queue))

\* Their order is that of their roles; the operator comes first.
Orders(calls) == {s \in SetToSeqs(calls) : Self \in calls => Head(s) = Self}

Ask(call) == current' = {call} /\ asked' = [asked EXCEPT ![call] = @ + 1]

Idle == UNCHANGED <<queue, running, current, asked>>

\* processQrzLookupQueue, up to its first await.
Start(q) ==
    IF running \/ q = <<>>
    THEN queue' = q /\ UNCHANGED <<running, current, asked>>
    ELSE running' = TRUE /\ queue' = Tail(q) /\ Ask(Head(q))

\* renderQueue after a refresh of the stations.  A write that is refused ends it before images and lookups.
Refresh(calls) ==
    /\ present' = calls
    /\ IF full
       THEN /\ image' = [c \in Calls |-> "default"]
            /\ UNCHANGED pending /\ Idle
       ELSE /\ Hydrated(calls, photo)
            /\ \E s \in Orders(Queued(calls, fresh)) : Start(queue \o s)
    /\ UNCHANGED <<editor, outcomes, resolved, failed, full, broken>>

\* What the queue may become with another rendering.
Longer(fresher) == IF full THEN {queue} ELSE {queue \o s : s \in Orders(Queued(present, fresher))}

\* lookupQrz up to its answer: what was found goes into the details and the list is rendered again; a photo that is not
\* there any more is forgotten, and so it is by the processor for a call that is not known.
Details(call, outcome) ==
    /\ fresh' = IF outcome \in Names THEN fresh \cup {call} ELSE fresh
    /\ photo' = CASE outcome = "photo" -> photo \cup {call}
                  [] outcome = "failure" -> photo
                  [] OTHER -> photo \ {call}
    /\ IF outcome \in Names /\ ~full
       THEN Hydrated(present, photo')
       ELSE UNCHANGED <<image, pending>>

\* The rest of a turn of the processor.  Its own write is outside of lookupQrz: refused, it leaves qrzLookupRunning set.
Answered(call, outcome) ==
    /\ Details(call, outcome)
    /\ queue' \in IF outcome \in Names THEN Longer(fresh') ELSE {queue}
    /\ blocked' = blocked \cup {call}
    /\ broken' = (broken \/ full)
    /\ current' = IF full THEN Nothing ELSE {Rest}
    /\ UNCHANGED running

LookupEnds ==
    /\ \E call \in Calls : current = {call} /\ \E outcome \in OutcomesOf(call) : Answered(call, outcome)
    /\ UNCHANGED <<present, editor, resolved, failed, full, asked>>

\* The next one, or the end of the processor.
RestEnds ==
    /\ current = {Rest}
    /\ IF queue = <<>>
       THEN running' = FALSE /\ current' = Nothing /\ UNCHANGED <<queue, asked>>
       ELSE queue' = Tail(queue) /\ Ask(Head(queue)) /\ UNCHANGED running
    /\ UNCHANGED <<present, editor, outcomes, image, sources, full, broken>>

\* correctCallsign looks its new callsign up by itself, whatever the processor does.
EditorAsks(call) ==
    /\ editor = Nothing /\ call \notin present
    /\ editor' = {call}
    /\ UNCHANGED <<present, queue, running, current, outcomes, image, sources, full, broken, asked>>

EditorHears ==
    /\ \E call \in editor : \E outcome \in OutcomesOf(call) :
          IF outcome \in Names
          THEN Details(call, outcome) /\ \E q \in Longer(fresh') : IF full THEN Idle ELSE Start(q)
          ELSE UNCHANGED <<fresh, photo, image, pending>> /\ Idle
    /\ editor' = Nothing
    /\ UNCHANGED <<present, blocked, resolved, failed, full, broken>>

\* The preload of a source ends.  Rows that wait for it take it, those that were rebuilt since as well.
Loaded(call) ==
    /\ call \in pending /\ pending' = pending \ {call}
    /\ \/ /\ resolved' = resolved \cup {call} /\ failed' = failed \ {call}
          /\ image' = [image EXCEPT ![call] = IF @ = "loading" THEN "photo" ELSE @]
       \/ /\ failed' = failed \cup {call} /\ UNCHANGED resolved
          /\ image' = [image EXCEPT ![call] = IF @ = "loading" THEN "default" ELSE @]
    /\ UNCHANGED <<present, queue, running, current, editor, outcomes, full, broken, asked>>

\* An image that was there does not come a second time (onerror).
ImageFails(call) ==
    /\ image[call] = "photo"
    /\ image' = [image EXCEPT ![call] = "default"]
    /\ failed' = failed \cup {call} /\ resolved' = resolved \ {call}
    /\ UNCHANGED <<present, queue, running, current, editor, outcomes, pending, full, broken, asked>>

\* Time: 24 hours for a name, 5 minutes or 24 hours for the next attempt, 5 minutes for a source.
OutcomeExpires(call) ==
    /\ call \in fresh \cup blocked
    /\ fresh' = fresh \ {call} /\ blocked' = blocked \ {call}
    /\ asked' = [asked EXCEPT ![call] = 0]
    /\ UNCHANGED <<present, queue, running, current, editor, photo, image, sources, full, broken>>

FailureExpires(call) ==
    /\ call \in failed /\ failed' = failed \ {call}
    /\ UNCHANGED <<present, queue, running, current, editor, outcomes, image, pending, resolved, full, broken, asked>>

\* localStorage is shared with every other page of the site.
StorageChanges ==
    /\ full' = ~full
    /\ UNCHANGED <<present, queue, running, current, editor, outcomes, image, sources, broken, asked>>

Next ==
    \/ \E calls \in SUBSET Calls : Refresh(calls)
    \/ LookupEnds \/ RestEnds \/ EditorHears \/ StorageChanges
    \/ \E call \in Calls : EditorAsks(call) \/ Loaded(call) \/ ImageFails(call) \/ OutcomeExpires(call) \/ FailureExpires(call)

Spec == Init /\ [][Next]_vars

-----------------------------------------------------------------------------
(* Properties. *)

\* The shape of the state.
TypeOK ==
    /\ present \subseteq Calls /\ queue \in Seq(Calls)
    /\ running \in BOOLEAN /\ full \in BOOLEAN /\ broken \in BOOLEAN
    /\ current \in {Nothing} \cup {{c} : c \in Calls \cup {Rest}}
    /\ editor \in {Nothing} \cup {{c} : c \in Calls}
    /\ fresh \cup blocked \cup photo \subseteq Calls
    /\ image \in [Calls -> Images]
    /\ pending \cup resolved \cup failed \subseteq Calls
    /\ asked \in [Calls -> Nat]

\* A queue with something in it has a processor at work, which asks for a station twice at most before an outcome expires:
\* once, and once more for a rendering that came before the answer (queueMissingQrzPhotos, processQrzLookupQueue).
QueueServed ==
    /\ queue # <<>> /\ ~broken => current # Nothing
    /\ running <=> current # Nothing \/ broken
    /\ \A call \in Calls : asked[call] <= 2

\* A source is preloaded, there, or not to be tried yet, and a row that loads waits for a preload that goes on, however
\* often the row is rebuilt meanwhile (resolvedAvatarSource, hydrateAvatars).
SourcesAgree ==
    /\ pending \cap resolved = {} /\ pending \cap failed = {} /\ resolved \cap failed = {}
    /\ \A call \in Calls : image[call] = "loading" => call \in pending
=============================================================================
