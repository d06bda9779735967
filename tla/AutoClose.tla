------------------------------ MODULE AutoClose ------------------------------
(***************************************************************************)
(* How a running session ends, and its chat with it: explicit calls of     *)
(* closeNet, the worker's automatic close of abandoned nets                *)
(* (processAbandonedLiveNets, its outbox of e-mails and the recovery of    *)
(* both after a crash), and the retention jobs of ChatRetention.           *)
(*                                                                         *)
(* closeNet's other cleanup is in LiveNetLifecycle.  The worker's pass     *)
(* makes one database call per step; one pass runs at a time, and visits   *)
(* in any order the sessions it read when the stage began.  As in          *)
(* ChatRetention, instants are what comparing them with the clock answers. *)
(***************************************************************************)
EXTENDS ChatRetention

CONSTANTS
    Closers,        \* explicit calls of closeNet, from requests and bin/closeNet
    AutoCloser,     \* the automatic close's own call
    Worker,         \* the minute worker of retention jobs
    Quiet           \* whether explicit closes may be quiet, and whether loud

ASSUME RunsAssumption ==
    /\ Runs = Closers \cup {AutoCloser, Worker}
    /\ AutoCloser \notin Closers /\ Worker \notin Closers /\ AutoCloser # Worker
ASSUME QuietAssumption == Quiet \subseteq BOOLEAN
ASSUME NoSessionAssumption == Nobody \notin Sessions

VARIABLES
    nco,            \* qualifying presence: later than the abandonment cutoff?
    call,           \* closeNet calls in flight
    pass            \* processLiveNetHardening in flight

closeVars == <<nco, call, pass>>
vars == <<retentionVars, closeVars>>

Callers == Closers \cup {AutoCloser}

Call ==
    [pc : {"idle", "claimed", "retained", "removed"},
     session : Sessions \cup {Nobody},
     quiet : BOOLEAN]

Pass ==
    [pc : {"idle", "recover", "unclaim", "sweep", "queue", "look", "claim", "recheck",
           "claimRoom", "boundary", "commit", "snapshot", "close", "reopen", "release",
           "emails", "mailing", "mailed"},
     session : Sessions \cup {Nobody},
     todo : SUBSET Sessions,
     absent : SUBSET Sessions]

IdleCall == [pc |-> "idle", session |-> Nobody, quiet |-> FALSE]
IdlePass == [pc |-> "idle", session |-> Nobody, todo |-> {}, absent |-> {}]

TypeOK ==
    /\ RetentionTypeOK
    /\ nco \in [Sessions -> {"recent", "away"}]
    /\ call \in [Callers -> Call]
    /\ pass \in Pass

Init ==
    /\ RetentionInit
    /\ nco = [l \in Sessions |-> "recent"]
    /\ call = [c \in Callers |-> IdleCall]
    /\ pass = IdlePass

-----------------------------------------------------------------------------
(* closeNet *)

Closing(l) == room[l] \in {"closing", "abandoned"}
CallStep(c, from, to) == call[c].pc = from /\ call' = [call EXCEPT ![c].pc = to]

CloseClaim(c, l, quiet) ==
    /\ call[c].pc = "idle" /\ run[c].pc = "idle"
    /\ room[l] = "open"
    /\ room' = [room EXCEPT ![l] = "closing"]
    /\ call' = [call EXCEPT ![c] = [pc |-> "claimed", session |-> l, quiet |-> quiet]]
    /\ UNCHANGED <<event, chat, delivered, job, run, failures, nco, pass>>

CloseRetain(c) ==
    LET l == call[c].session IN
    /\ CallStep(c, "claimed", "retained")
    /\ job' = [job EXCEPT ![l] = Enqueued(l, call[c].quiet, TRUE)]
    /\ UNCHANGED <<room, event, chat, delivered, run, failures, nco, pass>>

\* closeNet returns false; the automatic close undoes its claims.
CloseFalse(c) ==
    /\ call' = [call EXCEPT ![c] = IdleCall]
    /\ pass' = IF c = AutoCloser THEN [pass EXCEPT !.pc = "reopen"] ELSE pass

Reopened(l) == IF Closing(l) THEN [room EXCEPT ![l] = "open"] ELSE room

\* The job cannot be queued: the room is reopened.
CloseReopen(c) ==
    /\ call[c].pc = "claimed"
    /\ Fails
    /\ room' = Reopened(call[c].session)
    /\ CloseFalse(c)
    /\ UNCHANGED <<event, chat, delivered, job, run, nco>>

\* The session's interactions go with its room.
CloseRemove(c) ==
    LET l == call[c].session IN
    /\ CallStep(c, "retained", "removed")
    /\ room' = [room EXCEPT ![l] = "gone"]
    /\ nco' = [nco EXCEPT ![l] = "away"]
    /\ UNCHANGED <<event, chat, delivered, job, run, failures, pass>>

\* A first attempt at the job, by the call itself.
CloseProcess(c) ==
    /\ call[c].pc = "removed"
    /\ call' = [call EXCEPT ![c] = IdleCall]
    /\ run' = [run EXCEPT ![c].pc = "start", ![c].session = call[c].session]
    /\ UNCHANGED <<room, event, chat, delivered, job, failures, nco, pass>>

\* A write of the cleanup fails, before or after the room is removed.
CloseFail(c) ==
    /\ call[c].pc \in {"retained", "removed"}
    /\ Fails
    /\ CloseFalse(c)
    /\ UNCHANGED <<room, event, chat, delivered, job, run, nco>>

CloseStep(c) ==
    \/ CloseRetain(c) \/ CloseReopen(c) \/ CloseRemove(c) \/ CloseProcess(c) \/ CloseFail(c)

-----------------------------------------------------------------------------
(* recoverAutoCloseClaims *)

PassStep(from, to) == pass.pc = from /\ pass' = [pass EXCEPT !.pc = to]
NextVisit(pc) == [pass EXCEPT !.pc = pc, !.todo = @ \ {pass.session}, !.session = Nobody]
Visit(l, pc) == [pass EXCEPT !.pc = pc, !.session = l]
Skip(l) == [pass EXCEPT !.todo = @ \ {l}]

PassStart ==
    /\ pass.pc = "idle"
    /\ pass' = [IdlePass EXCEPT !.pc = "recover",
                  !.todo = {l \in Sessions : event[l].close = "claimed" /\ event[l].stale}]
    /\ UNCHANGED <<retentionVars, nco, call>>

\* Mutation of Recover: a committed close counts as done.
RecoverCommitted(l) ==
    /\ pass.pc = "recover" /\ l \in pass.todo
    /\ IF event[l].committed
       THEN /\ event' = [event EXCEPT ![l].close = "completed", ![l].stale = FALSE]
            /\ pass' = Skip(l)
            /\ UNCHANGED room
       ELSE /\ room' = Reopened(l)
            /\ pass' = Visit(l, "unclaim")
            /\ UNCHANGED event
    /\ UNCHANGED <<chat, delivered, job, run, failures, nco, call>>

\* A session that is still there is reopened first; the close of one that is
\* gone had either been committed or not.
Recover(l) ==
    /\ pass.pc = "recover" /\ l \in pass.todo
    /\ IF room[l] # "gone"
       THEN /\ room' = Reopened(l)
            /\ pass' = Visit(l, "unclaim")
            /\ UNCHANGED event
       ELSE /\ event' = [event EXCEPT ![l].close = IF event[l].committed THEN "completed"
                                                   ELSE "pending",
                                      ![l].stale = FALSE]
            /\ pass' = Skip(l)
            /\ UNCHANGED room
    /\ UNCHANGED <<chat, delivered, job, run, failures, nco, call>>

Unclaimed(l) == [event EXCEPT ![l].close = "pending", ![l].stale = FALSE,
                              ![l].committed = FALSE]

RecoverUnclaim ==
    /\ pass.pc = "unclaim"
    /\ event' = Unclaimed(pass.session)
    /\ pass' = NextVisit("recover")
    /\ UNCHANGED <<room, chat, delivered, job, run, failures, nco, call>>

\* Mutation of RecoverEmails: an abandoned claim of an e-mail stays.
RecoverEmailsNot ==
    /\ pass.pc = "recover" /\ pass.todo = {}
    /\ pass' = [pass EXCEPT !.pc = "sweep", !.todo = {l \in Sessions : room[l] = "abandoned"}]
    /\ UNCHANGED <<retentionVars, nco, call>>

\* An e-mail that may have been sent counts as failed.
RecoverEmails ==
    /\ pass.pc = "recover" /\ pass.todo = {}
    /\ event' = [l \in Sessions |->
                   IF event[l].close = "completed" /\ event[l].email = "claimed" /\ event[l].stale
                   THEN [event[l] EXCEPT !.email = "failed", !.stale = FALSE] ELSE event[l]]
    /\ pass' = [pass EXCEPT !.pc = "sweep", !.todo = {l \in Sessions : room[l] = "abandoned"}]
    /\ UNCHANGED <<room, chat, delivered, job, run, failures, nco, call>>

-----------------------------------------------------------------------------
(* reconcileLiveNetPersistence, of a close that was abandoned *)

\* Mutation of SweepRemove: a room that is closing is left alone.
SweepRemoveNot(l) ==
    /\ pass.pc = "sweep" /\ l \in pass.todo
    /\ pass' = Skip(l)
    /\ UNCHANGED <<retentionVars, nco, call>>

SweepRemove(l) ==
    /\ pass.pc = "sweep" /\ l \in pass.todo
    /\ IF room[l] = "abandoned"
       THEN /\ room' = [room EXCEPT ![l] = "gone"]
            /\ nco' = [nco EXCEPT ![l] = "away"]
            /\ pass' = Visit(l, "queue")
       ELSE /\ pass' = Skip(l)
            /\ UNCHANGED <<room, nco>>
    /\ UNCHANGED <<event, chat, delivered, job, run, failures, call>>

SweepQueue ==
    /\ pass.pc = "queue"
    /\ job' = [job EXCEPT ![pass.session] = Enqueued(pass.session, TRUE, FALSE)]
    /\ pass' = NextVisit("sweep")
    /\ UNCHANGED <<room, event, chat, delivered, run, failures, nco, call>>

\* The job cannot be queued: it is logged.  A session is removed once, so these
\* failures need no bound.
SweepQueueFails ==
    /\ pass.pc = "queue"
    /\ pass' = NextVisit("sweep")
    /\ UNCHANGED <<retentionVars, nco, call>>

-----------------------------------------------------------------------------
(* processAbandonedLiveNets *)

LookStart ==
    /\ pass.pc = "sweep" /\ pass.todo = {}
    /\ pass' = [pass EXCEPT !.pc = "look",
                            !.todo = {l \in Sessions : room[l] = "open"},
                            !.absent = {l \in Sessions : nco[l] = "away"}]
    /\ UNCHANGED <<retentionVars, nco, call>>

\* observeAutoClose: every open session has an event from its first pass on.
Observe(l) ==
    /\ pass.pc = "look" /\ l \in pass.todo
    /\ event' = IF event[l].close = "none" THEN [event EXCEPT ![l].close = "pending"] ELSE event
    /\ pass' = IF l \in pass.absent /\ event[l].close # "completed"
               THEN Visit(l, "claim") ELSE Skip(l)
    /\ UNCHANGED <<room, chat, delivered, job, run, failures, nco, call>>

ClaimEvent ==
    LET l == pass.session IN
    /\ pass.pc = "claim"
    /\ IF event[l].close = "pending"
       THEN /\ event' = [event EXCEPT ![l].close = "claimed", ![l].stale = FALSE]
            /\ pass' = [pass EXCEPT !.pc = "recheck"]
       ELSE /\ pass' = NextVisit("look")
            /\ UNCHANGED event
    /\ UNCHANGED <<room, chat, delivered, job, run, failures, nco, call>>

\* The NCO is back before the room is claimed.
Recheck ==
    /\ PassStep("recheck", IF nco[pass.session] = "recent" THEN "release" ELSE "claimRoom")
    /\ UNCHANGED <<retentionVars, nco, call>>

ClaimRoom ==
    LET l == pass.session IN
    /\ PassStep("claimRoom", IF room[l] = "open" THEN "boundary" ELSE "release")
    /\ room' = IF room[l] = "open" THEN [room EXCEPT ![l] = "closing"] ELSE room
    /\ UNCHANGED <<event, chat, delivered, job, run, failures, nco, call>>

\* The NCO is back between the first check and the claim.
Boundary ==
    /\ PassStep("boundary", IF nco[pass.session] = "recent" THEN "reopen" ELSE "commit")
    /\ UNCHANGED <<retentionVars, nco, call>>

Commit ==
    /\ PassStep("commit", "snapshot")
    /\ event' = [event EXCEPT ![pass.session].committed = TRUE]
    /\ UNCHANGED <<room, chat, delivered, job, run, failures, nco, call>>

\* The report is made and kept; closeNet is called, with the room claimed.
Snapshot ==
    /\ PassStep("snapshot", "close")
    /\ event' = [event EXCEPT ![pass.session].snapshot = TRUE]
    /\ call' = [call EXCEPT ![AutoCloser] = [pc |-> "claimed", session |-> pass.session,
                                       quiet |-> TRUE]]
    /\ UNCHANGED <<room, chat, delivered, job, run, failures, nco>>

SnapshotFails ==
    /\ PassStep("snapshot", "reopen")
    /\ Fails
    /\ UNCHANGED <<room, event, chat, delivered, job, run, nco, call>>

Reopen ==
    /\ PassStep("reopen", "release")
    /\ room' = Reopened(pass.session)
    /\ UNCHANGED <<event, chat, delivered, job, run, failures, nco, call>>

Release ==
    /\ pass.pc = "release"
    /\ event' = Unclaimed(pass.session)
    /\ pass' = NextVisit("look")
    /\ UNCHANGED <<room, chat, delivered, job, run, failures, nco, call>>

\* closeNet has returned true.
Complete ==
    /\ pass.pc = "close" /\ call[AutoCloser].pc = "idle" /\ run[AutoCloser].pc = "idle"
    /\ event' = [event EXCEPT ![pass.session].close = "completed"]
    /\ pass' = NextVisit("look")
    /\ UNCHANGED <<room, chat, delivered, job, run, failures, nco, call>>

-----------------------------------------------------------------------------
(* processAutoCloseEmails *)

EmailsStart ==
    /\ pass.pc = "look" /\ pass.todo = {}
    /\ pass' = [IdlePass EXCEPT !.pc = "emails"]
    /\ UNCHANGED <<retentionVars, nco, call>>

Outbox == {l \in Sessions : event[l].close = "completed" /\ event[l].email = "pending"}

\* Mutation of EmailClaim: a net that was not closed automatically is reported too.
EmailClaimAny(l) ==
    /\ pass.pc = "emails" /\ event[l].close # "none" /\ event[l].email = "pending"
    /\ event' = [event EXCEPT ![l].email = "claimed", ![l].stale = FALSE]
    /\ pass' = Visit(l, "mailing")
    /\ UNCHANGED <<room, chat, delivered, job, run, failures, nco, call>>

EmailClaim(l) ==
    /\ pass.pc = "emails" /\ l \in Outbox
    /\ event' = [event EXCEPT ![l].email = "claimed", ![l].stale = FALSE]
    /\ pass' = Visit(l, "mailing")
    /\ UNCHANGED <<room, chat, delivered, job, run, failures, nco, call>>

EmailAccepted ==
    /\ PassStep("mailing", "mailed")
    /\ event[pass.session].snapshot
    /\ delivered' = delivered \cup {pass.session}
    /\ UNCHANGED <<room, event, chat, job, run, failures, nco, call>>

EmailSent ==
    /\ pass.pc = "mailed"
    /\ event' = [event EXCEPT ![pass.session].email = "sent"]
    /\ pass' = [pass EXCEPT !.pc = "emails", !.session = Nobody]
    /\ UNCHANGED <<room, chat, delivered, job, run, failures, nco, call>>

\* It is refused, has no report to send, or its acceptance is not written down.
EmailFails ==
    /\ pass.pc \in {"mailing", "mailed"}
    /\ IF event[pass.session].snapshot THEN Fails ELSE UNCHANGED failures
    /\ event' = [event EXCEPT ![pass.session].email = "failed"]
    /\ pass' = [pass EXCEPT !.pc = "emails", !.session = Nobody]
    /\ UNCHANGED <<room, chat, delivered, job, run, nco, call>>

PassEnd ==
    /\ pass.pc = "emails" /\ Outbox = {}
    /\ pass' = IdlePass
    /\ UNCHANGED <<retentionVars, nco, call>>

\* A database call of the pass throws; closeNet catches its own.
PassAborts ==
    /\ pass.pc \notin {"idle", "close"}
    /\ Fails
    /\ pass' = IdlePass
    /\ UNCHANGED <<room, event, chat, delivered, job, run, nco, call>>

HardeningPass ==
    \/ PassStart \/ RecoverUnclaim \/ RecoverEmails \/ SweepQueue \/ SweepQueueFails
    \/ \E l \in Sessions : Recover(l) \/ SweepRemove(l) \/ Observe(l) \/ EmailClaim(l)
    \/ LookStart \/ ClaimEvent \/ Recheck \/ ClaimRoom \/ Boundary \/ Commit
    \/ Snapshot \/ SnapshotFails \/ Reopen \/ Release \/ Complete
    \/ EmailsStart \/ EmailAccepted \/ EmailSent \/ EmailFails \/ PassEnd \/ PassAborts

-----------------------------------------------------------------------------
(* Presence, time and crashes *)

NcoSeen(l) ==
    /\ room[l] # "gone"
    /\ nco' = [nco EXCEPT ![l] = "recent"]
    /\ UNCHANGED <<retentionVars, call, pass>>

\* A pass keeps the cutoff it began with.
NcoAway(l) ==
    /\ pass.pc = "idle"
    /\ nco' = [nco EXCEPT ![l] = "away"]
    /\ UNCHANGED <<retentionVars, call, pass>>

\* A close of l, or the pass at l.  Neither takes CLAIM_STALE_MS, RETRY_MS or the
\* retention days, all of fifteen minutes or more.
Busy(l) == pass.session = l \/ \E c \in Callers : call[c].session = l

\* CLAIM_STALE_MS after the event's claim, or its e-mail's.
ClaimAges(l) ==
    /\ event[l].close = "claimed" \/ event[l].email = "claimed"
    /\ ~Busy(l)
    /\ event' = [event EXCEPT ![l].stale = TRUE]
    /\ UNCHANGED <<room, chat, delivered, job, run, failures, closeVars>>

\* CLAIM_STALE_MS after the room was claimed.  An automatic close that committed
\* had claimed its event first: the pass that would find the room stale has
\* recovered it by then.
CloseAges(l) ==
    /\ room[l] = "closing" /\ ~event[l].committed
    /\ ~Busy(l)
    /\ room' = [room EXCEPT ![l] = "abandoned"]
    /\ UNCHANGED <<event, chat, delivered, job, run, failures, closeVars>>

JobRetries(l) == ~Busy(l) /\ RetryDue(l) /\ UNCHANGED closeVars
LeaseEnds(l) == LeaseLapses(l) /\ UNCHANGED closeVars

\* A net that stays on the air after a close of it was interrupted does not stay
\* for the retention days.
JobExpires(l) == room[l] = "gone" /\ ~Busy(l) /\ ChatExpires(l) /\ UNCHANGED closeVars

\* The server dies, with any closes that run in it, or a closeNet of the command line.
Crash ==
    \E dead \in SUBSET Runs :
        /\ {AutoCloser, Worker} \subseteq dead \/ \E c \in Closers : dead = {c}
        /\ Fails
        /\ run' = [w \in Runs |-> IF w \in dead THEN IdleRun ELSE run[w]]
        /\ call' = [c \in Callers |-> IF c \in dead THEN IdleCall ELSE call[c]]
        /\ pass' = IF AutoCloser \in dead THEN IdlePass ELSE pass
        /\ UNCHANGED <<room, event, chat, delivered, job, nco>>

-----------------------------------------------------------------------------
\* runChatRetentionPass takes up the due jobs one by one.
TakeUp(l) == run[Worker].pc = "idle" /\ Claim(Worker, l) /\ UNCHANGED closeVars

ProcessJob(w) == Process(w) /\ UNCHANGED closeVars

Next ==
    \/ \E c \in Closers, l \in Sessions, quiet \in Quiet : CloseClaim(c, l, quiet)
    \/ \E c \in Callers : CloseStep(c)
    \/ HardeningPass
    \/ \E w \in Runs : ProcessJob(w)
    \/ \E l \in Sessions :
          \/ TakeUp(l)
          \/ NcoSeen(l) \/ NcoAway(l)
          \/ ClaimAges(l) \/ CloseAges(l) \/ JobRetries(l) \/ LeaseEnds(l) \/ JobExpires(l)
    \/ Crash

Spec == Init /\ [][Next]_vars

(* What has been started goes on unless it crashes, the workers' timers keep
   firing and time passes; a pass takes up every due job in the end, oldest
   first.  Nobody has to close a net, and its NCO may come and go. *)
Fairness ==
    /\ \A c \in Callers : WF_vars(CloseStep(c))
    /\ WF_vars(HardeningPass)
    /\ \A w \in Runs : WF_vars(ProcessJob(w))
    /\ \A l \in Sessions :
          /\ SF_vars(TakeUp(l))
          /\ WF_vars(ClaimAges(l)) /\ WF_vars(CloseAges(l))
          /\ WF_vars(JobRetries(l)) /\ WF_vars(LeaseEnds(l)) /\ WF_vars(JobExpires(l))

FairSpec == Spec /\ Fairness
-----------------------------------------------------------------------------
(* The chat of a session goes when the session has gone, its retention days
   are over, and its report was accepted or nobody was to have one:
   processChatRetentionJob, with leases that lapse and failures in between. *)
ChatOutlivesReport ==
    [][\A l \in Sessions :
          l \in chat /\ l \notin chat' =>
              /\ room[l] = "gone" /\ job[l].expired
              /\ l \in delivered \/ job[l].report = "skipped"]_vars

(* A report recorded as sent is not made pending or failed again by a call that
   lost its lease: only a further close of the session renews the job. *)
SentStands ==
    [][\A l \in Sessions :
          job[l].report = "sent" /\ job'[l].report # "sent" =>
              \E c \in Callers : call[c] # call'[c] /\ call'[c].pc = "retained"]_vars

(* An automatic close that counts as completed, and whose e-mail is sent for
   that, has removed its session. *)
CompletedIsGone == \A l \in Sessions : event[l].close = "completed" => room[l] = "gone"

(* The inactivity e-mail goes out for automatic closes only. *)
MailedIsCompleted == \A l \in Sessions : event[l].email # "pending" => event[l].close = "completed"

(* A close that began comes to an end: the session goes, or is open again. *)
ClosesEnd == \A l \in Sessions : Closing(l) ~> ~Closing(l)

(* The chat of a session that has gone and has a job is removed in the end,
   unless its job is left waiting for the e-mail of an automatic close that was
   not completed. *)
WaitsForEmail(l) == job[l].report = "external" /\ event[l].close # "completed"
ChatGoesOrWaits ==
    \A l \in Sessions : room[l] = "gone" /\ Queued(l) ~> l \notin chat \/ WaitsForEmail(l)

=============================================================================
