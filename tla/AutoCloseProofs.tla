--------------------------- MODULE AutoCloseProofs ---------------------------
(***************************************************************************)
(* Theorems about AutoClose, for any sessions, closers and bound on        *)
(* failures: what becomes of a session's event, its job and its chat.      *)
(***************************************************************************)
EXTENDS AutoClose, TLAPS

\* Where the pass has a session in hand, and where it has claimed its event.
Visiting ==
    {"unclaim", "queue", "claim", "recheck", "claimRoom", "boundary", "commit",
     "snapshot", "close", "reopen", "release", "mailing", "mailed"}
Claiming ==
    {"unclaim", "recheck", "claimRoom", "boundary", "commit", "snapshot", "close",
     "reopen", "release"}

Working(w) == run[w].pc \notin {"idle", "start"}

\* Who is at work has a session.
Bound ==
    /\ pass.pc \in Visiting => pass.session \in Sessions
    /\ \A c \in Callers : call[c].pc # "idle" => call[c].session \in Sessions
    /\ \A w \in Runs : run[w].pc # "idle" => run[w].session \in Sessions

\* The automatic close's call runs under the pass, on its session, and leaves
\* it without the session's room.
AutoCalls ==
    /\ call[AutoCloser].pc # "idle" => pass.pc = "close" /\ call[AutoCloser].session = pass.session
    /\ pass.pc = "close" /\ call[AutoCloser].pc = "idle" => room[pass.session] = "gone"
    /\ \A c \in Callers : call[c].pc = "removed" => room[call[c].session] = "gone"

\* The pass works on claimed events, and mails for completed ones.
EventsHeld ==
    /\ pass.pc \in Claiming => event[pass.session].close = "claimed"
    /\ pass.pc \in {"recover", "unclaim"} => \A l \in pass.todo : event[l].close = "claimed"
    /\ pass.pc \in {"mailing", "mailed"} => event[pass.session].close = "completed"

EventInv == Bound /\ AutoCalls /\ EventsHeld /\ CompletedIsGone /\ MailedIsCompleted

\* A report that counts as sent was accepted.
SentIsDelivered ==
    /\ \A l \in Sessions : event[l].email = "sent" => l \in delivered
    /\ pass.pc = "mailed" => pass.session \in delivered
    /\ \A l \in Sessions : job[l].report = "sent" => l \in delivered
    /\ \A w \in Runs : Working(w) /\ run[w].report = "sent" => run[w].session \in delivered

\* The retention days are over only when no close of the session can renew its
\* job any more.
ExpiredIsFinal ==
    \A l \in Sessions : job[l].expired =>
        /\ Queued(l) /\ room[l] = "gone"
        /\ \A c \in Callers : call[c].session # l
        /\ pass.session = l => pass.pc \notin {"boundary", "commit", "snapshot", "close"}

\* The lease's holder agrees with the job on a report that was sent.
HolderKnowsSent ==
    \A w \in Runs : Working(w) /\ Holds(w) /\ job[Session(w)].report = "sent" =>
        run[w].report = "sent"

RecordIsFinal ==
    \A w \in Runs : run[w].pc = "record" => run[w].report \in {"sent", "skipped"}

CopyIsExpired ==
    \A w \in Runs : Working(w) /\ run[w].expired => job[Session(w)].expired

\* While a call is at the chat, the job's report is settled, and whoever holds
\* the lease meanwhile has read it so.
CleaningIsSettled ==
    \A w \in Runs : run[w].pc = "clean" =>
        /\ run[w].expired
        /\ job[Session(w)].report \in {"sent", "skipped"}
        /\ \A v \in Runs : Working(v) /\ Session(v) = Session(w) /\ Holds(v) =>
              run[v].report = job[Session(w)].report

ChatInv ==
    /\ SentIsDelivered /\ ExpiredIsFinal /\ HolderKnowsSent /\ RecordIsFinal
    /\ CopyIsExpired /\ CleaningIsSettled

-----------------------------------------------------------------------------
(* Typing *)

LEMMA NobodyElse == Nobody \notin Sessions /\ Nobody \notin Runs /\ MaxFailures \in Nat
BY NoSessionAssumption, NobodyAssumption, FailuresAssumption

LEMMA RunsAreCallers == Callers \subseteq Runs /\ AutoCloser \in Callers /\ Worker \in Runs /\ Worker \notin Callers
BY RunsAssumption DEF Callers

LEMMA TypeInit == Init => TypeOK /\ Bound
BY NobodyElse, RunsAreCallers
DEF Init, RetentionInit, TypeOK, RetentionTypeOK, Bound, NoEvent, NoJob, IdleRun, IdleCall,
    IdlePass, Event, Job, Run, Call, Pass, Reports, Visiting

LEMMA JobUpdates ==
    ASSUME job \in [Sessions -> Job], NEW l \in Sessions, NEW w \in Runs
    PROVE  /\ \A due \in {"now", "retry", "expiry"} :
                 /\ [job EXCEPT ![l] = Released(l, due)] \in [Sessions -> Job]
                 /\ \A r \in Reports :
                       [job EXCEPT ![l] = [Released(l, due) EXCEPT !.report = r]]
                          \in [Sessions -> Job]
           /\ [job EXCEPT ![l] = [Released(l, "now") EXCEPT !.done = TRUE]] \in [Sessions -> Job]
           /\ \A r \in Reports :
                 [job EXCEPT ![l] = [job[l] EXCEPT !.report = r]] \in [Sessions -> Job]
           /\ \A quiet, refreshClose \in BOOLEAN :
                 [job EXCEPT ![l] = Enqueued(l, quiet, refreshClose)] \in [Sessions -> Job]
           /\ [job EXCEPT ![l].holder = w, ![l].leased = TRUE] \in [Sessions -> Job]
           /\ [job EXCEPT ![l].due = "now"] \in [Sessions -> Job]
           /\ [job EXCEPT ![l].leased = FALSE] \in [Sessions -> Job]
           /\ [job EXCEPT ![l].expired = TRUE, ![l].due = IF @ = "expiry" THEN "now" ELSE @]
                 \in [Sessions -> Job]
<1>1. \A y \in Job : [job EXCEPT ![l] = y] \in [Sessions -> Job]
  OBVIOUS
<1>2. job[l] \in Job
  OBVIOUS
<1>3. \A due \in {"now", "retry", "expiry"} :
         /\ Released(l, due) \in Job
         /\ \A r \in Reports : [Released(l, due) EXCEPT !.report = r] \in Job
  BY <1>2 DEF Released, Job
<1>4. /\ [Released(l, "now") EXCEPT !.done = TRUE] \in Job
      /\ \A r \in Reports : [job[l] EXCEPT !.report = r] \in Job
  BY <1>2 DEF Released, Job
<1>5. \A quiet, refreshClose \in BOOLEAN : Enqueued(l, quiet, refreshClose) \in Job
  <2>1. \A r \in Reports : [job[l] EXCEPT !.report = r, !.due = "now", !.expired = FALSE] \in Job
    BY <1>2 DEF Job
  <2>2. \A quiet \in BOOLEAN : ReportFor(l, quiet) \in Reports
    BY DEF ReportFor, Reports
  <2> QED BY <1>2, <2>1, <2>2 DEF Enqueued
<1>6. [job EXCEPT ![l].holder = w, ![l].leased = TRUE] \in [Sessions -> Job]
  <2>1. [job[l] EXCEPT !.holder = w, !.leased = TRUE] \in Job
    BY <1>2 DEF Job
  <2> QED BY <1>1, <2>1
<1>7. [job EXCEPT ![l].due = "now"] \in [Sessions -> Job]
  <2>1. [job[l] EXCEPT !.due = "now"] \in Job
    BY <1>2 DEF Job
  <2> QED BY <1>1, <2>1
<1>8. [job EXCEPT ![l].leased = FALSE] \in [Sessions -> Job]
  <2>1. [job[l] EXCEPT !.leased = FALSE] \in Job
    BY <1>2 DEF Job
  <2> QED BY <1>1, <2>1
<1>9. [job EXCEPT ![l].expired = TRUE, ![l].due = IF @ = "expiry" THEN "now" ELSE @]
         \in [Sessions -> Job]
  <2>1. [job[l] EXCEPT !.expired = TRUE, !.due = IF @ = "expiry" THEN "now" ELSE @] \in Job
    BY <1>2 DEF Job
  <2> QED BY <1>1, <2>1
<1> QED BY <1>1, <1>3, <1>4, <1>5, <1>6, <1>7, <1>8, <1>9

LEMMA RunUpdates ==
    ASSUME run \in [Runs -> Run], NEW w \in Runs
    PROVE  /\ Return(w) => run' \in [Runs -> Run]
           /\ \A pc \in {"report", "record", "postpone", "clean", "finish", "fail"} :
                 Continue(w, pc) => run' \in [Runs -> Run]
           /\ [run EXCEPT ![w].report = "sent", ![w].pc = "record"] \in [Runs -> Run]
           /\ [run EXCEPT ![w].report = "skipped", ![w].pc = "record"] \in [Runs -> Run]
           /\ \A l \in Sessions : [run EXCEPT ![w].pc = "start", ![w].session = l] \in [Runs -> Run]
<1>1. \A y \in Run : [run EXCEPT ![w] = y] \in [Runs -> Run]
  OBVIOUS
<1>2. run[w] \in Run
  OBVIOUS
<1>3. Return(w) => run' \in [Runs -> Run]
  <2>1. IdleRun \in Run
    BY DEF IdleRun, Run, Reports
  <2> QED BY <1>1, <2>1 DEF Return
<1>4. ASSUME NEW pc \in {"report", "record", "postpone", "clean", "finish", "fail"},
             Continue(w, pc)
      PROVE  run' \in [Runs -> Run]
  <2>1. [run[w] EXCEPT !.pc = pc] \in Run
    BY <1>2 DEF Run
  <2> QED BY <1>1, <1>4, <2>1 DEF Continue
<1>5. /\ [run EXCEPT ![w].report = "sent", ![w].pc = "record"] \in [Runs -> Run]
      /\ [run EXCEPT ![w].report = "skipped", ![w].pc = "record"] \in [Runs -> Run]
  <2>1. /\ [run[w] EXCEPT !.report = "sent", !.pc = "record"] \in Run
        /\ [run[w] EXCEPT !.report = "skipped", !.pc = "record"] \in Run
    BY <1>2 DEF Run, Reports
  <2> QED BY <1>1, <2>1
<1>6. \A l \in Sessions : [run EXCEPT ![w].pc = "start", ![w].session = l] \in [Runs -> Run]
  <2>1. \A l \in Sessions : [run[w] EXCEPT !.pc = "start", !.session = l] \in Run
    BY <1>2 DEF Run
  <2> QED BY <1>1, <2>1
<1> QED BY <1>3, <1>4, <1>5, <1>6

LEMMA ClaimTypes ==
    ASSUME TypeOK, NEW w \in Runs, NEW l \in Sessions, Claim(w, l)
    PROVE  job' \in [Sessions -> Job] /\ run' \in [Runs -> Run]
<1>1. job \in [Sessions -> Job] /\ run \in [Runs -> Run] /\ job[l] \in Job
  BY DEF TypeOK, RetentionTypeOK
<1>2. job[l].report \in Reports /\ job[l].expired \in BOOLEAN
  BY <1>1 DEF Job, Claim, Claimable, Queued
<1>3. [pc |-> "claimed", session |-> l, report |-> job[l].report, expired |-> job[l].expired] \in Run
  BY <1>2 DEF Run
<1>4. job' = [job EXCEPT ![l].holder = w, ![l].leased = TRUE]
  BY DEF Claim
<1>5. job' \in [Sessions -> Job]
  BY <1>1, <1>4, JobUpdates
<1> QED BY <1>1, <1>3, <1>5 DEF Claim

LEMMA EventUpdates ==
    ASSUME event \in [Sessions -> Event], NEW l \in Sessions
    PROVE  /\ \A e \in {"pending", "claimed", "sent", "failed"} :
                 /\ [event EXCEPT ![l].email = e] \in [Sessions -> Event]
                 /\ [event EXCEPT ![l].email = e, ![l].stale = FALSE] \in [Sessions -> Event]
           /\ \A c \in {"none", "pending", "claimed", "completed"} :
                 /\ [event EXCEPT ![l].close = c] \in [Sessions -> Event]
                 /\ [event EXCEPT ![l].close = c, ![l].stale = FALSE] \in [Sessions -> Event]
           /\ Unclaimed(l) \in [Sessions -> Event]
           /\ [event EXCEPT ![l].committed = TRUE] \in [Sessions -> Event]
           /\ [event EXCEPT ![l].stale = TRUE] \in [Sessions -> Event]
           /\ \A b \in BOOLEAN : [event EXCEPT ![l].snapshot = b] \in [Sessions -> Event]
<1>1. \A y \in Event : [event EXCEPT ![l] = y] \in [Sessions -> Event]
  OBVIOUS
<1>2. event[l] \in Event
  OBVIOUS
<1>3. \A e \in {"pending", "claimed", "sent", "failed"} :
         /\ [event[l] EXCEPT !.email = e] \in Event
         /\ [event[l] EXCEPT !.email = e, !.stale = FALSE] \in Event
  BY <1>2 DEF Event
<1>4. \A c \in {"none", "pending", "claimed", "completed"} :
         /\ [event[l] EXCEPT !.close = c] \in Event
         /\ [event[l] EXCEPT !.close = c, !.stale = FALSE] \in Event
  BY <1>2 DEF Event
<1>5. /\ [event[l] EXCEPT !.close = "pending", !.stale = FALSE, !.committed = FALSE] \in Event
      /\ [event[l] EXCEPT !.committed = TRUE] \in Event
      /\ [event[l] EXCEPT !.stale = TRUE] \in Event
      /\ \A b \in BOOLEAN : [event[l] EXCEPT !.snapshot = b] \in Event
  BY <1>2 DEF Event
<1> QED BY <1>1, <1>3, <1>4, <1>5 DEF Unclaimed

LEMMA ProcessTypes ==
    ASSUME TypeOK, Bound, NEW w \in Runs, ProcessJob(w)
    PROVE  TypeOK'
<1>1. Session(w) \in Sessions /\ run[w].report \in Reports
  BY DEF TypeOK, RetentionTypeOK, Run, Bound, ProcessJob, Process, Session, At, ClaimNone,
         CheckLive, AwaitEmail, Deliver, NoReport, Record, Postpone, Clean, Finish, RunFails,
         Retry, RunAborts
<1>2. /\ job \in [Sessions -> Job] /\ run \in [Runs -> Run] /\ event \in [Sessions -> Event]
      /\ job[Session(w)] \in Job
  BY <1>1 DEF TypeOK, RetentionTypeOK
<1>3. \A doc \in Job : IfHeld(w, doc) \in [Sessions -> Job]
  BY <1>1, <1>2 DEF IfHeld
<1>4. \A due \in {"now", "retry", "expiry"} : Released(Session(w), due) \in Job
  BY <1>2 DEF Released, Job
<1>5. job' \in [Sessions -> Job] /\ run' \in [Runs -> Run] /\ event' \in [Sessions -> Event]
  <2>1. CASE ClaimNone(w)
    BY <2>1, <1>2, RunUpdates DEF ClaimNone
  <2>2. CASE At(w, "start") /\ Claim(w, Session(w))
    BY <2>2, <1>1, <1>2, ClaimTypes DEF Claim
  <2>3. CASE CheckLive(w)
    <3>1. IfHeld(w, Released(Session(w), "retry")) \in [Sessions -> Job]
      BY <1>3, <1>4
    <3> QED BY <2>3, <1>2, <3>1, RunUpdates DEF CheckLive
  <2>4. CASE AwaitEmail(w)
    <3>1. run' \in [Runs -> Run]
      BY <2>4, <1>2, RunUpdates DEF AwaitEmail
    <3>2. [event EXCEPT ![Session(w)].email = "pending"] \in [Sessions -> Event]
      BY <1>1, <1>2, EventUpdates
    <3> QED BY <2>4, <1>2, <3>1, <3>2 DEF AwaitEmail
  <2>5. CASE Deliver(w)
    BY <2>5, <1>2, RunUpdates DEF Deliver
  <2>6. CASE NoReport(w)
    BY <2>6, <1>2, RunUpdates DEF NoReport
  <2>7. CASE Record(w)
    <3>1. [job[Session(w)] EXCEPT !.report = run[w].report] \in Job
      BY <1>1, <1>2 DEF Job
    <3> QED BY <2>7, <1>2, <1>3, <3>1, RunUpdates DEF Record
  <2>8. CASE Postpone(w)
    BY <2>8, <1>2, <1>3, <1>4, RunUpdates DEF Postpone
  <2>9. CASE Clean(w)
    BY <2>9, <1>2, RunUpdates DEF Clean
  <2>10. CASE Finish(w)
    <3>1. [Released(Session(w), "now") EXCEPT !.done = TRUE] \in Job
      BY <1>4 DEF Job
    <3>2. event' \in [Sessions -> Event]
      BY <2>10, <1>1, <1>2, EventUpdates DEF Finish
    <3> QED BY <2>10, <1>2, <1>3, <3>1, <3>2, RunUpdates DEF Finish
  <2>11. CASE RunFails(w)
    BY <2>11, <1>2, RunUpdates DEF RunFails
  <2>12. CASE Retry(w)
    <3> DEFINE state == IF run[w].report \in {"pending", "failed"} THEN "failed" ELSE run[w].report
    <3>1. state \in Reports
      BY <1>1 DEF Reports
    <3>2. [Released(Session(w), "retry") EXCEPT !.report = state] \in Job
      <4> HIDE DEF state
      <4> QED BY <3>1, <1>4 DEF Job
    <3> QED BY <2>12, <1>2, <1>3, <3>2, RunUpdates DEF Retry
  <2>13. CASE RunAborts(w)
    BY <2>13, <1>2, RunUpdates DEF RunAborts
  <2> QED BY <2>1, <2>2, <2>3, <2>4, <2>5, <2>6, <2>7, <2>8, <2>9, <2>10, <2>11, <2>12, <2>13
          DEF ProcessJob, Process
<1>6. /\ room' = room /\ UNCHANGED closeVars /\ failures' \in 0..MaxFailures
      /\ chat' \in SUBSET Sessions /\ delivered' \in SUBSET Sessions
  BY <1>1, NobodyElse
     DEF TypeOK, RetentionTypeOK, ProcessJob, Process, ClaimNone, Claim, CheckLive, AwaitEmail,
         Deliver, NoReport, Record, Postpone, Clean, Finish, RunFails, Retry, RunAborts, Fails
<1> QED BY <1>5, <1>6 DEF TypeOK, RetentionTypeOK, closeVars

LEMMA CloseTypes ==
    ASSUME TypeOK, Bound, NEW c \in Callers, CloseStep(c)
    PROVE  TypeOK'
<1> DEFINE l == call[c].session
<1>1. l \in Sessions /\ call[c].quiet \in BOOLEAN /\ c \in Runs
  BY RunsAreCallers
     DEF TypeOK, Call, Bound, CloseStep, CloseRetain, CloseReopen, CloseRemove, CloseProcess,
         CloseFail, CallStep
<1>2. /\ room \in [Sessions -> {"open", "closing", "abandoned", "gone"}]
      /\ job \in [Sessions -> Job] /\ run \in [Runs -> Run]
      /\ nco \in [Sessions -> {"recent", "away"}] /\ call \in [Callers -> Call] /\ pass \in Pass
  BY DEF TypeOK, RetentionTypeOK
<1>3. [call EXCEPT ![c] = IdleCall] \in [Callers -> Call]
  BY <1>2 DEF IdleCall, Call
<1>4. \A pc \in {"retained", "removed"} : [call EXCEPT ![c].pc = pc] \in [Callers -> Call]
  <2>1. \A pc \in {"retained", "removed"} : [call[c] EXCEPT !.pc = pc] \in Call
    BY <1>2 DEF Call
  <2> QED BY <1>2, <2>1
<1>5. /\ [call EXCEPT ![c].pc = "retained"] \in [Callers -> Call]
      /\ [call EXCEPT ![c].pc = "removed"] \in [Callers -> Call]
  BY <1>4
<1>6. CloseFalse(c) => call' \in [Callers -> Call] /\ pass' \in Pass
  <2>1. [pass EXCEPT !.pc = "reopen"] \in Pass
    BY <1>2 DEF Pass
  <2> QED BY <1>2, <1>3, <2>1 DEF CloseFalse
<1>7. CASE CloseRetain(c)
  <2>1. job' \in [Sessions -> Job]
    BY <1>7, <1>1, <1>2, JobUpdates DEF CloseRetain
  <2> QED BY <1>7, <2>1, <1>5 DEF CloseRetain, CallStep, TypeOK, RetentionTypeOK
<1>8. CASE CloseReopen(c)
  <2>1. room' \in [Sessions -> {"open", "closing", "abandoned", "gone"}]
    BY <1>8, <1>1, <1>2 DEF CloseReopen, Reopened
  <2> QED BY <1>8, <2>1, <1>6, NobodyElse DEF CloseReopen, Fails, TypeOK, RetentionTypeOK
<1>9. CASE CloseRemove(c)
  <2>1. /\ room' \in [Sessions -> {"open", "closing", "abandoned", "gone"}]
        /\ nco' \in [Sessions -> {"recent", "away"}]
    BY <1>9, <1>1, <1>2 DEF CloseRemove
  <2> QED BY <1>9, <2>1, <1>5 DEF CloseRemove, CallStep, TypeOK, RetentionTypeOK
<1>10. CASE CloseProcess(c)
  <2>1. run' \in [Runs -> Run]
    BY <1>10, <1>1, <1>2, RunUpdates DEF CloseProcess
  <2> QED BY <1>10, <2>1, <1>3 DEF CloseProcess, TypeOK, RetentionTypeOK
<1>11. CASE CloseFail(c)
  BY <1>11, <1>6, NobodyElse DEF CloseFail, Fails, TypeOK, RetentionTypeOK
<1> QED BY <1>7, <1>8, <1>9, <1>10, <1>11 DEF CloseStep

\* The stages of a pass after its start.
Stages ==
    {"recover", "unclaim", "sweep", "queue", "look", "claim", "recheck", "claimRoom",
     "boundary", "commit", "snapshot", "close", "reopen", "release", "emails", "mailing",
     "mailed"}

LEMMA PassUpdates ==
    ASSUME pass \in Pass
    PROVE  /\ IdlePass \in Pass
           /\ \A to \in Stages :
                 /\ [pass EXCEPT !.pc = to] \in Pass
                 /\ NextVisit(to) \in Pass
                 /\ [pass EXCEPT !.pc = to, !.session = Nobody] \in Pass
                 /\ [IdlePass EXCEPT !.pc = to] \in Pass
                 /\ \A l \in Sessions : Visit(l, to) \in Pass
                 /\ \A S \in SUBSET Sessions :
                       /\ [IdlePass EXCEPT !.pc = to, !.todo = S] \in Pass
                       /\ [pass EXCEPT !.pc = to, !.todo = S] \in Pass
                       /\ \A T \in SUBSET Sessions :
                             [pass EXCEPT !.pc = to, !.todo = S, !.absent = T] \in Pass
           /\ \A l \in Sessions : Skip(l) \in Pass
<1>1. IdlePass \in Pass
  BY DEF IdlePass, Pass
<1>2. ASSUME NEW to \in Stages
      PROVE  /\ [pass EXCEPT !.pc = to] \in Pass
             /\ NextVisit(to) \in Pass
             /\ [pass EXCEPT !.pc = to, !.session = Nobody] \in Pass
             /\ [IdlePass EXCEPT !.pc = to] \in Pass
             /\ \A l \in Sessions : Visit(l, to) \in Pass
  BY <1>2, <1>1 DEF NextVisit, Visit, Stages, Pass
<1>3. ASSUME NEW to \in Stages, NEW S \in SUBSET Sessions
      PROVE  /\ [IdlePass EXCEPT !.pc = to, !.todo = S] \in Pass
             /\ [pass EXCEPT !.pc = to, !.todo = S] \in Pass
             /\ \A T \in SUBSET Sessions :
                   [pass EXCEPT !.pc = to, !.todo = S, !.absent = T] \in Pass
  BY <1>3, <1>1 DEF Stages, Pass
<1>4. \A l \in Sessions : Skip(l) \in Pass
  BY DEF Skip, Pass
<1> QED BY <1>1, <1>2, <1>3, <1>4

LEMMA PassTypes ==
    ASSUME TypeOK, Bound, HardeningPass
    PROVE  TypeOK'
<1>1. /\ room \in [Sessions -> {"open", "closing", "abandoned", "gone"}]
      /\ event \in [Sessions -> Event]
      /\ job \in [Sessions -> Job]
      /\ nco \in [Sessions -> {"recent", "away"}] /\ call \in [Callers -> Call] /\ pass \in Pass
  BY DEF TypeOK, RetentionTypeOK
<1>2. pass.pc \in Visiting => pass.session \in Sessions
  BY DEF Bound
<1>3. UNCHANGED run /\ UNCHANGED chat /\ failures' \in 0..MaxFailures
  <2>1. UNCHANGED run /\ UNCHANGED chat /\ (UNCHANGED failures \/ Fails)
    BY
       DEF HardeningPass, PassStart, RecoverUnclaim, RecoverEmails,
           SweepQueue, SweepQueueFails, Recover, SweepRemove, Observe, EmailClaim, LookStart,
           ClaimEvent, Recheck, ClaimRoom, Boundary, Commit, Snapshot, SnapshotFails, Reopen,
           Release, Complete, EmailsStart, EmailAccepted, EmailSent, EmailFails, PassEnd,
           PassAborts, retentionVars
  <2> QED BY <2>1, NobodyElse DEF Fails, TypeOK, RetentionTypeOK
<1>4. delivered' \in SUBSET Sessions
  <2>1. CASE EmailAccepted
    BY <2>1, <1>2 DEF EmailAccepted, PassStep, Visiting, TypeOK, RetentionTypeOK
  <2> QED BY <2>1
     DEF TypeOK, RetentionTypeOK, HardeningPass, PassStart, RecoverUnclaim, RecoverEmails,
         SweepQueue, SweepQueueFails, Recover, SweepRemove, Observe, EmailClaim, LookStart,
         ClaimEvent, Recheck, ClaimRoom, Boundary, Commit, Snapshot, SnapshotFails, Reopen,
         Release, Complete, EmailsStart, EmailSent, EmailFails, PassEnd,
         PassAborts, retentionVars
<1>5. /\ room' \in [Sessions -> {"open", "closing", "abandoned", "gone"}]
      /\ nco' \in [Sessions -> {"recent", "away"}]
  <2>1. ASSUME NEW l \in Sessions, Recover(l)
        PROVE  room' \in [Sessions -> {"open", "closing", "abandoned", "gone"}] /\ nco' = nco
    BY <2>1, <1>1 DEF Recover, Reopened
  <2>2. ASSUME NEW l \in Sessions, SweepRemove(l)
        PROVE  /\ room' \in [Sessions -> {"open", "closing", "abandoned", "gone"}]
               /\ nco' \in [Sessions -> {"recent", "away"}]
    BY <2>2, <1>1 DEF SweepRemove
  <2>3. CASE ClaimRoom \/ Reopen
    BY <2>3, <1>1 DEF ClaimRoom, Reopen, Reopened
  <2> QED BY <1>1, <2>1, <2>2, <2>3
     DEF HardeningPass, PassStart, RecoverUnclaim, RecoverEmails,
         SweepQueue, SweepQueueFails, Observe, EmailClaim, LookStart,
         ClaimEvent, Recheck, Boundary, Commit, Snapshot, SnapshotFails,
         Release, Complete, EmailsStart, EmailAccepted, EmailSent, EmailFails, PassEnd,
         PassAborts, retentionVars
<1>6. job' \in [Sessions -> Job]
  <2>1. CASE SweepQueue
    BY <2>1, <1>1, <1>2, JobUpdates, RunsAreCallers DEF SweepQueue, Visiting
  <2> QED BY <1>1, <2>1
     DEF HardeningPass, PassStart, RecoverUnclaim, RecoverEmails,
         SweepQueueFails, Recover, SweepRemove, Observe, EmailClaim, LookStart,
         ClaimEvent, Recheck, ClaimRoom, Boundary, Commit, Snapshot, SnapshotFails, Reopen,
         Release, Complete, EmailsStart, EmailAccepted, EmailSent, EmailFails, PassEnd,
         PassAborts, retentionVars
<1>7. call' \in [Callers -> Call]
  <2>1. CASE Snapshot
    <3>1. [pc |-> "claimed", session |-> pass.session, quiet |-> TRUE] \in Call
      BY <2>1, <1>2 DEF Snapshot, PassStep, Visiting, Call
    <3> QED BY <2>1, <1>1, <3>1 DEF Snapshot
  <2> QED BY <1>1, <2>1
     DEF HardeningPass, PassStart, RecoverUnclaim, RecoverEmails,
         SweepQueue, SweepQueueFails, Recover, SweepRemove, Observe, EmailClaim, LookStart,
         ClaimEvent, Recheck, ClaimRoom, Boundary, Commit, SnapshotFails, Reopen,
         Release, Complete, EmailsStart, EmailAccepted, EmailSent, EmailFails, PassEnd,
         PassAborts
<1>8. pass' \in Pass /\ event' \in [Sessions -> Event]
  <2>1. CASE PassStart
    BY <2>1, <1>1, PassUpdates DEF PassStart, Stages, retentionVars
  <2>2. CASE RecoverUnclaim
    BY <2>2, <1>1, <1>2, PassUpdates, EventUpdates DEF RecoverUnclaim, Stages, Visiting
  <2>3. CASE RecoverEmails
    <3>1. \A l \in Sessions : [event[l] EXCEPT !.email = "failed", !.stale = FALSE] \in Event
      BY <1>1 DEF Event
    <3>2. event' \in [Sessions -> Event]
      BY <2>3, <1>1, <3>1 DEF RecoverEmails
    <3> QED BY <2>3, <3>2, <1>1, PassUpdates DEF RecoverEmails, Stages
  <2>4. CASE SweepQueue \/ SweepQueueFails
    BY <2>4, <1>1, PassUpdates DEF SweepQueue, SweepQueueFails, Stages, retentionVars
  <2>5. ASSUME NEW l \in Sessions, Recover(l) PROVE pass' \in Pass /\ event' \in [Sessions -> Event]
    <3>1. /\ [event EXCEPT ![l].close = "completed", ![l].stale = FALSE] \in [Sessions -> Event]
          /\ [event EXCEPT ![l].close = "pending", ![l].stale = FALSE] \in [Sessions -> Event]
      BY <1>1, EventUpdates
    <3>2. pass' \in Pass
      BY <2>5, <1>1, PassUpdates DEF Recover, Stages
    <3> QED BY <2>5, <1>1, <3>1, <3>2 DEF Recover
  <2>6. ASSUME NEW l \in Sessions, SweepRemove(l) PROVE pass' \in Pass /\ event' \in [Sessions -> Event]
    <3>1. Visit(l, "queue") \in Pass /\ Skip(l) \in Pass
      BY <1>1, PassUpdates DEF Stages
    <3> QED BY <2>6, <1>1, <3>1 DEF SweepRemove
  <2>7. ASSUME NEW l \in Sessions, Observe(l) PROVE pass' \in Pass /\ event' \in [Sessions -> Event]
    <3>1. [event EXCEPT ![l].close = "pending"] \in [Sessions -> Event]
      BY <1>1, EventUpdates
    <3> QED BY <2>7, <1>1, <3>1, PassUpdates DEF Observe, Stages
  <2>8. ASSUME NEW l \in Sessions, EmailClaim(l) PROVE pass' \in Pass /\ event' \in [Sessions -> Event]
    BY <2>8, <1>1, PassUpdates, EventUpdates DEF EmailClaim, Stages
  <2>9. CASE LookStart
    BY <2>9, <1>1, PassUpdates DEF LookStart, Stages, retentionVars
  <2>10. CASE ClaimEvent
    <3>1. [event EXCEPT ![pass.session].close = "claimed", ![pass.session].stale = FALSE]
             \in [Sessions -> Event]
      BY <2>10, <1>1, <1>2, EventUpdates DEF ClaimEvent, Visiting
    <3> QED BY <2>10, <1>1, <3>1, PassUpdates DEF ClaimEvent, Stages
  <2>11. CASE Recheck \/ ClaimRoom \/ Boundary \/ SnapshotFails \/ Reopen
    BY <2>11, <1>1, PassUpdates
       DEF Recheck, ClaimRoom, Boundary, SnapshotFails, Reopen, PassStep, Stages, retentionVars
  <2>12. CASE Commit
    <3>1. [event EXCEPT ![pass.session].committed = TRUE] \in [Sessions -> Event]
      BY <2>12, <1>1, <1>2, EventUpdates DEF Commit, PassStep, Visiting
    <3> QED BY <2>12, <1>1, <3>1, PassUpdates DEF Commit, PassStep, Stages
  <2>13. CASE Snapshot
    <3>1. [event EXCEPT ![pass.session].snapshot = TRUE] \in [Sessions -> Event]
      BY <2>13, <1>1, <1>2, EventUpdates DEF Snapshot, PassStep, Visiting
    <3> QED BY <2>13, <1>1, <3>1, PassUpdates DEF Snapshot, PassStep, Stages
  <2>14. CASE Release
    BY <2>14, <1>1, <1>2, PassUpdates, EventUpdates DEF Release, Stages, Visiting
  <2>15. CASE Complete
    <3>1. [event EXCEPT ![pass.session].close = "completed"] \in [Sessions -> Event]
      BY <2>15, <1>1, <1>2, EventUpdates DEF Complete, Visiting
    <3> QED BY <2>15, <1>1, <3>1, PassUpdates DEF Complete, Stages
  <2>16. CASE EmailsStart \/ PassEnd \/ PassAborts
    BY <2>16, <1>1, PassUpdates DEF EmailsStart, PassEnd, PassAborts, Stages, retentionVars
  <2>17. CASE EmailAccepted
    BY <2>17, <1>1, PassUpdates DEF EmailAccepted, PassStep, Stages
  <2>18. CASE EmailSent \/ EmailFails
    <3>1. /\ [event EXCEPT ![pass.session].email = "sent"] \in [Sessions -> Event]
          /\ [event EXCEPT ![pass.session].email = "failed"] \in [Sessions -> Event]
      BY <2>18, <1>1, <1>2, EventUpdates DEF EmailSent, EmailFails, Visiting
    <3> QED BY <2>18, <1>1, <3>1, PassUpdates DEF EmailSent, EmailFails, Stages
  <2> QED BY <2>1, <2>2, <2>3, <2>4, <2>5, <2>6, <2>7, <2>8, <2>9, <2>10, <2>11, <2>12, <2>13,
             <2>14, <2>15, <2>16, <2>17, <2>18
          DEF HardeningPass
<1> QED BY <1>1, <1>3, <1>4, <1>5, <1>6, <1>7, <1>8 DEF TypeOK, RetentionTypeOK

LEMMA EnvironmentTypes ==
    ASSUME TypeOK, Bound,
           \/ \E c \in Closers, l \in Sessions, quiet \in Quiet : CloseClaim(c, l, quiet)
           \/ \E l \in Sessions :
                 \/ TakeUp(l) \/ NcoSeen(l) \/ NcoAway(l)
                 \/ ClaimAges(l) \/ CloseAges(l) \/ JobRetries(l) \/ LeaseEnds(l) \/ JobExpires(l)
           \/ Crash
    PROVE  TypeOK'
<1>1. /\ room \in [Sessions -> {"open", "closing", "abandoned", "gone"}]
      /\ event \in [Sessions -> Event]
      /\ job \in [Sessions -> Job] /\ run \in [Runs -> Run]
      /\ nco \in [Sessions -> {"recent", "away"}] /\ call \in [Callers -> Call] /\ pass \in Pass
  BY DEF TypeOK, RetentionTypeOK
<1>2. ASSUME NEW c \in Closers, NEW l \in Sessions, NEW quiet \in Quiet, CloseClaim(c, l, quiet)
      PROVE  TypeOK'
  <2>1. [pc |-> "claimed", session |-> l, quiet |-> quiet] \in Call
    BY QuietAssumption DEF Call
  <2>2. call' \in [Callers -> Call]
    BY <1>1, <1>2, <2>1 DEF CloseClaim
  <2>3. room' \in [Sessions -> {"open", "closing", "abandoned", "gone"}]
    BY <1>1, <1>2 DEF CloseClaim
  <2> QED BY <1>2, <2>2, <2>3 DEF CloseClaim, TypeOK, RetentionTypeOK
<1>3. ASSUME NEW l \in Sessions, TakeUp(l) PROVE TypeOK'
  <2>1. job' \in [Sessions -> Job] /\ run' \in [Runs -> Run]
    BY <1>3, ClaimTypes, RunsAreCallers DEF TakeUp
  <2> QED BY <1>3, <2>1 DEF TakeUp, Claim, closeVars, TypeOK, RetentionTypeOK
<1>4. ASSUME NEW l \in Sessions, NcoSeen(l) \/ NcoAway(l) PROVE TypeOK'
  <2>1. nco' \in [Sessions -> {"recent", "away"}]
    BY <1>1, <1>4 DEF NcoSeen, NcoAway
  <2> QED BY <1>4, <2>1 DEF NcoSeen, NcoAway, retentionVars, TypeOK, RetentionTypeOK
<1>5. ASSUME NEW l \in Sessions, ClaimAges(l) PROVE TypeOK'
  <2>1. event' \in [Sessions -> Event]
    BY <1>1, <1>5, EventUpdates DEF ClaimAges
  <2> QED BY <1>5, <2>1 DEF ClaimAges, closeVars, TypeOK, RetentionTypeOK
<1>6. ASSUME NEW l \in Sessions, CloseAges(l) PROVE TypeOK'
  <2>1. room' \in [Sessions -> {"open", "closing", "abandoned", "gone"}]
    BY <1>1, <1>6 DEF CloseAges
  <2> QED BY <1>6, <2>1 DEF CloseAges, closeVars, TypeOK, RetentionTypeOK
<1>7. ASSUME NEW l \in Sessions, JobRetries(l) \/ LeaseEnds(l) \/ JobExpires(l) PROVE TypeOK'
  <2>1. job' \in [Sessions -> Job]
    <3>1. /\ [job EXCEPT ![l].due = "now"] \in [Sessions -> Job]
          /\ [job EXCEPT ![l].leased = FALSE] \in [Sessions -> Job]
          /\ [job EXCEPT ![l].expired = TRUE, ![l].due = IF @ = "expiry" THEN "now" ELSE @]
                \in [Sessions -> Job]
      BY <1>1, JobUpdates, RunsAreCallers
    <3> QED BY <1>7, <3>1
            DEF JobRetries, RetryDue, LeaseEnds, LeaseLapses, JobExpires, ChatExpires
  <2> QED BY <1>7, <2>1
          DEF JobRetries, RetryDue, LeaseEnds, LeaseLapses, JobExpires, ChatExpires, closeVars,
              TypeOK, RetentionTypeOK
<1>8. CASE Crash
  <2>1. IdleRun \in Run /\ IdleCall \in Call
    BY DEF IdleRun, Run, Reports, IdleCall, Call
  <2>2. run' \in [Runs -> Run] /\ call' \in [Callers -> Call] /\ pass' \in Pass
    BY <1>1, <1>8, <2>1, PassUpdates DEF Crash
  <2>3. failures' \in 0..MaxFailures
    BY <1>8, NobodyElse DEF Crash, Fails, TypeOK, RetentionTypeOK
  <2> QED BY <1>8, <2>2, <2>3 DEF Crash, TypeOK, RetentionTypeOK
<1> QED BY <1>2, <1>3, <1>4, <1>5, <1>6, <1>7, <1>8

\* The steps that are neither a closeNet call's, the pass's nor a job's.
Environment ==
    \/ \E c \in Closers, l \in Sessions, quiet \in Quiet : CloseClaim(c, l, quiet)
    \/ \E l \in Sessions :
          \/ TakeUp(l) \/ NcoSeen(l) \/ NcoAway(l)
          \/ ClaimAges(l) \/ CloseAges(l) \/ JobRetries(l) \/ LeaseEnds(l) \/ JobExpires(l)
    \/ Crash

LEMMA Steps ==
    Next => \/ \E c \in Callers : CloseStep(c)
            \/ HardeningPass
            \/ \E w \in Runs : ProcessJob(w)
            \/ Environment
BY DEF Next, Environment

LEMMA TypeStep == TypeOK /\ Bound /\ [Next]_vars => TypeOK'
<1>1. CASE TypeOK /\ UNCHANGED vars
  BY <1>1 DEF vars, retentionVars, closeVars, TypeOK, RetentionTypeOK
<1> QED BY <1>1, Steps, CloseTypes, PassTypes, ProcessTypes, EnvironmentTypes DEF Environment

-----------------------------------------------------------------------------
(* The session in hand *)

\* A job's step is on its own session, and touches neither rooms, calls nor the pass.
LEMMA ProcessFrame ==
    ASSUME TypeOK, Bound, NEW w \in Runs, ProcessJob(w)
    PROVE  /\ UNCHANGED <<room, nco, call, pass>>
           /\ run[w].pc # "idle" /\ Session(w) \in Sessions
           /\ run'[w].pc # "idle" => run'[w].session = Session(w)
           /\ \A v \in Runs \ {w} : run'[v] = run[v]
           /\ \A l \in Sessions :
                 /\ event'[l].close = event[l].close
                 /\ \/ event'[l].email = event[l].email
                    \/ event[l].email = "failed" /\ event'[l].email = "pending"
<1>1. run[w].pc # "idle" /\ Session(w) \in Sessions
  BY DEF TypeOK, RetentionTypeOK, Run, Bound, ProcessJob, Process, Session, At, ClaimNone,
         CheckLive, AwaitEmail, Deliver, NoReport, Record, Postpone, Clean, Finish, RunFails,
         Retry, RunAborts
<1>2. UNCHANGED <<room, nco, call, pass>>
  BY DEF ProcessJob, closeVars, Process, ClaimNone, Claim, CheckLive, AwaitEmail, Deliver,
         NoReport, Record, Postpone, Clean, Finish, RunFails, Retry, RunAborts
<1>3. /\ run'[w].pc # "idle" => run'[w].session = Session(w)
      /\ \A v \in Runs \ {w} : run'[v] = run[v]
  BY DEF ProcessJob, Process, Session, ClaimNone, Claim,
         CheckLive, AwaitEmail, Deliver, NoReport, Record, Postpone, Clean, Finish, RunFails,
         Retry, RunAborts, Return, Continue, IdleRun, TypeOK, RetentionTypeOK, Run
<1>4. \A l \in Sessions :
         /\ event'[l].close = event[l].close
         /\ \/ event'[l].email = event[l].email
            \/ event[l].email = "failed" /\ event'[l].email = "pending"
  BY <1>1
     DEF ProcessJob, Process, ClaimNone, Claim, CheckLive, AwaitEmail, Deliver,
         NoReport, Record, Postpone, Clean, Finish, RunFails, Retry, RunAborts,
         TypeOK, RetentionTypeOK, Event
<1> QED BY <1>1, <1>2, <1>3, <1>4

\* A step of a closeNet call is on its own session.
LEMMA CloseFrame ==
    ASSUME TypeOK, Bound, NEW c \in Callers, CloseStep(c)
    PROVE  /\ UNCHANGED <<event, chat, delivered>>
           /\ call[c].pc # "idle" /\ call[c].session \in Sessions /\ c \in Runs
           /\ \A d \in Callers \ {c} : call'[d] = call[d]
           /\ \/ call'[c].pc = "idle" /\ call'[c].session = Nobody
              \/ call'[c].pc \in {"retained", "removed"} /\ call'[c].session = call[c].session
           /\ (c = AutoCloser /\ pass' = [pass EXCEPT !.pc = "reopen"]) \/ pass' = pass
           /\ \A v \in Runs \ {c} : run'[v] = run[v]
           /\ \/ run'[c] = run[c]
              \/ run'[c].pc = "start" /\ run'[c].session = call[c].session
<1>1. /\ UNCHANGED <<event, chat, delivered>>
      /\ call[c].pc # "idle" /\ call[c].session \in Sessions /\ c \in Runs
      /\ (c = AutoCloser /\ pass' = [pass EXCEPT !.pc = "reopen"]) \/ pass' = pass
  <2>1. call[c].pc # "idle" /\ call[c].session \in Sessions /\ c \in Runs
    BY RunsAreCallers
       DEF Bound, CloseStep, CloseRetain, CloseReopen, CloseRemove, CloseProcess, CloseFail,
           CallStep
  <2>2. (c = AutoCloser /\ pass' = [pass EXCEPT !.pc = "reopen"]) \/ pass' = pass
    BY DEF CloseStep, CloseRetain, CloseReopen, CloseRemove, CloseProcess, CloseFail, CloseFalse
  <2>3. UNCHANGED <<event, chat, delivered>>
    BY DEF CloseStep, CloseRetain, CloseReopen, CloseRemove, CloseProcess, CloseFail
  <2> QED BY <2>1, <2>2, <2>3
<1>2. call \in [Callers -> Call] /\ run \in [Runs -> Run]
  BY DEF TypeOK, RetentionTypeOK
<1>3. \/ call' = [call EXCEPT ![c] = IdleCall]
      \/ call' = [call EXCEPT ![c].pc = "retained"]
      \/ call' = [call EXCEPT ![c].pc = "removed"]
  BY DEF CloseStep, CloseRetain, CloseReopen, CloseRemove, CloseProcess, CloseFail, CallStep,
         CloseFalse
<1>4. /\ \A d \in Callers \ {c} : call'[d] = call[d]
      /\ \/ call'[c].pc = "idle" /\ call'[c].session = Nobody
         \/ call'[c].pc \in {"retained", "removed"} /\ call'[c].session = call[c].session
  BY <1>2, <1>3 DEF IdleCall, Call
<1>5. \/ run' = run
      \/ run' = [run EXCEPT ![c].pc = "start", ![c].session = call[c].session]
  BY DEF CloseStep, CloseRetain, CloseReopen, CloseRemove, CloseProcess, CloseFail
<1>6. /\ \A v \in Runs \ {c} : run'[v] = run[v]
      /\ \/ run'[c] = run[c]
         \/ run'[c].pc = "start" /\ run'[c].session = call[c].session
  BY <1>1, <1>2, <1>5 DEF Run
<1> QED BY <1>1, <1>4, <1>6

LEMMA BoundStep ==
    ASSUME TypeOK, Bound, AutoCalls, [Next]_vars
    PROVE  Bound'
<1>1. CASE UNCHANGED vars
  BY <1>1 DEF vars, retentionVars, closeVars, Bound
<1>2. ASSUME NEW c \in Callers, CloseStep(c) PROVE Bound'
  <2>1. pass'.pc \in Visiting => pass'.session \in Sessions
    BY <1>2, CloseFrame DEF Bound, AutoCalls, Visiting, TypeOK, Pass
  <2>2. \A d \in Callers : call'[d].pc # "idle" => call'[d].session \in Sessions
    BY <1>2, CloseFrame DEF Bound
  <2>3. \A w \in Runs : run'[w].pc # "idle" => run'[w].session \in Sessions
    BY <1>2, CloseFrame DEF Bound
  <2> QED BY <2>1, <2>2, <2>3 DEF Bound
<1>3. CASE HardeningPass
  <2>1. UNCHANGED run
    BY <1>3
       DEF HardeningPass, PassStart, RecoverUnclaim, RecoverEmails,
           SweepQueue, SweepQueueFails, Recover, SweepRemove, Observe, EmailClaim, LookStart,
           ClaimEvent, Recheck, ClaimRoom, Boundary, Commit, Snapshot, SnapshotFails, Reopen,
           Release, Complete, EmailsStart, EmailAccepted, EmailSent, EmailFails, PassEnd,
           PassAborts, retentionVars
  <2>2. pass'.pc \in Visiting => pass'.session \in Sessions
    <3>1. pass \in Pass /\ (pass.pc \in Visiting => pass.session \in Sessions)
      BY DEF TypeOK, Bound
    <3>2. CASE PassStart \/ RecoverUnclaim \/ RecoverEmails \/ SweepQueue \/ SweepQueueFails
      BY <3>1, <3>2 DEF PassStart, RecoverUnclaim, RecoverEmails, SweepQueue, SweepQueueFails,
                        NextVisit, IdlePass, Visiting, Pass
    <3>3. ASSUME NEW l \in Sessions, Recover(l) \/ SweepRemove(l) \/ Observe(l) \/ EmailClaim(l)
          PROVE  pass'.pc \in Visiting => pass'.session \in Sessions
      BY <3>1, <3>3 DEF Recover, SweepRemove, Observe, EmailClaim, Visit, Skip, Visiting, Pass
    <3>4. CASE LookStart \/ Release \/ Complete \/ EmailSent \/ EmailFails
      BY <3>1, <3>4 DEF LookStart, Release, Complete, EmailSent, EmailFails, NextVisit, Visiting,
                        Pass
    <3>6. CASE ClaimEvent
      BY <3>1, <3>6 DEF ClaimEvent, NextVisit, Visiting, Pass
    <3>7. CASE EmailsStart \/ PassEnd \/ PassAborts
      BY <3>7 DEF EmailsStart, PassEnd, PassAborts, IdlePass, Visiting
    <3>5. CASE Recheck \/ ClaimRoom \/ Boundary \/ Commit \/ Snapshot \/ SnapshotFails
               \/ Reopen \/ EmailAccepted
      BY <3>1, <3>5 DEF Recheck, ClaimRoom, Boundary, Commit, Snapshot, SnapshotFails, Reopen,
                  EmailAccepted, PassStep, Visiting, Pass
    <3> QED BY <1>3, <3>2, <3>3, <3>4, <3>5, <3>6, <3>7 DEF HardeningPass
  <2>3. \A d \in Callers : call'[d].pc # "idle" => call'[d].session \in Sessions
    <3>1. CASE Snapshot
      BY <3>1, RunsAreCallers DEF Snapshot, PassStep, Bound, Visiting, TypeOK, Call
    <3> QED BY <1>3, <3>1
       DEF HardeningPass, PassStart, RecoverUnclaim, RecoverEmails,
           SweepQueue, SweepQueueFails, Recover, SweepRemove, Observe, EmailClaim, LookStart,
           ClaimEvent, Recheck, ClaimRoom, Boundary, Commit, SnapshotFails, Reopen,
           Release, Complete, EmailsStart, EmailAccepted, EmailSent, EmailFails, PassEnd,
           PassAborts, Bound
  <2> QED BY <2>1, <2>2, <2>3 DEF Bound
<1>4. ASSUME NEW w \in Runs, ProcessJob(w) PROVE Bound'
  <2>1. /\ UNCHANGED <<call, pass>>
        /\ run'[w].pc # "idle" => run'[w].session \in Sessions
        /\ \A v \in Runs \ {w} : run'[v] = run[v]
    BY <1>4, ProcessFrame
  <2> QED BY <2>1 DEF Bound
<1>5. CASE Environment
  <2>1. ASSUME NEW c \in Closers, NEW l \in Sessions, NEW quiet \in Quiet, CloseClaim(c, l, quiet)
        PROVE  Bound'
    BY <2>1 DEF CloseClaim, Bound, TypeOK, Call
  <2>2. ASSUME NEW l \in Sessions, TakeUp(l) PROVE Bound'
    BY <2>2, RunsAreCallers DEF TakeUp, Claim, closeVars, Bound, TypeOK, RetentionTypeOK, Run
  <2>3. ASSUME NEW l \in Sessions,
               \/ NcoSeen(l) \/ NcoAway(l) \/ ClaimAges(l) \/ CloseAges(l)
               \/ JobRetries(l) \/ LeaseEnds(l) \/ JobExpires(l)
        PROVE  Bound'
    BY <2>3 DEF NcoSeen, NcoAway, ClaimAges, CloseAges, JobRetries, RetryDue, LeaseEnds,
                LeaseLapses, JobExpires, ChatExpires, retentionVars, closeVars, Bound
  <2>4. CASE Crash
    BY <2>4 DEF Crash, IdleRun, IdleCall, IdlePass, Visiting, Bound
  <2> QED BY <1>5, <2>1, <2>2, <2>3, <2>4 DEF Environment
<1> QED BY <1>1, <1>2, <1>3, <1>4, <1>5, Steps

\* Where a step of a closeNet call leaves it.
LEMMA CloseOutcome ==
    ASSUME TypeOK, NEW c \in Callers, CloseStep(c)
    PROVE  \/ CloseRetain(c) /\ call[c].pc = "claimed" /\ call'[c].pc = "retained"
           \/ CloseRemove(c) /\ call[c].pc = "retained" /\ call'[c].pc = "removed"
           \/ CloseProcess(c) /\ call[c].pc = "removed" /\ call'[c].pc = "idle"
           \/ CloseFalse(c) /\ call'[c].pc = "idle" /\ UNCHANGED run
<1>1. call \in [Callers -> Call]
  BY DEF TypeOK
<1>2. CASE CloseRetain(c)
  BY <1>1, <1>2 DEF CloseRetain, CallStep, Call
<1>3. CASE CloseRemove(c)
  BY <1>1, <1>3 DEF CloseRemove, CallStep, Call
<1>4. CASE CloseProcess(c)
  BY <1>1, <1>4 DEF CloseProcess, IdleCall
<1>5. CloseFalse(c) => call'[c].pc = "idle"
  BY <1>1 DEF CloseFalse, IdleCall
<1>6. CASE CloseReopen(c) \/ CloseFail(c)
  BY <1>5, <1>6 DEF CloseReopen, CloseFail
<1> QED BY <1>2, <1>3, <1>4, <1>6 DEF CloseStep

\* A session that has gone does not come back.
LEMMA GoneStays ==
    ASSUME TypeOK, Bound, [Next]_vars, NEW l \in Sessions, room[l] = "gone"
    PROVE  room'[l] = "gone"
<1> USE DEF TypeOK, RetentionTypeOK
<1>1. CASE UNCHANGED vars
  BY <1>1 DEF vars, retentionVars
<1>2. ASSUME NEW c \in Callers, CloseStep(c) PROVE room'[l] = "gone"
  BY <1>2 DEF CloseStep, CloseRetain, CloseReopen, CloseRemove, CloseProcess, CloseFail, Reopened,
              Closing
<1>3. CASE HardeningPass
  <2>1. ASSUME NEW k \in Sessions, Recover(k) \/ SweepRemove(k) \/ Observe(k) \/ EmailClaim(k)
        PROVE  room'[l] = "gone"
    BY <2>1 DEF Recover, SweepRemove, Observe, EmailClaim, Reopened, Closing
  <2>2. CASE ClaimRoom \/ Reopen
    BY <2>2 DEF ClaimRoom, Reopen, Reopened, Closing
  <2> QED BY <1>3, <2>1, <2>2
     DEF HardeningPass, PassStart, RecoverUnclaim, RecoverEmails, SweepQueue, SweepQueueFails,
         LookStart, ClaimEvent, Recheck, Boundary, Commit, Snapshot, SnapshotFails, Release,
         Complete, EmailsStart, EmailAccepted, EmailSent, EmailFails, PassEnd, PassAborts,
         retentionVars
<1>4. ASSUME NEW w \in Runs, ProcessJob(w) PROVE room'[l] = "gone"
  BY <1>4, ProcessFrame
<1>5. CASE Environment
  BY <1>5 DEF Environment, CloseClaim, TakeUp, Claim, NcoSeen, NcoAway, ClaimAges, CloseAges,
      JobRetries, RetryDue, LeaseEnds, LeaseLapses, JobExpires, ChatExpires, Crash, retentionVars
<1> QED BY <1>1, <1>2, <1>3, <1>4, <1>5, Steps

LEMMA AutoCallsStep ==
    ASSUME TypeOK, Bound, AutoCalls, [Next]_vars
    PROVE  AutoCalls'
<1>1. CASE UNCHANGED vars
  BY <1>1 DEF vars, retentionVars, closeVars, AutoCalls
<1>2. ASSUME NEW c \in Callers, CloseStep(c) PROVE AutoCalls'
  <2>1. ASSUME NEW d \in Callers, call'[d].pc = "removed" PROVE room'[call'[d].session] = "gone"
    <3>1. CASE call[d].pc = "removed" /\ call'[d] = call[d]
      BY <3>1, GoneStays DEF AutoCalls, Bound
    <3>2. CASE d = c /\ call'[d] # call[d]
      <4>1. CloseRemove(c)
        BY <1>2, <2>1, <3>2, CloseOutcome
      <4> QED BY <4>1, <3>2, <1>2, CloseFrame DEF CloseRemove, CallStep, TypeOK, RetentionTypeOK, Call
    <3> QED BY <1>2, <2>1, <3>1, <3>2, CloseFrame
  <2>2. CASE c # AutoCloser
    <3>1. pass' = pass /\ call'[AutoCloser] = call[AutoCloser]
      BY <1>2, <2>2, CloseFrame, RunsAreCallers
    <3> QED BY <2>1, <3>1, GoneStays DEF AutoCalls, Bound, Visiting
  <2>3. CASE c = AutoCloser /\ pass' = pass
    <3>1. call[c].pc # "idle" /\ pass.pc = "close" /\ call[c].session = pass.session
      BY <1>2, <2>3, CloseFrame DEF AutoCalls
    <3>2. call'[c].pc # "idle" => call'[c].session = pass.session
      BY <1>2, <3>1, CloseFrame
    <3>3. call'[c].pc = "idle" => room'[pass.session] = "gone"
      <4>1. ASSUME call'[c].pc = "idle" PROVE call[c].pc = "removed"
        <5>1. ~CloseFalse(c)
          BY <2>3, <3>1 DEF CloseFalse, TypeOK, Pass
        <5> QED BY <1>2, <4>1, <5>1, CloseOutcome
      <4> QED BY <4>1, <3>1, GoneStays DEF AutoCalls, Bound, Visiting
    <3> QED BY <2>1, <2>3, <3>1, <3>2, <3>3 DEF AutoCalls
  <2>4. CASE c = AutoCloser /\ pass' # pass
    <3>1. pass'.pc = "reopen"
      BY <1>2, <2>4, CloseFrame DEF TypeOK, Pass
    <3>2. call'[c].pc = "idle"
      BY <1>2, <2>4, CloseOutcome DEF CloseRetain, CloseRemove, CloseProcess
    <3> QED BY <2>1, <2>4, <3>1, <3>2 DEF AutoCalls
  <2> QED BY <2>2, <2>3, <2>4
<1>3. CASE HardeningPass
  <2>1. CASE Snapshot
    BY <2>1, GoneStays, RunsAreCallers
       DEF Snapshot, PassStep, AutoCalls, Bound, Visiting, TypeOK, RetentionTypeOK, Pass
  <2>2. CASE ~Snapshot
    <3>1. call' = call
      BY <1>3, <2>2
         DEF HardeningPass, PassStart, RecoverUnclaim, RecoverEmails, SweepQueue,
             SweepQueueFails, Recover, SweepRemove, Observe, EmailClaim, LookStart, ClaimEvent,
             Recheck, ClaimRoom, Boundary, Commit, SnapshotFails, Reopen, Release,
             Complete, EmailsStart, EmailAccepted, EmailSent, EmailFails, PassEnd, PassAborts
    <3>2. pass'.pc # "close" /\ (pass.pc = "close" => call[AutoCloser].pc = "idle")
      <4>1. pass \in Pass
        BY DEF TypeOK
      <4>2. CASE PassStart \/ RecoverUnclaim \/ RecoverEmails \/ SweepQueue \/ SweepQueueFails
        BY <4>1, <4>2 DEF PassStart, RecoverUnclaim, RecoverEmails, SweepQueue, SweepQueueFails,
                          NextVisit, IdlePass, Pass
      <4>3. ASSUME NEW l \in Sessions, Recover(l) \/ SweepRemove(l) \/ Observe(l) \/ EmailClaim(l)
            PROVE  pass'.pc # "close" /\ pass.pc # "close"
        BY <4>1, <4>3 DEF Recover, SweepRemove, Observe, EmailClaim, Visit, Skip, Pass
      <4>4. CASE LookStart \/ Release \/ Complete \/ EmailSent \/ EmailFails
        BY <4>1, <4>4 DEF LookStart, Release, Complete, EmailSent, EmailFails, NextVisit, Pass
      <4>5. CASE ClaimEvent
        BY <4>1, <4>5 DEF ClaimEvent, NextVisit, Pass
      <4>6. CASE EmailsStart \/ PassEnd \/ PassAborts
        BY <4>6 DEF EmailsStart, PassEnd, PassAborts, IdlePass
      <4>7. CASE Recheck \/ ClaimRoom \/ Boundary \/ Commit \/ SnapshotFails
                 \/ Reopen \/ EmailAccepted
        BY <4>1, <4>7 DEF Recheck, ClaimRoom, Boundary, Commit, SnapshotFails, Reopen,
                          EmailAccepted, PassStep, Pass
      <4> QED BY <1>3, <2>2, <4>2, <4>3, <4>4, <4>5, <4>6, <4>7 DEF HardeningPass
    <3> QED BY <3>1, <3>2, GoneStays DEF AutoCalls, Bound
  <2> QED BY <2>1, <2>2
<1>4. ASSUME NEW w \in Runs, ProcessJob(w) PROVE AutoCalls'
  BY <1>4, ProcessFrame DEF AutoCalls
<1>5. CASE Environment
  <2>1. ASSUME NEW c \in Closers, NEW l \in Sessions, NEW quiet \in Quiet, CloseClaim(c, l, quiet)
        PROVE  AutoCalls'
    <3>1. /\ pass' = pass /\ call'[AutoCloser] = call[AutoCloser] /\ call'[c].pc = "claimed"
          /\ \A d \in Callers \ {c} : call'[d] = call[d]
      BY <2>1, RunsAssumption DEF CloseClaim, TypeOK, Callers
    <3> QED BY <3>1, GoneStays DEF AutoCalls, Bound, Visiting
  <2>2. ASSUME NEW l \in Sessions,
               \/ TakeUp(l) \/ NcoSeen(l) \/ NcoAway(l) \/ ClaimAges(l) \/ CloseAges(l)
               \/ JobRetries(l) \/ LeaseEnds(l) \/ JobExpires(l)
        PROVE  AutoCalls'
    <3>1. UNCHANGED <<call, pass>>
      BY <2>2 DEF TakeUp, NcoSeen, NcoAway, ClaimAges, CloseAges, JobRetries, LeaseEnds,
                  JobExpires, closeVars
    <3> QED BY <3>1, GoneStays DEF AutoCalls, Bound, Visiting
  <2>3. CASE Crash
    <3>1. UNCHANGED room
      BY <2>3 DEF Crash
    <3>2. \A d \in Callers : call'[d] = call[d] \/ call'[d].pc = "idle"
      BY <2>3 DEF Crash, IdleCall
    <3>3. \/ pass' = pass /\ call'[AutoCloser] = call[AutoCloser]
          \/ pass'.pc = "idle" /\ call'[AutoCloser].pc = "idle"
      BY <2>3, RunsAreCallers DEF Crash, IdleCall, IdlePass
    <3> QED BY <3>1, <3>2, <3>3 DEF AutoCalls
  <2> QED BY <1>5, <2>1, <2>2, <2>3 DEF Environment
<1> QED BY <1>1, <1>2, <1>3, <1>4, <1>5, Steps

-----------------------------------------------------------------------------
(* Events *)

\* Outside of its own steps the pass only ends or gives up a close, and nobody else
\* changes what an event says of the close.
LEMMA EventFrame ==
    ASSUME TypeOK, Bound, AutoCalls, [Next]_vars, ~HardeningPass
    PROVE  /\ \/ pass' = pass
              \/ pass'.pc = "idle"
              \/ /\ pass.pc = "close" /\ pass'.pc = "reopen"
                 /\ pass'.session = pass.session /\ pass'.todo = pass.todo
           /\ \A l \in Sessions :
                 /\ event'[l].close = event[l].close
                 /\ \/ event'[l].email = event[l].email
                    \/ event[l].email = "failed" /\ event'[l].email = "pending"
<1>1. CASE UNCHANGED vars
  BY <1>1 DEF vars, retentionVars, closeVars
<1>2. ASSUME NEW c \in Callers, CloseStep(c)
      PROVE  /\ UNCHANGED event
             /\ \/ pass' = pass
                \/ /\ pass.pc = "close" /\ pass'.pc = "reopen"
                   /\ pass'.session = pass.session /\ pass'.todo = pass.todo
  BY <1>2, CloseFrame DEF AutoCalls, TypeOK, Pass
<1>3. ASSUME NEW w \in Runs, ProcessJob(w)
      PROVE  /\ UNCHANGED pass
             /\ \A l \in Sessions :
                   /\ event'[l].close = event[l].close
                   /\ \/ event'[l].email = event[l].email
                      \/ event[l].email = "failed" /\ event'[l].email = "pending"
  BY <1>3, ProcessFrame
<1>4. CASE Environment
  <2>1. pass' = pass \/ pass'.pc = "idle"
    BY <1>4
       DEF Environment, CloseClaim, TakeUp, NcoSeen, NcoAway, ClaimAges, CloseAges, JobRetries,
           LeaseEnds, JobExpires, Crash, IdlePass, closeVars
  <2>2. UNCHANGED event \/ \E l \in Sessions : ClaimAges(l)
    BY <1>4
       DEF Environment, CloseClaim, TakeUp, Claim, NcoSeen, NcoAway, CloseAges, JobRetries,
           RetryDue, LeaseEnds, LeaseLapses, JobExpires, ChatExpires, Crash, retentionVars
  <2>3. \A l \in Sessions : event'[l].close = event[l].close /\ event'[l].email = event[l].email
    BY <2>2 DEF ClaimAges, TypeOK, RetentionTypeOK, Event
  <2> QED BY <2>1, <2>3
<1> QED BY <1>1, <1>2, <1>3, <1>4, Steps

LEMMA EventStep ==
    ASSUME TypeOK, EventInv, [Next]_vars
    PROVE  EventsHeld' /\ CompletedIsGone' /\ MailedIsCompleted'
<1>1. /\ event \in [Sessions -> Event] /\ pass \in Pass
      /\ pass.pc \in Visiting => pass.session \in Sessions
      /\ \A l \in Sessions : room[l] = "gone" => room'[l] = "gone"
  BY GoneStays DEF TypeOK, RetentionTypeOK, EventInv, Bound
<1>2. EventsHeld /\ CompletedIsGone /\ MailedIsCompleted
  BY DEF EventInv
<1>3. CASE ~HardeningPass
  <2>1. /\ \/ pass' = pass
           \/ pass'.pc = "idle"
           \/ /\ pass.pc = "close" /\ pass'.pc = "reopen"
              /\ pass'.session = pass.session /\ pass'.todo = pass.todo
        /\ \A l \in Sessions :
              /\ event'[l].close = event[l].close
              /\ \/ event'[l].email = event[l].email
                 \/ event[l].email = "failed" /\ event'[l].email = "pending"
    BY <1>3, EventFrame DEF EventInv
  <2>2. EventsHeld'
    BY <1>1, <1>2, <2>1 DEF EventsHeld, Claiming, Visiting, Pass
  <2> QED BY <1>1, <1>2, <2>1, <2>2 DEF CompletedIsGone, MailedIsCompleted
<1>4. CASE PassStart
  BY <1>1, <1>2, <1>4
     DEF PassStart, IdlePass, retentionVars, EventsHeld, CompletedIsGone, MailedIsCompleted, Claiming
<1>5. ASSUME NEW l \in Sessions, Recover(l)
      PROVE  EventsHeld' /\ CompletedIsGone' /\ MailedIsCompleted'
  <2>1. event[l].close = "claimed" /\ pass.pc = "recover" /\ l \in pass.todo
    BY <1>2, <1>5 DEF Recover, EventsHeld
  <2>2. CASE room[l] # "gone"
    BY <1>1, <1>2, <1>5, <2>1, <2>2
       DEF Recover, Visit, EventsHeld, CompletedIsGone, MailedIsCompleted, Claiming, Pass
  <2>3. CASE room[l] = "gone"
    <3>1. /\ \A k \in Sessions \ {l} : event'[k] = event[k]
          /\ event'[l].close \in {"completed", "pending"} /\ event'[l].email = event[l].email
          /\ pass'.pc = "recover" /\ pass'.todo = pass.todo \ {l}
      BY <1>1, <1>5, <2>1, <2>3 DEF Recover, Skip, Event, Pass
    <3>2. pass.todo \subseteq Sessions
      BY <1>1 DEF Pass
    <3>3. EventsHeld'
      BY <1>2, <2>1, <3>1, <3>2 DEF EventsHeld, Claiming
    <3>4. CompletedIsGone'
      BY <1>1, <1>2, <2>3, <3>1 DEF CompletedIsGone
    <3>5. MailedIsCompleted'
      BY <1>2, <2>1, <3>1 DEF MailedIsCompleted
    <3> QED BY <3>3, <3>4, <3>5
  <2> QED BY <2>2, <2>3
<1>6. CASE RecoverUnclaim
  <2>1. /\ pass.pc = "unclaim" /\ pass.session \in Sessions
        /\ \A k \in Sessions \ {pass.session} : event'[k] = event[k]
        /\ event'[pass.session].close = "pending"
        /\ event'[pass.session].email = event[pass.session].email
        /\ pass'.pc = "recover" /\ pass'.todo = pass.todo \ {pass.session}
        /\ pass.todo \subseteq Sessions
    BY <1>1, <1>6 DEF RecoverUnclaim, Unclaimed, NextVisit, Visiting, Event, Pass
  <2>2. EventsHeld'
    BY <1>2, <2>1 DEF EventsHeld, Claiming
  <2> QED BY <1>1, <1>2, <2>1, <2>2
          DEF EventsHeld, CompletedIsGone, MailedIsCompleted, Claiming
<1>7. CASE RecoverEmails
  <2>1. /\ \A l \in Sessions : event'[l].close = event[l].close
        /\ \A l \in Sessions : event'[l].email = event[l].email \/ event[l].close = "completed"
        /\ pass'.pc = "sweep"
    BY <1>1, <1>7 DEF RecoverEmails, Event, Pass
  <2> QED BY <1>1, <1>2, <2>1
          DEF EventsHeld, CompletedIsGone, MailedIsCompleted, Claiming
<1>8. CASE SweepQueue \/ SweepQueueFails
  BY <1>1, <1>2, <1>8
     DEF SweepQueue, SweepQueueFails, NextVisit, EventsHeld, CompletedIsGone, MailedIsCompleted,
         Claiming, Pass, retentionVars
<1>9. ASSUME NEW l \in Sessions, SweepRemove(l)
      PROVE  EventsHeld' /\ CompletedIsGone' /\ MailedIsCompleted'
  BY <1>1, <1>2, <1>9
     DEF SweepRemove, Visit, Skip, EventsHeld, CompletedIsGone, MailedIsCompleted, Claiming, Pass
<1>10. ASSUME NEW l \in Sessions, Observe(l)
       PROVE  EventsHeld' /\ CompletedIsGone' /\ MailedIsCompleted'
  <2>1. /\ \A k \in Sessions : event'[k].email = event[k].email
        /\ \A k \in Sessions : event'[k].close = "completed" <=> event[k].close = "completed"
        /\ pass'.pc \in {"look", "claim"}
    BY <1>1, <1>10 DEF Observe, Visit, Skip, Event, Pass
  <2> QED BY <1>1, <1>2, <2>1
          DEF EventsHeld, CompletedIsGone, MailedIsCompleted, Claiming
<1>11. ASSUME NEW l \in Sessions, EmailClaim(l)
       PROVE  EventsHeld' /\ CompletedIsGone' /\ MailedIsCompleted'
  <2>1. /\ event[l].close = "completed"
        /\ \A k \in Sessions : event'[k].close = event[k].close
        /\ \A k \in Sessions \ {l} : event'[k].email = event[k].email
        /\ pass'.pc = "mailing" /\ pass'.session = l
    BY <1>1, <1>11 DEF EmailClaim, Outbox, Visit, Event, Pass
  <2> QED BY <1>1, <1>2, <2>1
          DEF EventsHeld, CompletedIsGone, MailedIsCompleted, Claiming
<1>12. CASE LookStart
  BY <1>1, <1>2, <1>12
     DEF LookStart, retentionVars, EventsHeld, CompletedIsGone, MailedIsCompleted, Claiming, Pass
<1>13. CASE ClaimEvent
  <2>1. pass.pc = "claim" /\ pass.session \in Sessions
    BY <1>1, <1>13 DEF ClaimEvent, Visiting
  <2>2. CASE event[pass.session].close = "pending"
    BY <1>1, <1>2, <1>13, <2>1, <2>2
       DEF ClaimEvent, EventsHeld, CompletedIsGone, MailedIsCompleted, Claiming, Pass, Event
  <2>3. CASE event[pass.session].close # "pending"
    BY <1>1, <1>2, <1>13, <2>1, <2>3
       DEF ClaimEvent, NextVisit, EventsHeld, CompletedIsGone, MailedIsCompleted, Claiming, Pass
  <2> QED BY <2>2, <2>3
<1>14. CASE Recheck \/ ClaimRoom \/ Boundary \/ SnapshotFails \/ Reopen
  <2>1. /\ UNCHANGED event /\ pass'.session = pass.session
        /\ pass.pc \in Claiming \ {"unclaim"} /\ pass'.pc \in Claiming \ {"unclaim"}
    BY <1>1, <1>14
       DEF Recheck, ClaimRoom, Boundary, SnapshotFails, Reopen, PassStep, retentionVars, Claiming,
           Pass
  <2> QED BY <1>1, <1>2, <2>1
          DEF EventsHeld, CompletedIsGone, MailedIsCompleted, Claiming
<1>15. CASE Commit \/ Snapshot
  <2>1. /\ \A k \in Sessions : event'[k].close = event[k].close /\ event'[k].email = event[k].email
        /\ pass'.session = pass.session /\ pass.session \in Sessions
        /\ pass.pc \in {"commit", "snapshot"} /\ pass'.pc \in {"snapshot", "close"}
    BY <1>1, <1>15 DEF Commit, Snapshot, PassStep, Visiting, Event, Pass
  <2> QED BY <1>1, <1>2, <2>1
          DEF EventsHeld, CompletedIsGone, MailedIsCompleted, Claiming
<1>16. CASE Release
  <2>1. /\ pass.pc = "release" /\ pass.session \in Sessions
        /\ \A k \in Sessions \ {pass.session} : event'[k] = event[k]
        /\ event'[pass.session].close = "pending"
        /\ event'[pass.session].email = event[pass.session].email
        /\ pass'.pc = "look"
    BY <1>1, <1>16 DEF Release, Unclaimed, NextVisit, Visiting, Event, Pass
  <2> QED BY <1>1, <1>2, <2>1
          DEF EventsHeld, CompletedIsGone, MailedIsCompleted, Claiming
<1>17. CASE Complete
  <2>1. /\ pass.pc = "close" /\ pass.session \in Sessions
        /\ \A k \in Sessions \ {pass.session} : event'[k] = event[k]
        /\ event'[pass.session].close = "completed"
        /\ pass'.pc = "look"
    BY <1>1, <1>17 DEF Complete, NextVisit, Visiting, Event, Pass
  <2>2. room[pass.session] = "gone"
    BY <1>17, <2>1 DEF Complete, EventInv, AutoCalls
  <2> QED BY <1>1, <1>2, <2>1, <2>2
          DEF EventsHeld, CompletedIsGone, MailedIsCompleted, Claiming
<1>18. CASE EmailsStart \/ PassEnd \/ PassAborts
  <2>1. UNCHANGED event /\ pass'.pc \in {"emails", "idle"}
    BY <1>18 DEF EmailsStart, PassEnd, PassAborts, IdlePass, retentionVars
  <2> QED BY <1>1, <1>2, <2>1
          DEF EventsHeld, CompletedIsGone, MailedIsCompleted, Claiming
<1>19. CASE EmailAccepted
  <2>1. UNCHANGED event /\ pass'.pc = "mailed" /\ pass'.session = pass.session /\ pass.pc = "mailing"
    BY <1>1, <1>19 DEF EmailAccepted, PassStep, Pass
  <2> QED BY <1>1, <1>2, <2>1
          DEF EventsHeld, CompletedIsGone, MailedIsCompleted, Claiming
<1>20. CASE EmailSent \/ EmailFails
  <2>1. /\ pass.pc \in {"mailing", "mailed"} /\ pass.session \in Sessions
        /\ \A k \in Sessions : event'[k].close = event[k].close
        /\ \A k \in Sessions \ {pass.session} : event'[k] = event[k]
        /\ pass'.pc = "emails"
    <3>1. pass.pc \in {"mailing", "mailed"} /\ pass.session \in Sessions /\ pass'.pc = "emails"
      BY <1>1, <1>20 DEF EmailSent, EmailFails, Visiting, Pass
    <3>2. \/ event' = [event EXCEPT ![pass.session].email = "sent"]
          \/ event' = [event EXCEPT ![pass.session].email = "failed"]
      BY <1>20 DEF EmailSent, EmailFails
    <3> QED BY <1>1, <3>1, <3>2 DEF Event
  <2> QED BY <1>1, <1>2, <2>1
          DEF EventsHeld, CompletedIsGone, MailedIsCompleted, Claiming
<1> QED BY <1>3, <1>4, <1>5, <1>6, <1>7, <1>8, <1>9, <1>10, <1>11, <1>12, <1>13, <1>14, <1>15,
           <1>16, <1>17, <1>18, <1>19, <1>20
        DEF HardeningPass

LEMMA EventInvInit == Init => EventInv
<1> SUFFICES ASSUME Init PROVE EventInv
  OBVIOUS
<1>1. Bound
  BY TypeInit
<1>2. AutoCalls /\ EventsHeld /\ CompletedIsGone /\ MailedIsCompleted
  BY RunsAreCallers
     DEF Init, RetentionInit, NoEvent, IdleCall, IdlePass, AutoCalls, EventsHeld, Claiming,
         CompletedIsGone, MailedIsCompleted
<1> QED BY <1>1, <1>2 DEF EventInv

LEMMA EventInvStep == TypeOK /\ EventInv /\ [Next]_vars => TypeOK' /\ EventInv'
BY TypeStep, BoundStep, AutoCallsStep, EventStep DEF EventInv

LEMMA EventInvariant == Spec => [](TypeOK /\ EventInv)
<1>1. Init => TypeOK /\ EventInv
  BY TypeInit, EventInvInit
<1> QED BY <1>1, EventInvStep, PTL DEF Spec

(* Every variable keeps its type. *)
THEOREM TypeCorrect == Spec => []TypeOK
BY EventInvariant, PTL

(* recoverAutoCloseClaims, processAbandonedLiveNets: an event is completed only
   when its session has gone, whatever crashed in between. *)
THEOREM CompletedSessionsAreGone == Spec => []CompletedIsGone
<1>1. EventInv => CompletedIsGone
  BY DEF EventInv
<1> QED BY <1>1, EventInvariant, PTL

(* processAutoCloseEmails: the e-mail of an event is touched only once its close
   is completed. *)
THEOREM MailsFollowCompletion == Spec => []MailedIsCompleted
<1>1. EventInv => MailedIsCompleted
  BY DEF EventInv
<1> QED BY <1>1, EventInvariant, PTL

-----------------------------------------------------------------------------
(* What a step does to jobs and to the calls that process them *)

\* Call w takes the lease of l's job and reads the job with it.
Claims(w, l) ==
    /\ job[l].report \in Reports
    /\ job'[l].holder = w
    /\ job'[l].report = job[l].report /\ job'[l].expired = job[l].expired
    /\ \A k \in Sessions \ {l} : job'[k] = job[k]
    /\ run'[w].session = l /\ run'[w].pc = "claimed"
    /\ run'[w].report = job[l].report /\ run'[w].expired = job[l].expired
    /\ delivered' = delivered

\* It goes on with the job as it read it, perhaps with a report that is final now.
GoesOn(w) ==
    /\ Working(w) /\ UNCHANGED job
    /\ run'[w].session = Session(w) /\ run'[w].expired = run[w].expired
    /\ run'[w].pc \notin {"idle", "start", "clean"}
    /\ \/ run'[w].report = run[w].report /\ run'[w].pc # "record" /\ delivered' = delivered
       \/ /\ run'[w].pc = "record" /\ run'[w].report \in {"sent", "skipped"}
          /\ \/ run'[w].report = run[w].report
             \/ run[w].report \in {"external", "pending", "failed"}
          /\ delivered \subseteq delivered'
          /\ run'[w].report = "sent" => Session(w) \in delivered'

\* It writes the report's state down under its lease.
Records(w) ==
    /\ Holds(w) /\ run[w].pc = "record"
    /\ job'[Session(w)].report = run[w].report
    /\ job'[Session(w)].holder = w
    /\ job'[Session(w)].expired = job[Session(w)].expired
    /\ \A k \in Sessions \ {Session(w)} : job'[k] = job[k]
    /\ run'[w].session = Session(w)
    /\ run'[w].report = run[w].report /\ run'[w].expired = run[w].expired
    /\ run'[w].pc \in {"clean", "postpone"} /\ (run'[w].pc = "clean" => run[w].expired)
    /\ delivered' = delivered

\* It ends, and gives up the lease if it still has it.
Ends(w) ==
    /\ run'[w].pc = "idle"
    /\ \/ UNCHANGED job
       \/ /\ Holds(w) /\ Working(w)
          /\ job'[Session(w)].holder = Nobody
          /\ job'[Session(w)].expired = job[Session(w)].expired
          /\ \/ job'[Session(w)].report = job[Session(w)].report
             \/ /\ job'[Session(w)].report = run[w].report
                /\ run[w].report \in {"sent", "skipped", "external"}
             \/ job'[Session(w)].report = "failed" /\ run[w].report \in {"pending", "failed"}
          /\ \A k \in Sessions \ {Session(w)} : job'[k] = job[k]
    /\ delivered' = delivered

\* The job of l as far as the invariants go, and the job renewed.
Kept(l) ==
    /\ job'[l].holder = job[l].holder /\ job'[l].report = job[l].report
    /\ job[l].expired => job'[l].expired
    /\ job'[l].expired => job[l].expired \/ JobExpires(l)
Renewed(l) ==
    /\ job'[l].holder = job[l].holder /\ job'[l].report \in {"pending", "skipped", "external"}
    /\ ~job[l].expired /\ ~job'[l].expired

\* Any other step.
Elsewhere ==
    /\ \A w \in Runs : run'[w] = run[w] \/ run'[w].pc \in {"idle", "start"}
    /\ \A l \in Sessions : Kept(l) \/ Renewed(l)
    /\ delivered \subseteq delivered'

LEMMA ClaimEffect ==
    ASSUME TypeOK, NEW w \in Runs, NEW l \in Sessions, Claim(w, l)
    PROVE  Claims(w, l) /\ \A v \in Runs \ {w} : run'[v] = run[v]
<1>1. job \in [Sessions -> Job] /\ run \in [Runs -> Run]
  BY DEF TypeOK, RetentionTypeOK
<1>2. job[l].report \in Reports
  BY <1>1 DEF Claim, Claimable, Queued, Job
<1>3. /\ job' = [job EXCEPT ![l].holder = w, ![l].leased = TRUE]
      /\ run' = [run EXCEPT ![w] = [pc |-> "claimed", session |-> l,
                                    report |-> job[l].report, expired |-> job[l].expired]]
      /\ delivered' = delivered
  BY DEF Claim
<1>4. /\ job'[l].holder = w
      /\ job'[l].report = job[l].report /\ job'[l].expired = job[l].expired
      /\ \A k \in Sessions \ {l} : job'[k] = job[k]
  BY <1>1, <1>3 DEF Job
<1>5. /\ run'[w].session = l /\ run'[w].pc = "claimed"
      /\ run'[w].report = job[l].report /\ run'[w].expired = job[l].expired
      /\ \A v \in Runs \ {w} : run'[v] = run[v]
  BY <1>1, <1>3
<1> QED BY <1>2, <1>3, <1>4, <1>5 DEF Claims

LEMMA ProcessEffect ==
    ASSUME TypeOK, Bound, SentIsDelivered, RecordIsFinal, NEW w \in Runs, ProcessJob(w)
    PROVE  \/ At(w, "start") /\ Claims(w, Session(w))
           \/ GoesOn(w) \/ Records(w) \/ Ends(w)
<1>1. /\ job \in [Sessions -> Job] /\ run \in [Runs -> Run] /\ event \in [Sessions -> Event]
      /\ Session(w) \in Sessions /\ run[w].report \in Reports
  BY ProcessFrame DEF TypeOK, RetentionTypeOK, Run
<1>2. Return(w) => run'[w].pc = "idle"
  BY <1>1 DEF Return, IdleRun
<1>3. \A pc \in {"report", "record", "postpone", "clean", "finish", "fail"} :
        Continue(w, pc) =>
           /\ run'[w].pc = pc /\ run'[w].session = Session(w)
           /\ run'[w].report = run[w].report /\ run'[w].expired = run[w].expired
  BY <1>1 DEF Continue, Session, Run
<1>4. ASSUME NEW report \in Reports,
             run' = [run EXCEPT ![w].report = report, ![w].pc = "record"]
      PROVE  /\ run'[w].pc = "record" /\ run'[w].session = Session(w)
             /\ run'[w].report = report /\ run'[w].expired = run[w].expired
  BY <1>1, <1>4 DEF Session, Run
<1>5. ASSUME NEW doc \in Job, Holds(w), job' = IfHeld(w, doc)
      PROVE  job'[Session(w)] = doc /\ \A k \in Sessions \ {Session(w)} : job'[k] = job[k]
  BY <1>1, <1>5 DEF IfHeld
<1>6. ~Holds(w) => \A doc : IfHeld(w, doc) = job
  BY DEF IfHeld
<1>7. \A due \in {"now", "retry", "expiry"} :
        /\ Released(Session(w), due) \in Job
        /\ Released(Session(w), due).holder = Nobody
        /\ Released(Session(w), due).report = job[Session(w)].report
        /\ Released(Session(w), due).expired = job[Session(w)].expired
  BY <1>1 DEF Released, Job
<1>8. CASE ClaimNone(w)
  BY <1>2, <1>8 DEF ClaimNone, Ends
<1>9. CASE At(w, "start") /\ Claim(w, Session(w))
  BY <1>1, <1>9, ClaimEffect
<1>10. CASE CheckLive(w)
  <2>1. CASE StillLive(Session(w))
    <3>1. job' = IfHeld(w, Released(Session(w), "retry")) /\ run'[w].pc = "idle" /\ Working(w)
          /\ delivered' = delivered
      BY <1>2, <1>10, <2>1 DEF CheckLive, At, Working
    <3>2. CASE Holds(w)
      BY <1>5, <1>7, <3>1, <3>2 DEF Ends
    <3>3. CASE ~Holds(w)
      BY <1>6, <3>1, <3>3 DEF Ends
    <3> QED BY <3>2, <3>3
  <2>2. CASE ~StillLive(Session(w))
    BY <1>3, <1>10, <2>2 DEF CheckLive, At, Working, GoesOn
  <2> QED BY <2>1, <2>2
<1>11. CASE AwaitEmail(w)
  <2>1. CASE event[Session(w)].email = "sent"
    <3>1. run'[w].pc = "record" /\ run'[w].session = Session(w)
          /\ run'[w].report = "sent" /\ run'[w].expired = run[w].expired
      <4>1. run' = [run EXCEPT ![w].report = "sent", ![w].pc = "record"]
        BY <1>11, <2>1 DEF AwaitEmail
      <4>2. "sent" \in Reports
        BY DEF Reports
      <4> QED BY <1>4, <4>1, <4>2
    <3>2. Session(w) \in delivered
      BY <1>1, <2>1 DEF SentIsDelivered
    <3> QED BY <1>11, <3>1, <3>2 DEF AwaitEmail, At, Working, GoesOn
  <2>2. CASE event[Session(w)].email # "sent"
    BY <1>3, <1>11, <2>2 DEF AwaitEmail, At, Working, GoesOn
  <2> QED BY <2>1, <2>2
<1>12. CASE Deliver(w)
  <2>1. CASE run' = [run EXCEPT ![w].report = "sent", ![w].pc = "record"]
    <3>1. run'[w].pc = "record" /\ run'[w].session = Session(w)
          /\ run'[w].report = "sent" /\ run'[w].expired = run[w].expired
      BY <1>4, <2>1 DEF Reports
    <3>2. delivered' = delivered \cup {Session(w)}
      <4>1. run' # [run EXCEPT ![w].report = "skipped", ![w].pc = "record"]
        BY <1>4, <3>1 DEF Reports
      <4> QED BY <1>12, <4>1 DEF Deliver
    <3> QED BY <1>12, <3>1, <3>2 DEF Deliver, At, Working, GoesOn
  <2>2. CASE run' = [run EXCEPT ![w].report = "skipped", ![w].pc = "record"]
    <3>1. run'[w].pc = "record" /\ run'[w].session = Session(w)
          /\ run'[w].report = "skipped" /\ run'[w].expired = run[w].expired
      BY <1>4, <2>2 DEF Reports
    <3> QED BY <1>12, <3>1 DEF Deliver, At, Working, GoesOn
  <2> QED BY <1>12, <2>1, <2>2 DEF Deliver
<1>13. CASE NoReport(w)
  <2>1. Working(w) /\ (run[w].report = "sent" => Session(w) \in delivered)
    BY <1>13 DEF NoReport, At, Working, SentIsDelivered, Session
  <2> QED BY <1>3, <1>13, <2>1 DEF NoReport, GoesOn
<1>14. CASE Record(w)
  <2>1. CASE Holds(w)
    <3>1. [job[Session(w)] EXCEPT !.report = run[w].report] \in Job
      BY <1>1 DEF Job
    <3>2. /\ job'[Session(w)] = [job[Session(w)] EXCEPT !.report = run[w].report]
          /\ \A k \in Sessions \ {Session(w)} : job'[k] = job[k]
      BY <1>5, <1>14, <2>1, <3>1 DEF Record
    <3>3. /\ job'[Session(w)].report = run[w].report
          /\ job'[Session(w)].holder = w
          /\ job'[Session(w)].expired = job[Session(w)].expired
      BY <1>1, <2>1, <3>2 DEF Job, Holds
    <3>4. Continue(w, IF run[w].expired THEN "clean" ELSE "postpone")
      BY <1>14, <2>1 DEF Record
    <3>5. CASE run[w].expired
      BY <1>3, <1>14, <2>1, <3>2, <3>3, <3>4, <3>5 DEF Record, Records, At
    <3>6. CASE ~run[w].expired
      BY <1>3, <1>14, <2>1, <3>2, <3>3, <3>4, <3>6 DEF Record, Records, At
    <3> QED BY <3>5, <3>6
  <2>2. CASE ~Holds(w)
    BY <1>2, <1>6, <1>14, <2>2 DEF Record, Ends
  <2> QED BY <2>1, <2>2
<1>15. CASE Postpone(w)
  <2>1. /\ \E due \in {"now", "expiry"} : job' = IfHeld(w, Released(Session(w), due))
        /\ run'[w].pc = "idle" /\ Working(w) /\ delivered' = delivered
    BY <1>2, <1>15 DEF Postpone, At, Working
  <2>2. CASE Holds(w)
    BY <1>5, <1>7, <2>1, <2>2 DEF Ends
  <2>3. CASE ~Holds(w)
    BY <1>6, <2>1, <2>3 DEF Ends
  <2> QED BY <2>2, <2>3
<1>16. CASE Clean(w)
  BY <1>3, <1>16 DEF Clean, At, Working, GoesOn
<1>17. CASE Finish(w)
  <2>1. /\ job' = IfHeld(w, [Released(Session(w), "now") EXCEPT !.done = TRUE])
        /\ run'[w].pc = "idle" /\ Working(w) /\ delivered' = delivered
    BY <1>2, <1>17 DEF Finish, At, Working
  <2>2. /\ [Released(Session(w), "now") EXCEPT !.done = TRUE] \in Job
        /\ [Released(Session(w), "now") EXCEPT !.done = TRUE].holder = Nobody
        /\ [Released(Session(w), "now") EXCEPT !.done = TRUE].report = job[Session(w)].report
        /\ [Released(Session(w), "now") EXCEPT !.done = TRUE].expired = job[Session(w)].expired
    BY <1>7 DEF Job
  <2>3. CASE Holds(w)
    BY <1>5, <2>1, <2>2, <2>3 DEF Ends
  <2>4. CASE ~Holds(w)
    BY <1>6, <2>1, <2>4 DEF Ends
  <2> QED BY <2>3, <2>4
<1>18. CASE RunFails(w)
  BY <1>3, <1>18 DEF RunFails, Working, GoesOn
<1>19. CASE Retry(w)
  <2> DEFINE state == IF run[w].report \in {"pending", "failed"} THEN "failed" ELSE run[w].report
  <2>1. /\ state \in Reports
        /\ \/ state = run[w].report /\ run[w].report \in {"sent", "skipped", "external"}
           \/ state = "failed" /\ run[w].report \in {"pending", "failed"}
    BY <1>1 DEF Reports
  <2>2. /\ job' = IfHeld(w, [Released(Session(w), "retry") EXCEPT !.report = state])
        /\ run'[w].pc = "idle" /\ Working(w) /\ delivered' = delivered
    BY <1>2, <1>19 DEF Retry, At, Working
  <2> HIDE DEF state
  <2>3. /\ [Released(Session(w), "retry") EXCEPT !.report = state] \in Job
        /\ [Released(Session(w), "retry") EXCEPT !.report = state].holder = Nobody
        /\ [Released(Session(w), "retry") EXCEPT !.report = state].report = state
        /\ [Released(Session(w), "retry") EXCEPT !.report = state].expired = job[Session(w)].expired
    BY <1>7, <2>1 DEF Job
  <2>4. CASE Holds(w)
    BY <1>5, <2>1, <2>2, <2>3, <2>4 DEF Ends
  <2>5. CASE ~Holds(w)
    BY <1>6, <2>2, <2>5 DEF Ends
  <2> QED BY <2>4, <2>5
<1>20. CASE RunAborts(w)
  BY <1>2, <1>20 DEF RunAborts, Ends
<1> QED BY <1>8, <1>9, <1>10, <1>11, <1>12, <1>13, <1>14, <1>15, <1>16, <1>17, <1>18, <1>19, <1>20
        DEF ProcessJob, Process

LEMMA JobFramed ==
    ASSUME job \in [Sessions -> Job], UNCHANGED job
    PROVE  \A l \in Sessions : Kept(l)
BY DEF Kept

LEMMA RenewedBy ==
    ASSUME job \in [Sessions -> Job], NEW l \in Sessions, ~job[l].expired,
           NEW report \in {"pending", "skipped", "external"},
           job' = [job EXCEPT ![l] = [job[l] EXCEPT !.report = report, !.due = "now",
                                                   !.expired = FALSE]]
    PROVE  Renewed(l) /\ \A k \in Sessions \ {l} : Kept(k)
<1> DEFINE renewed == [job[l] EXCEPT !.report = report, !.due = "now", !.expired = FALSE]
<1>1. /\ renewed.holder = job[l].holder /\ renewed.report = report /\ renewed.expired = FALSE
  BY DEF Job
<1> HIDE DEF renewed
<1>2. job' = [job EXCEPT ![l] = renewed]
  BY DEF renewed
<1>3. job'[l] = renewed /\ \A k \in Sessions \ {l} : job'[k] = job[k]
  BY <1>2
<1> QED BY <1>1, <1>3 DEF Renewed, Kept

LEMMA CloseEffect ==
    ASSUME TypeOK, Bound, ExpiredIsFinal, NEW c \in Callers, CloseStep(c)
    PROVE  Elsewhere
<1>1. /\ job \in [Sessions -> Job] /\ run \in [Runs -> Run]
      /\ call[c].session \in Sessions /\ call[c].quiet \in BOOLEAN
  BY CloseFrame DEF TypeOK, RetentionTypeOK, Call
<1>2. /\ \A w \in Runs : run'[w] = run[w] \/ run'[w].pc \in {"idle", "start"}
      /\ delivered \subseteq delivered'
  BY CloseFrame
<1>3. CASE CloseRetain(c)
  <2>1. ~job[call[c].session].expired
    BY <1>1 DEF ExpiredIsFinal
  <2>2. job' = [job EXCEPT ![call[c].session] = Enqueued(call[c].session, call[c].quiet, TRUE)]
    BY <1>3 DEF CloseRetain
  <2>3. Enqueued(call[c].session, call[c].quiet, TRUE)
          = [job[call[c].session] EXCEPT !.report = ReportFor(call[c].session, call[c].quiet),
                                         !.due = "now", !.expired = FALSE]
    BY DEF Enqueued
  <2>4. ReportFor(call[c].session, call[c].quiet) \in {"pending", "skipped", "external"}
    BY <1>1 DEF ReportFor
  <2>5. Renewed(call[c].session) /\ \A l \in Sessions \ {call[c].session} : Kept(l)
    BY <1>1, <2>1, <2>2, <2>3, <2>4, RenewedBy
  <2> QED BY <1>2, <2>5 DEF Elsewhere
<1>4. CASE ~CloseRetain(c)
  <2>1. UNCHANGED job
    BY <1>4 DEF CloseStep, CloseReopen, CloseRemove, CloseProcess, CloseFail
  <2> QED BY <1>1, <1>2, <2>1, JobFramed DEF Elsewhere
<1> QED BY <1>3, <1>4

LEMMA PassEffect ==
    ASSUME TypeOK, Bound, ExpiredIsFinal, HardeningPass
    PROVE  Elsewhere
<1>1. job \in [Sessions -> Job] /\ (pass.pc = "queue" => pass.session \in Sessions)
  BY DEF TypeOK, RetentionTypeOK, Bound, Visiting
<1>2. UNCHANGED run /\ delivered \subseteq delivered' /\ (SweepQueue \/ UNCHANGED job)
  BY DEF HardeningPass, PassStart, RecoverUnclaim, RecoverEmails,
         SweepQueueFails, SweepQueue, Recover, SweepRemove, Observe, EmailClaim, LookStart,
         ClaimEvent, Recheck, ClaimRoom, Boundary, Commit, Snapshot, SnapshotFails, Reopen,
         Release, Complete, EmailsStart, EmailAccepted, EmailSent, EmailFails, PassEnd,
         PassAborts, retentionVars
<1>3. CASE SweepQueue
  <2> DEFINE l == pass.session
  <2>1. l \in Sessions /\ job' = [job EXCEPT ![l] = Enqueued(l, TRUE, FALSE)]
    BY <1>1, <1>3 DEF SweepQueue
  <2>2. CASE Queued(l)
    <3>1. UNCHANGED job
      BY <1>1, <2>1, <2>2 DEF Enqueued
    <3> QED BY <1>1, <1>2, <3>1, JobFramed DEF Elsewhere
  <2>3. CASE ~Queued(l)
    <3>1. ~job[l].expired
      BY <2>1, <2>3 DEF ExpiredIsFinal
    <3>2. Enqueued(l, TRUE, FALSE)
            = [job[l] EXCEPT !.report = ReportFor(l, TRUE), !.due = "now", !.expired = FALSE]
      BY <2>3 DEF Enqueued
    <3>3. ReportFor(l, TRUE) \in {"pending", "skipped", "external"}
      BY DEF ReportFor
    <3>4. Renewed(l) /\ \A k \in Sessions \ {l} : Kept(k)
      BY <1>1, <2>1, <3>1, <3>2, <3>3, RenewedBy
    <3> QED BY <1>2, <3>4 DEF Elsewhere
  <2> QED BY <2>2, <2>3
<1> QED BY <1>1, <1>2, <1>3, JobFramed DEF Elsewhere

\* Whoever takes up a job, there is one of them.
LEMMA EnvironmentEffect ==
    ASSUME TypeOK, Bound, Environment
    PROVE  \/ Elsewhere
           \/ \E l \in Sessions : /\ run[Worker].pc = "idle" /\ Claims(Worker, l)
                                  /\ \A v \in Runs \ {Worker} : run'[v] = run[v]
<1>1. job \in [Sessions -> Job] /\ run \in [Runs -> Run]
  BY DEF TypeOK, RetentionTypeOK
<1>2. ASSUME NEW l \in Sessions, TakeUp(l)
      PROVE  /\ run[Worker].pc = "idle" /\ Claims(Worker, l)
             /\ \A v \in Runs \ {Worker} : run'[v] = run[v]
  BY <1>2, ClaimEffect, RunsAreCallers DEF TakeUp
<1>3. ASSUME NEW l \in Sessions, JobRetries(l) \/ LeaseEnds(l) \/ JobExpires(l) PROVE Elsewhere
  <2>1. UNCHANGED run /\ UNCHANGED delivered
    BY <1>3 DEF JobRetries, RetryDue, LeaseEnds, LeaseLapses, JobExpires, ChatExpires
  <2>2. \/ job' = [job EXCEPT ![l].due = "now"]
        \/ job' = [job EXCEPT ![l].leased = FALSE]
        \/ /\ job' = [job EXCEPT ![l].expired = TRUE, ![l].due = IF @ = "expiry" THEN "now" ELSE @]
           /\ JobExpires(l)
    BY <1>3 DEF JobRetries, RetryDue, LeaseEnds, LeaseLapses, JobExpires, ChatExpires
  <2>3. \A k \in Sessions : Kept(k)
    BY <1>1, <2>2 DEF Kept, Job
  <2> QED BY <2>1, <2>3 DEF Elsewhere
<1>4. CASE Crash
  <2>1. \A w \in Runs : run'[w] = run[w] \/ run'[w].pc = "idle"
    BY <1>4 DEF Crash, IdleRun
  <2>2. UNCHANGED job /\ UNCHANGED delivered
    BY <1>4 DEF Crash
  <2> QED BY <1>1, <2>1, <2>2, JobFramed DEF Elsewhere
<1>5. ASSUME UNCHANGED <<job, run, delivered>> PROVE Elsewhere
  BY <1>1, <1>5, JobFramed DEF Elsewhere
<1> QED BY <1>2, <1>3, <1>4, <1>5
     DEF Environment, CloseClaim, NcoSeen, NcoAway, ClaimAges, CloseAges, retentionVars

\* Every step is one call's at its job, or leaves what calls have read as it is.
LEMMA Effects ==
    ASSUME TypeOK, Bound, ChatInv, [Next]_vars
    PROVE  \/ Elsewhere
           \/ \E w \in Runs :
                 /\ \A v \in Runs \ {w} : run'[v] = run[v]
                 /\ \/ \E l \in Sessions : ~Working(w) /\ Claims(w, l)
                    \/ Session(w) \in Sessions /\ (GoesOn(w) \/ Records(w) \/ Ends(w))
<1>1. CASE UNCHANGED vars
  BY <1>1, JobFramed DEF vars, retentionVars, Elsewhere, TypeOK, RetentionTypeOK
<1>2. ASSUME NEW c \in Callers, CloseStep(c) PROVE Elsewhere
  BY <1>2, CloseEffect DEF ChatInv
<1>3. HardeningPass => Elsewhere
  BY PassEffect DEF ChatInv
<1>4. ASSUME NEW w \in Runs, ProcessJob(w)
      PROVE  /\ \A v \in Runs \ {w} : run'[v] = run[v]
             /\ \/ \E l \in Sessions : ~Working(w) /\ Claims(w, l)
                \/ Session(w) \in Sessions /\ (GoesOn(w) \/ Records(w) \/ Ends(w))
  BY <1>4, ProcessFrame, ProcessEffect DEF ChatInv, At, Working
<1>5. CASE Environment
  BY <1>5, EnvironmentEffect, RunsAreCallers DEF Working
<1> QED BY <1>1, <1>2, <1>3, <1>4, <1>5, Steps

-----------------------------------------------------------------------------
(* Reports and the chat *)

\* Which steps of the pass lead to a close, and to a mail that was accepted.
LEMMA PassPlaces ==
    ASSUME pass \in Pass, HardeningPass
    PROVE  \/ pass'.pc \notin {"boundary", "commit", "snapshot", "close", "mailed"}
           \/ /\ pass.pc = "claimRoom" /\ pass'.pc = "boundary"
              /\ room[pass.session] = "open" /\ pass'.session = pass.session
           \/ /\ pass.pc \in {"boundary", "commit", "snapshot"} /\ pass'.pc # "mailed"
              /\ pass'.session = pass.session
           \/ EmailAccepted
<1>1. CASE PassStart \/ RecoverUnclaim \/ RecoverEmails \/ SweepQueue \/ SweepQueueFails
  BY <1>1 DEF PassStart, RecoverUnclaim, RecoverEmails, SweepQueue, SweepQueueFails, NextVisit,
              IdlePass, Pass
<1>2. ASSUME NEW l \in Sessions, Recover(l) \/ SweepRemove(l) \/ Observe(l) \/ EmailClaim(l)
      PROVE  pass'.pc \notin {"boundary", "commit", "snapshot", "close", "mailed"}
  BY <1>2 DEF Recover, SweepRemove, Observe, EmailClaim, Visit, Skip, Pass
<1>3. CASE LookStart \/ Release \/ Complete \/ EmailSent \/ EmailFails
  BY <1>3 DEF LookStart, Release, Complete, EmailSent, EmailFails, NextVisit, Pass
<1>4. CASE ClaimEvent
  BY <1>4 DEF ClaimEvent, NextVisit, Pass
<1>5. CASE EmailsStart \/ PassEnd \/ PassAborts
  BY <1>5 DEF EmailsStart, PassEnd, PassAborts, IdlePass
<1>6. CASE Recheck \/ ClaimRoom \/ SnapshotFails \/ Reopen
  BY <1>6 DEF Recheck, ClaimRoom, SnapshotFails, Reopen, PassStep, Pass
<1>7. CASE Boundary \/ Commit \/ Snapshot
  BY <1>7 DEF Boundary, Commit, Snapshot, PassStep, Pass
<1> QED BY <1>1, <1>2, <1>3, <1>4, <1>5, <1>6, <1>7 DEF HardeningPass

LEMMA SentIsDeliveredStep ==
    ASSUME TypeOK, Bound, ChatInv, [Next]_vars
    PROVE  SentIsDelivered'
<1>1. /\ event \in [Sessions -> Event] /\ pass \in Pass
      /\ pass.pc \in Visiting => pass.session \in Sessions
  BY DEF TypeOK, RetentionTypeOK, Bound
<1>2. SentIsDelivered
  BY DEF ChatInv
<1>3. delivered \subseteq delivered'
  BY Effects DEF Elsewhere, Claims, GoesOn, Records, Ends
<1>4. /\ \A l \in Sessions : event'[l].email = "sent" => l \in delivered'
      /\ pass'.pc = "mailed" => pass'.session \in delivered'
  <2>1. CASE ~HardeningPass
    <3>1. \A l \in Sessions : event'[l].email = "sent" => event[l].email = "sent"
      <4>1. ASSUME NEW c \in Callers, CloseStep(c) PROVE UNCHANGED event
        BY <4>1, CloseFrame
      <4>2. ASSUME NEW w \in Runs, ProcessJob(w), NEW l \in Sessions, event'[l].email = "sent"
            PROVE  event[l].email = "sent"
        BY <4>2, ProcessFrame
      <4>3. CASE Environment
        <5>1. UNCHANGED event \/ \E l \in Sessions : ClaimAges(l)
          BY <4>3
             DEF Environment, CloseClaim, TakeUp, Claim, NcoSeen, NcoAway, CloseAges, JobRetries,
                 RetryDue, LeaseEnds, LeaseLapses, JobExpires, ChatExpires, Crash, retentionVars
        <5> QED BY <1>1, <5>1 DEF ClaimAges, Event
      <4>4. CASE UNCHANGED vars
        BY <4>4 DEF vars, retentionVars
      <4> QED BY <2>1, <4>1, <4>2, <4>3, <4>4, Steps
    <3>2. pass'.pc = "mailed" => pass' = pass
      <4>1. ASSUME NEW c \in Callers, CloseStep(c), pass'.pc = "mailed" PROVE pass' = pass
        BY <1>1, <4>1, CloseFrame DEF Pass
      <4>2. ASSUME NEW w \in Runs, ProcessJob(w) PROVE pass' = pass
        BY <4>2, ProcessFrame
      <4>3. Environment /\ pass'.pc = "mailed" => pass' = pass
        BY DEF Environment, CloseClaim, TakeUp, NcoSeen, NcoAway, ClaimAges, CloseAges, JobRetries,
               LeaseEnds, JobExpires, Crash, IdlePass, closeVars
      <4>4. CASE UNCHANGED vars
        BY <4>4 DEF vars, closeVars
      <4> QED BY <2>1, <4>1, <4>2, <4>3, <4>4, Steps
    <3> QED BY <1>2, <1>3, <3>1, <3>2 DEF SentIsDelivered
  <2>2. CASE EmailAccepted
    BY <1>1, <1>2, <1>3, <2>2 DEF EmailAccepted, PassStep, SentIsDelivered, Pass
  <2>3. CASE EmailSent
    <3>1. pass.session \in delivered /\ pass'.pc = "emails"
      BY <1>1, <1>2, <2>3 DEF EmailSent, SentIsDelivered, Pass
    <3> QED BY <1>1, <1>2, <1>3, <2>3, <3>1 DEF EmailSent, SentIsDelivered, Event
  <2>4. CASE HardeningPass /\ ~EmailAccepted /\ ~EmailSent
    <3>1. pass'.pc # "mailed"
      BY <1>1, <2>4, PassPlaces
    <3>2. \A l \in Sessions : event'[l].email = "sent" => event[l].email = "sent"
      <4>1. ASSUME NEW l \in Sessions, Recover(l) \/ SweepRemove(l) \/ Observe(l) \/ EmailClaim(l)
            PROVE  \A k \in Sessions : event'[k].email = "sent" => event[k].email = "sent"
        BY <1>1, <4>1 DEF Recover, SweepRemove, Observe, EmailClaim, Event
      <4>2. CASE RecoverEmails
        BY <1>1, <4>2 DEF RecoverEmails, Event
      <4>3. CASE RecoverUnclaim \/ Release
        BY <1>1, <4>3 DEF RecoverUnclaim, Release, Unclaimed, Event
      <4>4. CASE ClaimEvent \/ Commit \/ Snapshot \/ Complete
        BY <1>1, <4>4 DEF ClaimEvent, Commit, Snapshot, Complete, Event
      <4>5. CASE EmailFails
        BY <1>1, <4>5 DEF EmailFails, Event
      <4> QED BY <2>4, <4>1, <4>2, <4>3, <4>4, <4>5
         DEF HardeningPass, PassStart, SweepQueue, SweepQueueFails, LookStart, Recheck, ClaimRoom,
             Boundary, SnapshotFails, Reopen, EmailsStart, PassEnd, PassAborts, retentionVars
    <3> QED BY <1>2, <1>3, <3>1, <3>2 DEF SentIsDelivered
  <2> QED BY <2>1, <2>2, <2>3, <2>4
<1>5. \A l \in Sessions : job'[l].report = "sent" => l \in delivered'
  <2>1. CASE Elsewhere
    BY <1>2, <1>3, <2>1 DEF Elsewhere, Kept, Renewed, SentIsDelivered
  <2>2. ASSUME NEW w \in Runs, NEW l \in Sessions, Claims(w, l)
        PROVE  \A k \in Sessions : job'[k].report = "sent" => k \in delivered'
    BY <1>2, <1>3, <2>2 DEF Claims, SentIsDelivered
  <2>3. ASSUME NEW w \in Runs, Session(w) \in Sessions, GoesOn(w) \/ Records(w) \/ Ends(w)
        PROVE  \A k \in Sessions : job'[k].report = "sent" => k \in delivered'
    BY <1>2, <1>3, <2>3 DEF GoesOn, Records, Ends, SentIsDelivered, Working, Session
  <2> QED BY <2>1, <2>2, <2>3, Effects
<1>6. \A w \in Runs : Working(w)' /\ run'[w].report = "sent" => run'[w].session \in delivered'
  <2>1. CASE Elsewhere
    BY <1>2, <1>3, <2>1 DEF Elsewhere, SentIsDelivered, Working
  <2>2. ASSUME NEW w \in Runs, NEW l \in Sessions, Claims(w, l),
               \A v \in Runs \ {w} : run'[v] = run[v]
        PROVE  \A v \in Runs : Working(v)' /\ run'[v].report = "sent" => run'[v].session \in delivered'
    BY <1>2, <1>3, <2>2 DEF Claims, SentIsDelivered, Working
  <2>3. ASSUME NEW w \in Runs, Session(w) \in Sessions, GoesOn(w) \/ Records(w) \/ Ends(w),
               \A v \in Runs \ {w} : run'[v] = run[v]
        PROVE  \A v \in Runs : Working(v)' /\ run'[v].report = "sent" => run'[v].session \in delivered'
    BY <1>2, <1>3, <2>3 DEF GoesOn, Records, Ends, SentIsDelivered, Working, Session
  <2> QED BY <2>1, <2>2, <2>3, Effects
<1> QED BY <1>4, <1>5, <1>6 DEF SentIsDelivered

LEMMA ExpiredIsFinalStep ==
    ASSUME TypeOK, Bound, ChatInv, [Next]_vars
    PROVE  ExpiredIsFinal'
<1> SUFFICES ASSUME NEW l \in Sessions, job'[l].expired
             PROVE  /\ Queued(l)' /\ room'[l] = "gone"
                    /\ \A c \in Callers : call'[c].session # l
                    /\ pass'.session = l => pass'.pc \notin {"boundary", "commit", "snapshot", "close"}
  BY DEF ExpiredIsFinal
<1> DEFINE Settled == /\ Queued(l) /\ room[l] = "gone"
                      /\ \A c \in Callers : call[c].session # l
                      /\ pass.session = l => pass.pc \notin {"boundary", "commit", "snapshot", "close"}
<1>1. /\ job \in [Sessions -> Job] /\ run \in [Runs -> Run] /\ pass \in Pass
      /\ call \in [Callers -> Call] /\ l # Nobody
  BY NobodyElse DEF TypeOK, RetentionTypeOK
<1>2. job[l].expired => Settled
  BY DEF ChatInv, ExpiredIsFinal
<1>3. \/ job[l].expired /\ Queued(l)'
      \/ ~job[l].expired /\ JobExpires(l)
  <2>1. CASE job[l].expired
    <3>1. CASE Elsewhere
      BY <1>2, <2>1, <3>1 DEF Elsewhere, Kept, Renewed, Queued
    <3>2. ASSUME NEW w \in Runs, NEW k \in Sessions, Claims(w, k) PROVE Queued(l)'
      BY <1>2, <2>1, <3>2 DEF Claims, Queued, Reports
    <3>3. ASSUME NEW w \in Runs, Session(w) \in Sessions, GoesOn(w) \/ Records(w) \/ Ends(w)
          PROVE  Queued(l)'
      BY <1>1, <1>2, <2>1, <3>3 DEF GoesOn, Records, Ends, Queued, Reports, Run
    <3> QED BY <2>1, <3>1, <3>2, <3>3, Effects
  <2>2. CASE ~job[l].expired
    <3>1. CASE Elsewhere
      BY <2>2, <3>1 DEF Elsewhere, Kept, Renewed
    <3>2. ASSUME NEW w \in Runs, NEW k \in Sessions, Claims(w, k) PROVE ~job'[l].expired
      BY <2>2, <3>2 DEF Claims
    <3>3. ASSUME NEW w \in Runs, Session(w) \in Sessions, GoesOn(w) \/ Records(w) \/ Ends(w)
          PROVE  ~job'[l].expired
      BY <2>2, <3>3 DEF GoesOn, Records, Ends
    <3> QED BY <2>2, <3>1, <3>2, <3>3, Effects
  <2> QED BY <2>1, <2>2
<1>4. CASE ~job[l].expired
  <2>1. JobExpires(l)
    BY <1>3, <1>4
  <2>2. /\ Queued(l) /\ room'[l] = "gone" /\ pass' = pass /\ call' = call
        /\ pass.session # l /\ \A c \in Callers : call[c].session # l
    BY <2>1 DEF JobExpires, ChatExpires, Busy, closeVars
  <2>3. Queued(l)'
    BY <1>1, <2>1, <2>2 DEF JobExpires, ChatExpires, Queued, Job
  <2> QED BY <2>2, <2>3
<1>5. CASE job[l].expired
  <2>1. Settled /\ Queued(l)' /\ room'[l] = "gone"
    BY <1>2, <1>3, <1>5, GoneStays
  <2>2. CASE UNCHANGED vars
    BY <2>1, <2>2 DEF vars, closeVars
  <2>3. ASSUME NEW c \in Callers, CloseStep(c)
        PROVE  /\ \A d \in Callers : call'[d].session # l
               /\ pass'.session = l => pass'.pc \notin {"boundary", "commit", "snapshot", "close"}
    <3>1. \A d \in Callers : call'[d].session # l
      BY <1>1, <2>1, <2>3, CloseFrame
    <3>2. pass' = pass \/ pass'.pc = "reopen"
      BY <1>1, <2>3, CloseFrame DEF Pass
    <3> QED BY <2>1, <3>1, <3>2
  <2>4. CASE HardeningPass
    <3>1. \A c \in Callers : call'[c].session # l
      <4>1. CASE Snapshot
        <5>1. pass.session # l
          BY <2>1, <4>1 DEF Snapshot, PassStep
        <5> QED BY <1>1, <2>1, <4>1, <5>1 DEF Snapshot, Call
      <4> QED BY <2>1, <2>4, <4>1
         DEF HardeningPass, PassStart, RecoverUnclaim, RecoverEmails, SweepQueue,
             SweepQueueFails, Recover, SweepRemove, Observe, EmailClaim, LookStart, ClaimEvent,
             Recheck, ClaimRoom, Boundary, Commit, SnapshotFails, Reopen, Release,
             Complete, EmailsStart, EmailAccepted, EmailSent, EmailFails, PassEnd, PassAborts
    <3>2. pass'.session = l => pass'.pc \notin {"boundary", "commit", "snapshot", "close"}
      <4>1. EmailAccepted => pass'.pc = "mailed"
        BY <1>1 DEF EmailAccepted, PassStep, Pass
      <4> QED BY <1>1, <2>1, <2>4, <4>1, PassPlaces
    <3> QED BY <2>1, <3>1, <3>2
  <2>5. ASSUME NEW w \in Runs, ProcessJob(w) PROVE call' = call /\ pass' = pass
    BY <2>5, ProcessFrame
  <2>6. CASE Environment
    <3>1. ASSUME NEW c \in Closers, NEW k \in Sessions, NEW quiet \in Quiet, CloseClaim(c, k, quiet)
          PROVE  (\A d \in Callers : call'[d].session # l) /\ pass' = pass
      BY <1>1, <2>1, <3>1 DEF CloseClaim, Call
    <3>2. CASE Crash
      BY <1>1, <2>1, <3>2 DEF Crash, IdleCall, IdlePass
    <3> QED BY <2>1, <2>6, <3>1, <3>2
       DEF Environment, TakeUp, NcoSeen, NcoAway, ClaimAges, CloseAges, JobRetries, LeaseEnds,
           JobExpires, closeVars
  <2> QED BY <2>1, <2>2, <2>3, <2>4, <2>5, <2>6, Steps
<1> QED BY <1>4, <1>5

LEMMA ReportsStep ==
    ASSUME TypeOK, Bound, ChatInv, [Next]_vars
    PROVE  HolderKnowsSent' /\ RecordIsFinal' /\ CopyIsExpired' /\ CleaningIsSettled'
<1>1. HolderKnowsSent /\ RecordIsFinal /\ CopyIsExpired /\ CleaningIsSettled
  BY DEF ChatInv
<1>2. \A v \in Runs : run[v].pc # "idle" => Session(v) \in Sessions
  BY DEF Bound, Session
<1>3. \A v \in Runs : v # Nobody
  BY NobodyElse
<1>4. CASE Elsewhere
  <2>1. \A v \in Runs : Working(v)' \/ run'[v].pc \in {"clean", "record"} =>
           run'[v] = run[v] /\ Working(v) /\ Session(v) \in Sessions
    BY <1>2, <1>4 DEF Elsewhere, Working
  <2>2. \A v \in Runs : Working(v)' /\ Holds(v)' => Holds(v)
    BY <1>4, <2>1 DEF Elsewhere, Kept, Renewed, Holds, Session
  <2>3. HolderKnowsSent'
    BY <1>1, <1>4, <2>1, <2>2 DEF Elsewhere, Kept, Renewed, HolderKnowsSent, Session
  <2>4. RecordIsFinal'
    BY <1>1, <2>1 DEF RecordIsFinal
  <2>5. CopyIsExpired'
    BY <1>1, <1>4, <2>1 DEF Elsewhere, Kept, Renewed, CopyIsExpired, Session
  <2>6. CleaningIsSettled'
    <3>1. \A v \in Runs : run'[v].pc = "clean" =>
             /\ run'[v].expired /\ job'[Session(v)'].report = job[Session(v)].report
             /\ job[Session(v)].report \in {"sent", "skipped"}
      BY <1>1, <1>4, <2>1
         DEF Elsewhere, Kept, Renewed, CleaningIsSettled, CopyIsExpired, Session, Working
    <3> QED BY <1>1, <2>1, <2>2, <3>1 DEF CleaningIsSettled, Session, Working
  <2> QED BY <2>3, <2>4, <2>5, <2>6
<1>5. ASSUME NEW w \in Runs, NEW l \in Sessions, ~Working(w), Claims(w, l),
             \A v \in Runs \ {w} : run'[v] = run[v]
      PROVE  HolderKnowsSent' /\ RecordIsFinal' /\ CopyIsExpired' /\ CleaningIsSettled'
  <2>1. \A k \in Sessions : job'[k].report = job[k].report /\ job'[k].expired = job[k].expired
    BY <1>5 DEF Claims
  <2>2. \A v \in Runs \ {w} : Working(v)' /\ Holds(v)' => Holds(v)
    BY <1>2, <1>5 DEF Claims, Holds, Session, Working
  <2>3. HolderKnowsSent'
    BY <1>1, <1>2, <1>5, <2>1, <2>2 DEF Claims, HolderKnowsSent, Session, Working
  <2>4. RecordIsFinal'
    BY <1>1, <1>5 DEF Claims, RecordIsFinal
  <2>5. CopyIsExpired'
    BY <1>1, <1>2, <1>5, <2>1 DEF Claims, CopyIsExpired, Session, Working
  <2>6. CleaningIsSettled'
    BY <1>1, <1>2, <1>5, <2>1, <2>2 DEF Claims, CleaningIsSettled, Session, Working
  <2> QED BY <2>3, <2>4, <2>5, <2>6
<1>6. ASSUME NEW w \in Runs, Session(w) \in Sessions, GoesOn(w),
             \A v \in Runs \ {w} : run'[v] = run[v]
      PROVE  HolderKnowsSent' /\ RecordIsFinal' /\ CopyIsExpired' /\ CleaningIsSettled'
  <2>1. \A v \in Runs : Holds(v)' <=> Holds(v)
    BY <1>6 DEF GoesOn, Holds, Session
  <2>2. HolderKnowsSent'
    BY <1>1, <1>6, <2>1 DEF GoesOn, HolderKnowsSent, Session, Working
  <2>3. RecordIsFinal'
    BY <1>1, <1>6 DEF GoesOn, RecordIsFinal
  <2>4. CopyIsExpired'
    BY <1>1, <1>6 DEF GoesOn, CopyIsExpired, Session, Working
  <2>5. CleaningIsSettled'
    BY <1>1, <1>6, <2>1 DEF GoesOn, CleaningIsSettled, Session, Working
  <2> QED BY <2>2, <2>3, <2>4, <2>5
<1>7. ASSUME NEW w \in Runs, Session(w) \in Sessions, Records(w),
             \A v \in Runs \ {w} : run'[v] = run[v]
      PROVE  HolderKnowsSent' /\ RecordIsFinal' /\ CopyIsExpired' /\ CleaningIsSettled'
  <2>1. \A k \in Sessions : job'[k].holder = job[k].holder /\ job'[k].expired = job[k].expired
    BY <1>7 DEF Records, Holds
  <2>2. \A v \in Runs : Session(v)' = Session(v) /\ run'[v].report = run[v].report
                        /\ run'[v].expired = run[v].expired
    BY <1>7 DEF Records, Session
  <2>3. \A v \in Runs : Working(v)' => Working(v) /\ Session(v) \in Sessions
    BY <1>2, <1>7 DEF Records, Working
  <2>4. \A v \in Runs : Working(v)' /\ Holds(v)' => Holds(v)
    BY <2>1, <2>2, <2>3 DEF Holds
  <2>5. \A v \in Runs : Working(v)' /\ Holds(v)' /\ Session(v) = Session(w) => v = w
    BY <1>7, <2>4 DEF Records, Holds
  <2>6. HolderKnowsSent'
    BY <1>1, <1>7, <2>2, <2>3, <2>4, <2>5 DEF Records, HolderKnowsSent
  <2>7. RecordIsFinal'
    BY <1>1, <1>7 DEF Records, RecordIsFinal
  <2>8. CopyIsExpired'
    BY <1>1, <2>1, <2>2, <2>3 DEF CopyIsExpired
  <2>9. CleaningIsSettled'
    <3>1. run[w].report \in {"sent", "skipped"} /\ Working(w)
      BY <1>1, <1>7 DEF Records, RecordIsFinal, Working
    <3>2. ASSUME NEW v \in Runs, run'[v].pc = "clean"
          PROVE  /\ run'[v].expired /\ job'[Session(v)].report \in {"sent", "skipped"}
                 /\ \A u \in Runs : Working(u)' /\ Session(u) = Session(v) /\ Holds(u)' =>
                       run'[u].report = job'[Session(v)].report
      <4>1. CASE v = w
        BY <1>7, <2>2, <2>5, <3>1, <3>2, <4>1 DEF Records
      <4>2. CASE v # w
        <5>1. /\ run[v].pc = "clean" /\ Session(v) \in Sessions
              /\ run[v].expired /\ job[Session(v)].report \in {"sent", "skipped"}
              /\ \A u \in Runs : Working(u) /\ Session(u) = Session(v) /\ Holds(u) =>
                    run[u].report = job[Session(v)].report
          BY <1>1, <1>2, <1>7, <3>2, <4>2 DEF CleaningIsSettled
        <5>2. job'[Session(v)].report = job[Session(v)].report
          BY <1>7, <3>1, <5>1 DEF Records
        <5> QED BY <2>2, <2>3, <2>4, <5>1, <5>2
      <4> QED BY <4>1, <4>2
    <3> QED BY <2>2, <3>2 DEF CleaningIsSettled
  <2> QED BY <2>6, <2>7, <2>8, <2>9
<1>8. ASSUME NEW w \in Runs, Session(w) \in Sessions, Ends(w),
             \A v \in Runs \ {w} : run'[v] = run[v]
      PROVE  HolderKnowsSent' /\ RecordIsFinal' /\ CopyIsExpired' /\ CleaningIsSettled'
  <2>1. \A v \in Runs : Working(v)' \/ run'[v].pc \in {"clean", "record"} =>
           v # w /\ run'[v] = run[v] /\ Working(v) /\ Session(v) \in Sessions
    BY <1>2, <1>8 DEF Ends, Working
  <2>2. \A v \in Runs : Working(v)' /\ Holds(v)' => Holds(v) /\ job'[Session(v)] = job[Session(v)]
    BY <1>3, <1>8, <2>1 DEF Ends, Holds, Session
  <2>3. HolderKnowsSent'
    BY <1>1, <2>1, <2>2 DEF HolderKnowsSent, Session
  <2>4. RecordIsFinal'
    BY <1>1, <2>1 DEF RecordIsFinal
  <2>5. CopyIsExpired'
    BY <1>1, <1>8, <2>1 DEF Ends, CopyIsExpired, Session
  <2>6. CleaningIsSettled'
    <3>1. ASSUME NEW v \in Runs, run'[v].pc = "clean"
          PROVE  job'[Session(v)].report = job[Session(v)].report
      <4>1. /\ job[Session(v)].report \in {"sent", "skipped"}
            /\ Working(w) /\ Session(w) = Session(v) /\ Holds(w) =>
                  run[w].report = job[Session(v)].report
        BY <1>1, <2>1, <3>1 DEF CleaningIsSettled
      <4> QED BY <1>8, <2>1, <3>1, <4>1 DEF Ends
    <3> QED BY <1>1, <2>1, <2>2, <3>1 DEF CleaningIsSettled, Session
  <2> QED BY <2>3, <2>4, <2>5, <2>6
<1> QED BY <1>4, <1>5, <1>6, <1>7, <1>8, Effects

LEMMA ChatInvInit == Init => ChatInv
BY NobodyElse, RunsAreCallers
DEF Init, RetentionInit, NoEvent, NoJob, IdleRun, IdleCall, IdlePass, ChatInv, SentIsDelivered,
    ExpiredIsFinal, HolderKnowsSent, RecordIsFinal, CopyIsExpired, CleaningIsSettled, Working

LEMMA ChatInvStep == TypeOK /\ EventInv /\ ChatInv /\ [Next]_vars => ChatInv'
BY SentIsDeliveredStep, ExpiredIsFinalStep, ReportsStep DEF EventInv, ChatInv

LEMMA ChatInvariant == Spec => [](TypeOK /\ EventInv /\ ChatInv)
<1>1. Init => TypeOK /\ EventInv /\ ChatInv
  BY TypeInit, EventInvInit, ChatInvInit
<1> QED BY <1>1, EventInvStep, ChatInvStep, PTL DEF Spec

\* Only a call at the chat removes any of it.
LEMMA OnlyCleanRemoves ==
    ASSUME TypeOK, Bound, [Next]_vars, NEW l \in Sessions, l \in chat, l \notin chat'
    PROVE  \E w \in Runs : run[w].pc = "clean" /\ Session(w) = l /\ room[l] = "gone"
<1>1. ASSUME UNCHANGED chat PROVE FALSE
  BY <1>1
<1>2. ASSUME NEW c \in Callers, CloseStep(c) PROVE FALSE
  BY <1>1, <1>2, CloseFrame
<1>3. ASSUME HardeningPass PROVE FALSE
  BY <1>1, <1>3
     DEF HardeningPass, PassStart, RecoverUnclaim, RecoverEmails,
         SweepQueueFails, SweepQueue, Recover, SweepRemove, Observe, EmailClaim, LookStart,
         ClaimEvent, Recheck, ClaimRoom, Boundary, Commit, Snapshot, SnapshotFails, Reopen,
         Release, Complete, EmailsStart, EmailAccepted, EmailSent, EmailFails, PassEnd,
         PassAborts, retentionVars
<1>4. ASSUME Environment PROVE FALSE
  BY <1>1, <1>4
     DEF Environment, CloseClaim, TakeUp, Claim, NcoSeen, NcoAway, ClaimAges, CloseAges,
         JobRetries, RetryDue, LeaseEnds, LeaseLapses, JobExpires, ChatExpires, Crash, retentionVars
<1>5. ASSUME UNCHANGED vars PROVE FALSE
  BY <1>1, <1>5 DEF vars, retentionVars
<1>6. ASSUME NEW w \in Runs, ProcessJob(w)
      PROVE  run[w].pc = "clean" /\ Session(w) = l /\ room[l] = "gone"
  <2>1. UNCHANGED chat \/ Clean(w)
    BY <1>6 DEF ProcessJob, Process, ClaimNone, Claim, CheckLive, AwaitEmail, Deliver, NoReport,
                Record, Postpone, Finish, RunFails, Retry, RunAborts
  <2> QED BY <1>1, <2>1 DEF Clean, At, StillLive
<1> QED BY <1>2, <1>3, <1>4, <1>5, <1>6, Steps

LEMMA RemovalIsSettled ==
    ASSUME TypeOK, Bound, ChatInv, [Next]_vars, NEW l \in Sessions, l \in chat, l \notin chat'
    PROVE  /\ room[l] = "gone" /\ job[l].expired
           /\ l \in delivered \/ job[l].report = "skipped"
<1>1. PICK w \in Runs : run[w].pc = "clean" /\ Session(w) = l /\ room[l] = "gone"
  BY OnlyCleanRemoves
<1>2. run[w].expired /\ job[l].report \in {"sent", "skipped"}
  BY <1>1 DEF ChatInv, CleaningIsSettled
<1>3. job[l].expired
  BY <1>1, <1>2 DEF ChatInv, CopyIsExpired, Working
<1> QED BY <1>1, <1>2, <1>3 DEF ChatInv, SentIsDelivered

(* processChatRetentionJob: a session's chat is removed when the session has gone
   and its retention days are over, and then its report was accepted for delivery
   or nobody was to have one, whichever leases lapsed and whatever failed. *)
THEOREM ChatKept == Spec => ChatOutlivesReport
<1>1. TypeOK /\ EventInv /\ ChatInv /\ [Next]_vars =>
        [\A l \in Sessions :
            l \in chat /\ l \notin chat' =>
                /\ room[l] = "gone" /\ job[l].expired
                /\ l \in delivered \/ job[l].report = "skipped"]_vars
  BY RemovalIsSettled DEF EventInv
<1> QED BY <1>1, ChatInvariant, PTL DEF Spec, ChatOutlivesReport

LEMMA SentIsKept ==
    ASSUME TypeOK, Bound, ChatInv, [Next]_vars, NEW l \in Sessions,
           job[l].report = "sent", job'[l].report # "sent"
    PROVE  \E c \in Callers : call[c] # call'[c] /\ call'[c].pc = "retained"
<1>1. job \in [Sessions -> Job] /\ call \in [Callers -> Call] /\ run \in [Runs -> Run]
  BY DEF TypeOK, RetentionTypeOK
<1>2. ASSUME UNCHANGED job PROVE FALSE
  BY <1>2
<1>3. ASSUME NEW c \in Callers, CloseStep(c)
      PROVE  \E d \in Callers : call[d] # call'[d] /\ call'[d].pc = "retained"
  <2>1. CloseRetain(c)
    BY <1>2, <1>3 DEF CloseStep, CloseReopen, CloseRemove, CloseProcess, CloseFail
  <2>2. call[c].pc = "claimed" /\ call'[c].pc = "retained"
    BY <1>1, <2>1 DEF CloseRetain, CallStep, Call
  <2> QED BY <2>2
<1>4. ASSUME HardeningPass PROVE FALSE
  <2>1. SweepQueue
    BY <1>2, <1>4
       DEF HardeningPass, PassStart, RecoverUnclaim, RecoverEmails,
           SweepQueueFails, Recover, SweepRemove, Observe, EmailClaim, LookStart,
           ClaimEvent, Recheck, ClaimRoom, Boundary, Commit, Snapshot, SnapshotFails, Reopen,
           Release, Complete, EmailsStart, EmailAccepted, EmailSent, EmailFails, PassEnd,
           PassAborts, retentionVars
  <2>2. Queued(l)
    BY DEF Queued
  <2>3. job' = [job EXCEPT ![pass.session] = Enqueued(pass.session, TRUE, FALSE)]
    BY <2>1 DEF SweepQueue
  <2>4. CASE pass.session = l
    BY <1>1, <1>2, <2>2, <2>3, <2>4 DEF Enqueued
  <2>5. CASE pass.session # l
    BY <1>1, <2>3, <2>5
  <2> QED BY <2>4, <2>5
<1>5. ASSUME Environment PROVE FALSE
  <2>1. \A k \in Sessions : job'[k].report = job[k].report
    <3>1. UNCHANGED job \/ \E k \in Sessions :
              \/ TakeUp(k) \/ JobRetries(k) \/ LeaseEnds(k) \/ JobExpires(k)
      BY <1>5
         DEF Environment, CloseClaim, NcoSeen, NcoAway, ClaimAges, CloseAges, Crash, retentionVars
    <3>2. ASSUME NEW k \in Sessions, JobRetries(k) \/ LeaseEnds(k) \/ JobExpires(k)
          PROVE  \A m \in Sessions : job'[m].report = job[m].report
      BY <1>1, <3>2
         DEF JobRetries, RetryDue, LeaseEnds, LeaseLapses, JobExpires, ChatExpires, Job
    <3>3. ASSUME NEW k \in Sessions, TakeUp(k)
          PROVE  \A m \in Sessions : job'[m].report = job[m].report
      BY <3>3, ClaimEffect, RunsAreCallers DEF TakeUp, Claims
    <3> QED BY <3>1, <3>2, <3>3
  <2> QED BY <2>1
<1>6. ASSUME NEW w \in Runs, ProcessJob(w) PROVE FALSE
  <2>1. Claims(w, Session(w)) \/ GoesOn(w) \/ Records(w) \/ Ends(w)
    BY <1>6, ProcessEffect DEF ChatInv
  <2>2. (Holds(w) /\ Working(w) /\ Session(w) = l) => run[w].report = "sent"
    BY DEF ChatInv, HolderKnowsSent
  <2>3. Records(w) => Working(w)
    BY DEF Records, Working
  <2> QED BY <2>1, <2>2, <2>3 DEF Claims, GoesOn, Records, Ends
<1> QED BY <1>2, <1>3, <1>4, <1>5, <1>6, Steps DEF vars, retentionVars

(* processChatRetentionJob: a report that is recorded as sent is not made pending,
   failed or skipped again by a call that lost its lease; only another close of the
   session renews the job. *)
THEOREM SentReportsStand == Spec => SentStands
<1>1. TypeOK /\ EventInv /\ ChatInv /\ [Next]_vars =>
        [\A l \in Sessions :
            job[l].report = "sent" /\ job'[l].report # "sent" =>
                \E c \in Callers : call[c] # call'[c] /\ call'[c].pc = "retained"]_vars
  BY SentIsKept DEF EventInv
<1> QED BY <1>1, ChatInvariant, PTL DEF Spec, SentStands
=============================================================================
