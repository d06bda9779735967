---------------------------- MODULE ChatRetention ----------------------------
(***************************************************************************)
(* chatRetention.js: what happens to the chat of a closed session.         *)
(*                                                                         *)
(* A ChatRetention job is queued when a session closes.  It sends the      *)
(* close report, or waits for the automatic close's e-mail, and after the  *)
(* retention days removes the session's chat and images.  Any process      *)
(* may take a due job; a lease keeps two of them apart and is given up by  *)
(* time alone when its holder dies.                                        *)
(*                                                                         *)
(* Instants are not numbers here.  What the code compares with the clock   *)
(* is kept as what the comparison would answer, and time changes it:       *)
(* due (nextAttemptAt), leased (leaseUntil) and expired (expiresAt).       *)
(* A claim is the pair <<id, leaseUntil>> in the code; no two claims of a  *)
(* job have the same leaseUntil, so the model writes down who has it.      *)
(***************************************************************************)
EXTENDS Naturals

CONSTANTS
    Sessions,       \* LiveNet ids
    Runs,           \* processors of jobs: the minute worker, every closeNet
    Nobody,
    MaxFailures     \* bound on failed writes, refused mails and crashes

ASSUME NobodyAssumption == Nobody \notin Runs
ASSUME FailuresAssumption == MaxFailures \in Nat

VARIABLES
    room,           \* the session's LiveNet document
    event,          \* its LiveNetAutoClose document
    chat,           \* the sessions whose messages and images are kept
    delivered,      \* the sessions of which a report was accepted for delivery
    job,            \* its ChatRetention document
    run,            \* processChatRetentionJob calls in flight
    failures

retentionVars == <<room, event, chat, delivered, job, run, failures>>

Reports == {"pending", "sent", "skipped", "external", "failed"}

\* "none": no document yet.  stale: the claim of the close or, once that is completed,
\* of its e-mail is CLAIM_STALE_MS old.  committed: closeCommittedAt is set.
\* snapshot: the event holds the close report.
Event ==
    [close : {"none", "pending", "claimed", "completed"},
     stale : BOOLEAN,
     committed : BOOLEAN,
     snapshot : BOOLEAN,
     email : {"pending", "claimed", "sent", "failed"}]

\* due: an attempt is due now, after RETRY_MS, or when the chat expires.
Job ==
    [report : Reports \cup {"none"},
     due : {"now", "retry", "expiry"},
     holder : Runs \cup {Nobody},
     leased : BOOLEAN,
     expired : BOOLEAN,
     done : BOOLEAN]

\* report and expired are the call's own copies, read with its claim.
Run ==
    [pc : {"idle", "start", "claimed", "report", "record", "postpone", "clean",
           "finish", "fail"},
     session : Sessions \cup {Nobody},
     report : Reports,
     expired : BOOLEAN]

NoEvent == [close |-> "none", stale |-> FALSE, committed |-> FALSE,
            snapshot |-> FALSE, email |-> "pending"]
NoJob == [report |-> "none", due |-> "now", holder |-> Nobody, leased |-> FALSE,
          expired |-> FALSE, done |-> FALSE]
IdleRun == [pc |-> "idle", session |-> Nobody, report |-> "pending", expired |-> FALSE]

RetentionTypeOK ==
    /\ room \in [Sessions -> {"open", "closing", "abandoned", "gone"}]
    /\ event \in [Sessions -> Event]
    /\ chat \in SUBSET Sessions
    /\ delivered \in SUBSET Sessions
    /\ job \in [Sessions -> Job]
    /\ run \in [Runs -> Run]
    /\ failures \in 0..MaxFailures

RetentionInit ==
    /\ room = [l \in Sessions |-> "open"]
    /\ event = [l \in Sessions |-> NoEvent]
    /\ chat = Sessions
    /\ delivered = {}
    /\ job = [l \in Sessions |-> NoJob]
    /\ run = [w \in Runs |-> IdleRun]
    /\ failures = 0

-----------------------------------------------------------------------------
(* enqueueChatRetention *)

Queued(l) == job[l].report # "none"

\* A quiet close of a session that has an event leaves the report to it.
ReportFor(l, quiet) ==
    CASE ~quiet -> "pending"
      [] quiet /\ event[l].close = "none" -> "skipped"
      [] quiet /\ event[l].close # "none" -> "external"

\* The job after a call: a close renews one that is there, the sweep does not.
Enqueued(l, quiet, refreshClose) ==
    IF Queued(l) /\ ~refreshClose THEN job[l]
    ELSE [job[l] EXCEPT !.report = ReportFor(l, quiet), !.due = "now", !.expired = FALSE]

-----------------------------------------------------------------------------
(* processChatRetentionJob *)

Fails == failures < MaxFailures /\ failures' = failures + 1

At(w, pc) == run[w].pc = pc
Session(w) == run[w].session
Continue(w, pc) == run' = [run EXCEPT ![w].pc = pc]
Return(w) == run' = [run EXCEPT ![w] = IdleRun]

\* An update of the job on the condition that the call's claim stands.
Holds(w) == job[Session(w)].holder = w
IfHeld(w, doc) == IF Holds(w) THEN [job EXCEPT ![Session(w)] = doc] ELSE job

\* The job without its lease, to be tried again as due says.
Released(l, due) == [job[l] EXCEPT !.holder = Nobody, !.leased = FALSE, !.due = due]

Claimable(l) == Queued(l) /\ ~job[l].done /\ job[l].due = "now" /\ ~job[l].leased

\* closeNet's own call finds the job taken, or not due.
ClaimNone(w) ==
    /\ At(w, "start") /\ ~Claimable(Session(w))
    /\ Return(w)
    /\ UNCHANGED <<room, event, chat, delivered, job, failures>>

Claim(w, l) ==
    /\ Claimable(l)
    /\ job' = [job EXCEPT ![l].holder = w, ![l].leased = TRUE]
    /\ run' = [run EXCEPT ![w] = [pc |-> "claimed", session |-> l,
                                  report |-> job[l].report, expired |-> job[l].expired]]
    /\ UNCHANGED <<room, event, chat, delivered, failures>>

\* The session's LiveNet is still stored.
StillLive(l) == room[l] # "gone"

CheckLive(w) ==
    /\ At(w, "claimed")
    /\ IF StillLive(Session(w))
       THEN job' = IfHeld(w, Released(Session(w), "retry")) /\ Return(w)
       ELSE Continue(w, "report") /\ UNCHANGED job
    /\ UNCHANGED <<room, event, chat, delivered, failures>>

\* The report of an automatic close is its event's; a failed one is requeued there.
AwaitEmail(w) ==
    LET l == Session(w) IN
    /\ At(w, "report") /\ run[w].report = "external"
    /\ IF event[l].email = "sent"
       THEN /\ run' = [run EXCEPT ![w].report = "sent", ![w].pc = "record"]
            /\ UNCHANGED event
       ELSE /\ Continue(w, "fail")
            /\ event' = IF event[l].email = "failed"
                        THEN [event EXCEPT ![l].email = "pending"] ELSE event
    /\ UNCHANGED <<room, chat, delivered, job, failures>>

\* Mutation of Deliver: a report that was only printed counts as sent.
DeliverToConsole(w) ==
    /\ At(w, "report") /\ run[w].report \in {"pending", "failed"}
    /\ \/ /\ run' = [run EXCEPT ![w].report = "sent", ![w].pc = "record"]
          /\ delivered' \in {delivered, delivered \cup {Session(w)}}
       \/ /\ run' = [run EXCEPT ![w].report = "skipped", ![w].pc = "record"]
          /\ UNCHANGED delivered
    /\ UNCHANGED <<room, event, chat, job, failures>>

\* The mail is accepted for every recipient, or no recipient wants it.
Deliver(w) ==
    /\ At(w, "report") /\ run[w].report \in {"pending", "failed"}
    /\ \/ /\ run' = [run EXCEPT ![w].report = "sent", ![w].pc = "record"]
          /\ delivered' = delivered \cup {Session(w)}
       \/ /\ run' = [run EXCEPT ![w].report = "skipped", ![w].pc = "record"]
          /\ UNCHANGED delivered
    /\ UNCHANGED <<room, event, chat, job, failures>>

NoReport(w) ==
    /\ At(w, "report") /\ run[w].report \in {"sent", "skipped"}
    /\ Continue(w, "record")
    /\ UNCHANGED <<room, event, chat, delivered, job, failures>>

Record(w) ==
    /\ At(w, "record")
    /\ job' = IfHeld(w, [job[Session(w)] EXCEPT !.report = run[w].report])
    /\ IF ~Holds(w) THEN Return(w)
       ELSE Continue(w, IF run[w].expired THEN "clean" ELSE "postpone")
    /\ UNCHANGED <<room, event, chat, delivered, failures>>

Postpone(w) ==
    /\ At(w, "postpone")
    /\ job' = IfHeld(w, Released(Session(w),
                                 IF job[Session(w)].expired THEN "now" ELSE "expiry"))
    /\ Return(w)
    /\ UNCHANGED <<room, event, chat, delivered, failures>>

\* cleanupNetChat, which refuses a session that is still stored.
Clean(w) ==
    /\ At(w, "clean")
    /\ IF StillLive(Session(w)) THEN Continue(w, "fail") /\ UNCHANGED chat
       ELSE Continue(w, "finish") /\ chat' = chat \ {Session(w)}
    /\ UNCHANGED <<room, event, delivered, job, failures>>

\* The event's report is dropped, then the job completed.
Finish(w) ==
    LET l == Session(w) IN
    /\ At(w, "finish")
    /\ event' = IF event[l].email = "sent" THEN [event EXCEPT ![l].snapshot = FALSE] ELSE event
    /\ job' = IfHeld(w, [Released(l, "now") EXCEPT !.done = TRUE])
    /\ Return(w)
    /\ UNCHANGED <<room, chat, delivered, failures>>

\* A refused mail, a failed unlink or write: on to the catch block.
RunFails(w) ==
    /\ run[w].pc \in {"claimed", "report", "record", "postpone", "clean", "finish"}
    /\ Fails
    /\ Continue(w, "fail")
    /\ UNCHANGED <<room, event, chat, delivered, job>>

\* Mutation of Retry: the state is written whether or not the claim stands.
RetryUnconditionally(w) ==
    LET state == IF run[w].report \in {"pending", "failed"} THEN "failed" ELSE run[w].report
    IN
    /\ At(w, "fail")
    /\ job' = [job EXCEPT ![Session(w)] = [Released(Session(w), "retry") EXCEPT !.report = state]]
    /\ Return(w)
    /\ UNCHANGED <<room, event, chat, delivered, failures>>

\* The catch block: the job is tried again after RETRY_MS.
Retry(w) ==
    LET state == IF run[w].report \in {"pending", "failed"} THEN "failed" ELSE run[w].report
    IN
    /\ At(w, "fail")
    /\ job' = IfHeld(w, [Released(Session(w), "retry") EXCEPT !.report = state])
    /\ Return(w)
    /\ UNCHANGED <<room, event, chat, delivered, failures>>

\* The catch block's write fails as well: the lease is left to lapse.
RunAborts(w) ==
    /\ At(w, "fail")
    /\ Fails
    /\ Return(w)
    /\ UNCHANGED <<room, event, chat, delivered, job>>

Process(w) ==
    \/ ClaimNone(w)
    \/ At(w, "start") /\ Claim(w, Session(w))
    \/ CheckLive(w) \/ AwaitEmail(w) \/ Deliver(w) \/ NoReport(w) \/ Record(w)
    \/ Postpone(w) \/ Clean(w) \/ Finish(w) \/ RunFails(w) \/ Retry(w) \/ RunAborts(w)

-----------------------------------------------------------------------------
(* Time *)

\* RETRY_MS have passed.
RetryDue(l) ==
    /\ job[l].due = "retry"
    /\ job' = [job EXCEPT ![l].due = "now"]
    /\ UNCHANGED <<room, event, chat, delivered, run, failures>>

\* LEASE_MS have passed.
LeaseLapses(l) ==
    /\ job[l].leased
    /\ job' = [job EXCEPT ![l].leased = FALSE]
    /\ UNCHANGED <<room, event, chat, delivered, run, failures>>

\* CHAT_RETENTION_DAYS have passed.
ChatExpires(l) ==
    /\ Queued(l) /\ ~job[l].expired
    /\ job' = [job EXCEPT ![l].expired = TRUE,
                          ![l].due = IF @ = "expiry" THEN "now" ELSE @]
    /\ UNCHANGED <<room, event, chat, delivered, run, failures>>
=============================================================================
