------------------------------ MODULE StationRoles ------------------------------
(***************************************************************************)
(* Check-states, roles and net control as the managers of a net change     *)
(* them from their logger pages: each click is a task of one or more       *)
(* commands, every command a request that the server serves in steps of    *)
(* its own, and each page decides by its own copy of the room.  Tags and   *)
(* order are SharedLogger's, the lookup table CheckIn's.                   *)
(***************************************************************************)
EXTENDS Integers, Sequences, FiniteSets

CONSTANTS
    Managers,       \* stations whose operator has a logger page open
    Others,         \* other callsigns
    Nco,            \* the manager that starts as net control
    Accounts,       \* callsigns that belong to a registered user
    None,
    MaxTasks,       \* bound: clicks
    MaxFaults       \* bound: commands that fail for a reason of their own

ASSUME BoundsAssumption == MaxTasks \in Nat /\ MaxFaults \in Nat
ASSUME RolesAssumption == Nco \in Managers /\ Managers \subseteq Accounts /\ Managers \cap Others = {}

VARIABLES
    room,   \* server: the interaction of every callsign
    page,   \* each manager's page
    tasks,  \* clicks, each with the command it is at
    faults

vars == <<room, page, tasks, faults>>

Calls == Managers \cup Others
Roles == {"netcontrol", "netlogger", "netrelay", "netuser"}
ManagerRoles == {"netcontrol", "netlogger"}
Level(role) == CASE role = "netcontrol" -> 0 [] role = "netlogger" -> 1
                 [] role = "netrelay" -> 2 [] role = "netuser" -> 3
Station == [in : {"absent", "lurk", "in", "out"}, role : Roles]
CheckVerbs == {"i", "o", "ui", "io"}
Verbs == CheckVerbs \cup {"l", "r", "handoff"}
Logged(call) == room[call].in \in {"in", "out"}

Stages == {"ask", "sent", "loaded", "checked", "half", "rechecked", "read", "ok", "no", "refresh", "done"}
Task == [by : Managers, kind : {"correct", "check", "checkout", "tag", "role"}, call : Calls, new : Calls,
         was : Station, desired : Roles \cup {None}, verb : Verbs, on : Calls, stage : Stages,
         held : BOOLEAN, seen : Roles, lost : BOOLEAN]

Init ==
    /\ room \in {r \in [Calls -> Station] :
           /\ r[Nco] = [in |-> "in", role |-> "netcontrol"]
           /\ \A m \in Managers \ {Nco} : r[m].in = "in" /\ r[m].role \in {"netlogger", "netrelay"}
           /\ \A o \in Others : r[o] \in {[in |-> "absent", role |-> "netuser"], [in |-> "in", role |-> "netrelay"]}}
    /\ page = [m \in Managers |-> [view |-> room, pending |-> [c \in Calls |-> None], io |-> {}, busy |-> {}]]
    /\ tasks = <<>>
    /\ faults = 0

-----------------------------------------------------------------------------
(* The page. *)

MyRole(m) == page[m].view[m].role
CanManage(m) == MyRole(m) \in ManagerRoles

\* commandAllowed
Allowed(m, verb, call) ==
    /\ verb \in {"o", "io", "ui"} => page[m].view[call].role # "netcontrol"
    /\ verb = "o" => call # m
    /\ CanManage(m)
    /\ MyRole(m) = "netlogger" => verb \in CheckVerbs \cup {"r"}

\* The verb that gives a checked-in station a role, None where changeStationRole sends nothing.
RoleVerb(m, call, desired) ==
    LET current == page[m].view[call].role
    IN  IF current = desired \/ (current = "netcontrol" /\ call = m) THEN None
        ELSE CASE desired = "netlogger" -> "l" [] desired = "netrelay" -> "r" [] desired = "netcontrol" -> "handoff"
               [] desired = "netuser" -> (CASE current = "netlogger" -> "l" [] current = "netrelay" -> "r"
                                            [] OTHER -> None)

\* What changeStationRole refuses at once.
MayChange(m, call, desired) ==
    /\ CanManage(m)
    /\ page[m].view[call].in # "absent"
    /\ MyRole(m) = "netlogger" => desired \in {"netuser", "netrelay"} /\ page[m].view[call].role # "netlogger"

Started(m, kind, call, new, verb, on) ==
    [by |-> m, kind |-> kind, call |-> call, new |-> new, desired |-> None,
     was |-> IF kind = "correct" THEN page[m].view[call] ELSE [in |-> "absent", role |-> "netuser"],
     verb |-> verb, on |-> on, stage |-> "ask", held |-> FALSE, seen |-> "netuser", lost |-> FALSE]

\* What is over no longer has a command.
Done(t) == [t EXCEPT !.stage = "done", !.verb = "i", !.on = t.call, !.seen = "netuser", !.desired = None]

Click(t) ==
    /\ Len(tasks) < MaxTasks
    /\ tasks' = Append(tasks, t)
    /\ UNCHANGED <<room, page, faults>>

\* A click that only the page is changed by.
PageClick(m, call, p) ==
    /\ Len(tasks) < MaxTasks
    /\ tasks' = Append(tasks, Done(Started(m, "tag", call, call, "i", call)))
    /\ page' = [page EXCEPT ![m] = p]
    /\ UNCHANGED <<room, faults>>

\* saveEditModal, correctCallsign: the callsign of a row is corrected.
Correct(m) == \E old, new \in Calls :
    /\ CanManage(m)
    /\ page[m].view[old].in \in {"in", "out"} /\ page[m].view[new].in = "absent"
    /\ page[m].view[old].role # "netcontrol"
    /\ page[m].view[old].role = "netlogger" => MyRole(m) = "netcontrol"
    /\ Click(Started(m, "correct", old, new, "ui", old))

\* lookupAndCheckIn from the editor, a row or the lurkers.
CheckIn(m) == \E call \in Calls, verb \in {"i", "io"} : Click(Started(m, "check", call, call, verb, call))

\* The row's check-out; the In & Out tag checks a station that is in out, and marks it.
CheckOut(m) == \E call \in Calls \ {m}, kind \in {"checkout", "tag"} :
    /\ CanManage(m)
    /\ page[m].view[call].in = "in"
    /\ kind = "checkout" /\ MyRole(m) = "netlogger" => page[m].view[call].role # "netcontrol"
    /\ Click(Started(m, kind, call, call, "o", call))

\* setRowTag("inOut") on a station that is not checked in: a lurker is logged, a mark is set or taken off.
MarkInOut(m) == \E call \in Calls :
    /\ CanManage(m)
    /\ page[m].view[call].in # "absent"
    /\ IF call \notin page[m].io /\ page[m].view[call].in = "lurk"
       THEN Click(Started(m, "check", call, call, "io", call))
       ELSE /\ call \in page[m].io \/ page[m].view[call].in = "out"
            /\ PageClick(m, call, [page[m] EXCEPT !.io = IF call \in @ THEN @ \ {call} ELSE @ \cup {call}])

\* changeStationRole: a command, or a role to be given after check-in.
ChangeRole(m) == \E call \in Calls, desired \in Roles :
    /\ MayChange(m, call, desired)
    /\ IF page[m].view[call].in = "in"
       THEN /\ RoleVerb(m, call, desired) # None
            /\ Click(Started(m, "role", call, call, RoleVerb(m, call, desired), call))
       ELSE PageClick(m, call, [page[m] EXCEPT !.pending[call] = desired])

\* A refresh of the page.
Refresh(m) ==
    /\ page[m].view # room
    /\ page' = [page EXCEPT ![m].view = room]
    /\ UNCHANGED <<room, tasks, faults>>

At(k, stage) == k \in DOMAIN tasks /\ tasks[k].stage = stage

Refused(t) ==
    \/ ~Allowed(t.by, t.verb, t.on)
    \/ t.verb \in CheckVerbs /\ t.on \in page[t.by].busy

\* runCommand: refused by the mode of the page, or while a check-state command for the station is under way.
RunCommand(k) ==
    /\ At(k, "ask")
    /\ LET t == tasks[k]
           holds == ~Refused(t) /\ t.verb \in CheckVerbs
       IN  /\ tasks' = [tasks EXCEPT ![k].stage = IF Refused(t) THEN "no" ELSE "sent", ![k].held = holds]
           /\ page' = [page EXCEPT ![t.by].busy = IF holds THEN @ \cup {t.on} ELSE @]
    /\ UNCHANGED <<room, faults>>

-----------------------------------------------------------------------------
(* The server. *)

Stage(k, stage) == tasks' = [tasks EXCEPT ![k].stage = stage]

\* loadContext, then the check of the action: a role that was read here is not read again.
Load(k) ==
    /\ At(k, "sent")
    /\ LET me == room[tasks[k].by]
           may == me.in = "in" /\ me.role \in (IF tasks[k].verb = "handoff" THEN {"netcontrol"} ELSE ManagerRoles)
       IN  tasks' = [tasks EXCEPT ![k].stage = IF may THEN "loaded" ELSE "no", ![k].seen = me.role]
    /\ UNCHANGED <<room, page, faults>>

MayCheck(by, call, state) ==
    /\ room[by].in # "out" /\ Level(room[by].role) <= 1 /\ by # call
    /\ room[call].in # "absent" => Level(room[by].role) < Level(room[call].role)
    /\ room[call].in \in {"absent", "lurk"} => state # "out"

\* The state a command asks for, the first of checkInOut's two.
State(verb) == CASE verb \in {"i", "io"} -> "in" [] verb = "o" -> "out" [] verb = "ui" -> "lurk"

\* checkState holds the key of the station from its reads to its save.
KeyIsFree(call) == \A j \in DOMAIN tasks : tasks[j].on = call => tasks[j].stage \notin {"checked", "rechecked"}

\* checkState reads the roles, and whether the station is known.
ReadState(k) ==
    /\ At(k, "loaded") /\ tasks[k].verb \in CheckVerbs
    /\ KeyIsFree(tasks[k].on)
    /\ Stage(k, IF MayCheck(tasks[k].by, tasks[k].on, State(tasks[k].verb)) THEN "checked" ELSE "no")
    /\ UNCHANGED <<room, page, faults>>

SetCheckedState(k) ==
    /\ At(k, "checked")
    /\ room' = [room EXCEPT ![tasks[k].on].in = State(tasks[k].verb)]
    /\ Stage(k, IF tasks[k].verb = "io" THEN "half" ELSE "ok")
    /\ UNCHANGED <<page, faults>>

\* The second half of checkInOut.
ReadOut(k) ==
    /\ At(k, "half")
    /\ KeyIsFree(tasks[k].on)
    /\ Stage(k, IF MayCheck(tasks[k].by, tasks[k].on, "out") THEN "rechecked" ELSE "no")
    /\ UNCHANGED <<room, page, faults>>

SetOut(k) ==
    /\ At(k, "rechecked")
    /\ room' = [room EXCEPT ![tasks[k].on].in = "out"]
    /\ Stage(k, "ok")
    /\ UNCHANGED <<page, faults>>

Desired(verb) == IF verb = "l" THEN "netlogger" ELSE "netrelay"

\* toggleRole reads the station it is about to change.
ReadRole(k) ==
    /\ At(k, "loaded") /\ tasks[k].verb \in {"l", "r"}
    /\ LET t == tasks[k]
           may == /\ t.on # t.by /\ room[t.on].in # "absent"
                  /\ Level(t.seen) < Level(room[t.on].role)
                  /\ t.seen # "netcontrol" => t.verb = "r"
       IN  tasks' = [tasks EXCEPT ![k].stage = IF may THEN "read" ELSE "no",
                                  ![k].seen = IF may THEN room[t.on].role ELSE @]
    /\ UNCHANGED <<room, page, faults>>

\* setNetRole
SetRole(k) ==
    /\ At(k, "read")
    /\ LET t == tasks[k]
           next == IF t.seen = Desired(t.verb) THEN "netuser" ELSE Desired(t.verb)
       IN  IF next = "netlogger" /\ t.on \notin Accounts
           THEN Stage(k, "no") /\ UNCHANGED room
           ELSE room' = [room EXCEPT ![t.on].role = next] /\ Stage(k, "ok")
    /\ UNCHANGED <<page, faults>>

\* Mutation: the one who hands over stays net control.
HandoffShared(k) ==
    /\ At(k, "loaded") /\ tasks[k].verb = "handoff"
    /\ LET t == tasks[k]
           may == /\ t.on # t.by /\ t.on \in Accounts /\ room[t.on].in = "in"
                  /\ room[t.by] = [in |-> "in", role |-> "netcontrol"]
       IN  IF may THEN room' = [room EXCEPT ![t.on].role = "netcontrol"] /\ Stage(k, "ok")
           ELSE Stage(k, "no") /\ UNCHANGED room
    /\ UNCHANGED <<page, faults>>

\* handoff and the transaction of handoffNetControl, which reads both stations again.
Handoff(k) ==
    /\ At(k, "loaded") /\ tasks[k].verb = "handoff"
    /\ LET t == tasks[k]
           may == /\ t.on # t.by /\ t.on \in Accounts /\ room[t.on].in = "in"
                  /\ room[t.by] = [in |-> "in", role |-> "netcontrol"]
       IN  IF may
           THEN room' = [room EXCEPT ![t.on].role = "netcontrol", ![t.by].role = "netlogger"] /\ Stage(k, "ok")
           ELSE Stage(k, "no") /\ UNCHANGED room
    /\ UNCHANGED <<page, faults>>

\* The command that takes a correction back.
Restores(t) == t.kind = "correct" /\ t.verb \in {"i", "io"} /\ t.on = t.call

\* A command fails for a reason of its own, before it has done anything.
Fails(k) ==
    /\ faults < MaxFaults /\ faults' = faults + 1
    /\ At(k, "sent")
    /\ tasks' = [tasks EXCEPT ![k].stage = "no", ![k].lost = @ \/ Restores(tasks[k])]
    /\ UNCHANGED <<room, page>>

\* The answer of a command that was served is lost.
AnswerLost(k) ==
    /\ faults < MaxFaults /\ faults' = faults + 1
    /\ At(k, "ok")
    /\ tasks' = [tasks EXCEPT ![k].stage = "no", ![k].lost = TRUE]
    /\ UNCHANGED <<room, page>>

-----------------------------------------------------------------------------
(* The answer, and what the task does next. *)

Then(t, verb, on) == [t EXCEPT !.verb = verb, !.on = on, !.stage = "ask"]

\* Mutation: a correction whose new callsign is refused ends there.
CorrectedNoRollback(t) ==
    LET add == IF t.was.in = "out" THEN "io" ELSE "i"
    IN  CASE t.verb = "ui" /\ t.stage = "ok" -> Then(t, add, t.new)
          [] t.verb = add /\ t.on = t.new /\ t.stage = "ok" /\ t.was.role = "netlogger" -> Then(t, "l", t.new)
          [] t.verb = add /\ t.on = t.new /\ t.stage = "ok" /\ t.was.role = "netrelay" -> Then(t, "r", t.new)
          [] OTHER -> Done(t)

\* correctCallsign: undo, add, or else restore; then the role.
Corrected(t) ==
    LET add == IF t.was.in = "out" THEN "io" ELSE "i"
    IN  CASE t.verb = "ui" /\ t.stage = "ok" -> Then(t, add, t.new)
          [] t.verb = add /\ t.on = t.new /\ t.stage = "no" -> Then(t, add, t.call)
          [] t.verb = add /\ t.on = t.new /\ t.stage = "ok" /\ t.was.role = "netlogger" -> Then(t, "l", t.new)
          [] t.verb = add /\ t.on = t.new /\ t.stage = "ok" /\ t.was.role = "netrelay" -> Then(t, "r", t.new)
          [] OTHER -> Done(t)

\* lookupAndCheckIn: after check-in comes the role that was chosen before.
CheckedIn(t) ==
    IF t.verb = "i" /\ t.stage = "ok" /\ page[t.by].pending[t.call] \notin {None, "netuser"}
    THEN [t EXCEPT !.stage = "refresh", !.desired = page[t.by].pending[t.call]]
    ELSE Done(t)

Continued(t) == CASE t.kind = "correct" -> Corrected(t) [] t.kind = "check" -> CheckedIn(t) [] OTHER -> Done(t)

\* In & Out marks: a corrected station is marked as it was logged, a checked-out one by the way it was.
MarkedIo(p, t) ==
    CASE t.kind = "correct" /\ Corrected(t).stage = "done" /\ t.on = t.new
             -> (p.io \ {t.call, t.new}) \cup (IF t.was.in = "out" THEN {t.new} ELSE {})
      [] t.kind = "tag" /\ t.stage = "ok" -> p.io \cup {t.call}
      [] t.kind = "check" /\ t.stage = "ok" -> IF t.verb = "io" THEN p.io \cup {t.call} ELSE p.io \ {t.call}
      [] t.kind = "checkout" /\ t.stage = "ok" -> p.io \ {t.call}
      [] OTHER -> p.io

\* A role that was given, or corrected away, is no longer pending.
StillPending(p, t) ==
    CASE t.stage = "ok" /\ t.verb \in {"l", "r", "handoff"} /\ t.kind # "correct" -> [p.pending EXCEPT ![t.call] = None]
      [] t.stage = "ok" /\ t.verb = "i" /\ t.kind = "check" /\ p.pending[t.call] = "netuser"
             -> [p.pending EXCEPT ![t.call] = None]
      [] t.kind = "correct" /\ Corrected(t).stage = "done" /\ t.on = t.new
             -> [p.pending EXCEPT ![t.new] = p.pending[t.call], ![t.call] = None]
      [] OTHER -> p.pending

\* After a handoff the page shows it before it has read it.
Shown(p, t) ==
    IF t.verb = "handoff" /\ t.stage = "ok"
    THEN [p.view EXCEPT ![t.by].role = "netlogger", ![t.on].role = "netcontrol"]
    ELSE p.view

Answered(k) ==
    /\ At(k, "ok") \/ At(k, "no")
    /\ LET t == tasks[k]
       IN  /\ tasks' = [tasks EXCEPT ![k] = [Continued(t) EXCEPT !.held = FALSE]]
           /\ page' = [page EXCEPT ![t.by] =
                  [view |-> Shown(@, t), pending |-> StillPending(@, t), io |-> MarkedIo(@, t),
                   busy |-> IF t.held THEN @.busy \ {t.on} ELSE @.busy]]
    /\ UNCHANGED <<room, faults>>

\* applyPendingRole, with the room as the page sees it after its refresh (the server may have answered from its cache).
ApplyPendingRole(k) ==
    /\ At(k, "refresh")
    /\ LET t == tasks[k]
           m == t.by
           gives == /\ MayChange(m, t.call, t.desired) /\ page[m].view[t.call].in = "in"
                    /\ RoleVerb(m, t.call, t.desired) # None
       IN  tasks' = [tasks EXCEPT ![k] =
               IF gives THEN [Then(t, RoleVerb(m, t.call, t.desired), t.call) EXCEPT !.kind = "role"] ELSE Done(t)]
    /\ UNCHANGED <<room, page, faults>>

Step(k) ==
    \/ RunCommand(k) \/ Load(k) \/ ReadState(k) \/ SetCheckedState(k) \/ ReadOut(k) \/ SetOut(k)
    \/ ReadRole(k) \/ SetRole(k) \/ Handoff(k) \/ Answered(k) \/ ApplyPendingRole(k)

Next ==
    \/ \E m \in Managers : Correct(m) \/ CheckIn(m) \/ CheckOut(m) \/ MarkInOut(m) \/ ChangeRole(m) \/ Refresh(m)
    \/ \E k \in 1..MaxTasks : Step(k) \/ Fails(k) \/ AnswerLost(k)

Spec == Init /\ [][Next]_vars

\* Requests are served, and answered.
FairSpec == Spec /\ \A k \in 1..MaxTasks : WF_vars(Step(k))

-----------------------------------------------------------------------------
(* Properties. *)

\* The shape of the state.
TypeOK ==
    /\ room \in [Calls -> Station]
    /\ page \in [Managers -> [view : [Calls -> Station], pending : [Calls -> Roles \cup {None}],
                             io : SUBSET Calls, busy : SUBSET Calls]]
    /\ tasks \in Seq(Task) /\ Len(tasks) <= MaxTasks
    /\ faults \in 0..MaxFaults

\* Handoffs that overlap, even of one operator with two pages, leave one net control at most: the transaction
\* reads both stations again (handoffNetControl).
OneNco == Cardinality({c \in Calls : room[c].role = "netcontrol"}) <= 1

\* A page has one check-state command under way for a station at a time, through every early return and failure of
\* runCommand (ExclusiveKeyedOperation).
OneAtATime ==
    \A m \in Managers :
        LET holders(c) == {k \in DOMAIN tasks : tasks[k].by = m /\ tasks[k].on = c /\ tasks[k].held}
        IN  \A c \in Calls : Cardinality(holders(c)) = (IF c \in page[m].busy THEN 1 ELSE 0)

Touches(t, c) == c \in {t.by, t.call, t.new}
Alone(k) == \A j \in DOMAIN tasks \ {k} :
    tasks[j].by # tasks[k].by /\ \A c \in {tasks[k].by, tasks[k].call, tasks[k].new} : ~Touches(tasks[j], c)

\* A callsign correction that fails half way leaves the station logged under one of its two callsigns, unless an
\* answer was lost or the command that takes it back failed too, or others worked on the same stations
\* (correctCallsign).
NobodyIsLost ==
    \A k \in DOMAIN tasks : LET t == tasks[k] IN
        t.kind = "correct" /\ t.stage = "done" /\ t.was.in \in {"in", "out"} /\ ~t.lost /\ Alone(k)
            => Logged(t.call) \/ Logged(t.new)

\* Every click comes to its end, whatever fails, and gives the station back (runCommand, its finally).
TasksEnd == \A k \in 1..MaxTasks : k \in DOMAIN tasks ~> At(k, "done")

=============================================================================
