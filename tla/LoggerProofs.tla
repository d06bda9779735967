-------------------------- MODULE LoggerProofs --------------------------
(***************************************************************************)
(* Proofs about what operators set going on their logger pages: the roles  *)
(* and check-states of a net's stations, for any managers and stations,    *)
(* any number of clicks and any number of failures; about the marks they   *)
(* leave there (SharedLogger); and about the two together.                 *)
(***************************************************************************)
EXTENDS Logger, FiniteSetTheorems, TLAPS

\* What the shape of a task leaves open: the verb of a check-state command on the server, and the role that a check-in
\* goes on to give.
StagesFit ==
    \A k \in DOMAIN tasks :
        /\ tasks[k].stage \in {"checked", "half", "rechecked"} => tasks[k].verb \in CheckVerbs
        /\ tasks[k].stage = "refresh" => tasks[k].desired \in Roles

TypeInv == TypeOK /\ StagesFit

PageType == [view : [Calls -> Station], pending : [Calls -> Roles \cup {None}], io : SUBSET Calls, busy : SUBSET Calls]

Fits(t) ==
    /\ t \in Task
    /\ t.stage \in {"checked", "half", "rechecked"} => t.verb \in CheckVerbs
    /\ t.stage = "refresh" => t.desired \in Roles

LEMMA InCalls == Managers \subseteq Calls
  BY DEF Calls

\* One task is replaced.
LEMMA OneReplaced ==
    ASSUME TypeInv, NEW k \in DOMAIN tasks, NEW t, Fits(t), tasks' = [tasks EXCEPT ![k] = t]
    PROVE  tasks' \in Seq(Task) /\ Len(tasks') <= MaxTasks /\ StagesFit'
<1>1. tasks \in Seq(Task) /\ Len(tasks) <= MaxTasks
  BY DEF TypeInv, TypeOK
<1>2. tasks' \in Seq(Task) /\ Len(tasks') = Len(tasks) /\ DOMAIN tasks' = DOMAIN tasks
  BY <1>1 DEF Fits
<1>3. \A j \in DOMAIN tasks : tasks'[j] = IF j = k THEN t ELSE tasks[j]
  BY <1>1
<1> QED
  BY <1>1, <1>2, <1>3 DEF TypeInv, StagesFit, Fits

\* One is begun.
LEMMA OneMore ==
    ASSUME TypeInv, NEW t, Fits(t), Len(tasks) < MaxTasks, tasks' = Append(tasks, t)
    PROVE  tasks' \in Seq(Task) /\ Len(tasks') <= MaxTasks /\ StagesFit'
<1>1. tasks \in Seq(Task)
  BY DEF TypeInv, TypeOK
<1>2. /\ tasks' \in Seq(Task) /\ Len(tasks') = Len(tasks) + 1
      /\ \A j \in DOMAIN tasks' : tasks'[j] = IF j \in DOMAIN tasks THEN tasks[j] ELSE t
  BY <1>1 DEF Fits
<1> QED
  BY <1>1, <1>2, BoundsAssumption DEF TypeInv, StagesFit, Fits, BoundsAssumption

LEMMA TaskShape ==
    ASSUME TypeInv, NEW k \in DOMAIN tasks
    PROVE  /\ Fits(tasks[k])
           /\ tasks[k].by \in Managers /\ tasks[k].by \in Calls
           /\ tasks[k].call \in Calls /\ tasks[k].new \in Calls /\ tasks[k].on \in Calls
           /\ tasks[k].verb \in Verbs /\ tasks[k].seen \in Roles
<1>1. tasks[k] \in Task
  BY DEF TypeInv, TypeOK
<1> QED
  BY <1>1, InCalls DEF Task, Fits, TypeInv, StagesFit

\* Steps that set a task's stage, and what goes with it.
LEMMA NextStage ==
    ASSUME NEW t, Fits(t), NEW s \in Stages \ {"refresh"}, s \in {"checked", "half", "rechecked"}
        => t.verb \in CheckVerbs,
           NEW held \in BOOLEAN, NEW seen \in Roles, NEW lost \in BOOLEAN
    PROVE  /\ Fits([t EXCEPT !.stage = s])
           /\ Fits([t EXCEPT !.stage = s, !.held = held])
           /\ Fits([t EXCEPT !.stage = s, !.seen = seen])
           /\ Fits([t EXCEPT !.stage = s, !.lost = lost])
  BY DEF Fits, Task

LEMMA StartFits ==
    ASSUME TypeInv, NEW m \in Managers, NEW kind \in {"correct", "check", "checkout", "tag", "role"},
           NEW call \in Calls, NEW new \in Calls, NEW verb \in Verbs, NEW on \in Calls
    PROVE  Fits(Started(m, kind, call, new, verb, on))
<1>1. page[m].view[call] \in Station
  BY InCalls DEF TypeInv, TypeOK
<1>2. [in |-> "absent", role |-> "netuser"] \in Station
  BY DEF Station, Roles
<1> QED
  BY <1>1, <1>2 DEF Fits, Task, Started, Stages, Roles

-----------------------------------------------------------------------------
(* The page's steps. *)

LEMMA TypeStart == Init => TypeInv
<1> SUFFICES ASSUME Init PROVE TypeInv
  OBVIOUS
<1>1. room \in [Calls -> Station]
  BY DEF Init
<1>2. page \in [Managers -> PageType]
  BY <1>1 DEF Init, PageType
<1>3. tasks \in Seq(Task) /\ Len(tasks) <= MaxTasks /\ faults \in 0..MaxFaults /\ StagesFit
  BY BoundsAssumption DEF Init, BoundsAssumption, StagesFit
<1> QED
  BY <1>1, <1>2, <1>3 DEF TypeInv, TypeOK, PageType

LEMMA PageShape ==
    ASSUME TypeInv, NEW m \in Managers
    PROVE  page[m] \in PageType /\ page \in [Managers -> PageType]
  BY DEF TypeInv, TypeOK, PageType

\* A click that starts a task.
LEMMA ClickTyped ==
    ASSUME TypeInv, NEW t, Fits(t), Click(t)
    PROVE  TypeInv'
  BY OneMore DEF Click, TypeInv, TypeOK

LEMMA DoneFits ==
    ASSUME NEW u, Fits(u)
    PROVE  Fits(Done(u))
<1>1. u \in Task
  BY DEF Fits
<1>2. "i" \in Verbs /\ "netuser" \in Roles /\ "done" \in Stages
  BY DEF Verbs, CheckVerbs, Roles, Stages
<1> HIDE DEF Verbs, Stages
<1> QED
  BY <1>1, <1>2 DEF Done, Fits, Task

\* A click that changes the page.
LEMMA PageClickTyped ==
    ASSUME TypeInv, NEW m \in Managers, NEW call \in Calls, NEW p \in PageType, PageClick(m, call, p)
    PROVE  TypeInv'
<1> DEFINE t == Done(Started(m, "tag", call, call, "i", call))
<1>1. Fits(Started(m, "tag", call, call, "i", call))
  BY StartFits DEF Verbs, CheckVerbs
<1>2. Fits(t)
  BY <1>1, DoneFits
<1>3. tasks' \in Seq(Task) /\ Len(tasks') <= MaxTasks /\ StagesFit'
  BY <1>2, OneMore DEF PageClick
<1>4. page' \in [Managers -> PageType]
  BY PageShape DEF PageClick
<1> QED
  BY <1>3, <1>4 DEF PageClick, TypeInv, TypeOK, PageType

LEMMA RoleVerbs ==
    ASSUME TypeInv, NEW m \in Managers, NEW call \in Calls, NEW desired \in Roles
    PROVE  RoleVerb(m, call, desired) \in Verbs \cup {None}
  BY DEF RoleVerb, Verbs, Roles

LEMMA PageStepTyped ==
    ASSUME TypeInv, NEW m \in Managers,
           Correct(m) \/ CheckIn(m) \/ CheckOut(m) \/ MarkInOut(m) \/ ChangeRole(m) \/ Refresh(m)
    PROVE  TypeInv'
<1>1. ASSUME Correct(m) PROVE TypeInv'
  <2>1. PICK old \in Calls, new \in Calls : Click(Started(m, "correct", old, new, "ui", old))
    BY <1>1 DEF Correct
  <2> QED
    BY <2>1, StartFits, ClickTyped DEF Verbs, CheckVerbs
<1>2. ASSUME CheckIn(m) PROVE TypeInv'
  <2>1. PICK call \in Calls, verb \in {"i", "io"} : Click(Started(m, "check", call, call, verb, call))
    BY <1>2 DEF CheckIn
  <2> QED
    BY <2>1, StartFits, ClickTyped DEF Verbs, CheckVerbs
<1>3. ASSUME CheckOut(m) PROVE TypeInv'
  <2>1. PICK call \in Calls \ {m}, kind \in {"checkout", "tag"} : Click(Started(m, kind, call, call, "o", call))
    BY <1>3 DEF CheckOut
  <2> QED
    BY <2>1, StartFits, ClickTyped DEF Verbs, CheckVerbs
<1>4. ASSUME MarkInOut(m) PROVE TypeInv'
  <2>1. PICK call \in Calls :
            \/ Click(Started(m, "check", call, call, "io", call))
            \/ PageClick(m, call, [page[m] EXCEPT !.io = IF call \in @ THEN @ \ {call} ELSE @ \cup {call}])
    BY <1>4 DEF MarkInOut
  <2>2. [page[m] EXCEPT !.io = IF call \in @ THEN @ \ {call} ELSE @ \cup {call}] \in PageType
    BY PageShape DEF PageType
  <2> QED
    BY <2>1, <2>2, StartFits, ClickTyped, PageClickTyped DEF Verbs, CheckVerbs
<1>5. ASSUME ChangeRole(m) PROVE TypeInv'
  <2>1. PICK call \in Calls, desired \in Roles :
            \/ RoleVerb(m, call, desired) # None
               /\ Click(Started(m, "role", call, call, RoleVerb(m, call, desired), call))
            \/ PageClick(m, call, [page[m] EXCEPT !.pending[call] = desired])
    BY <1>5 DEF ChangeRole
  <2>2. [page[m] EXCEPT !.pending[call] = desired] \in PageType
    BY PageShape DEF PageType
  <2>3. RoleVerb(m, call, desired) \in Verbs \cup {None}
    BY RoleVerbs
  <2> QED
    BY <2>1, <2>2, <2>3, StartFits, ClickTyped, PageClickTyped
<1>6. ASSUME Refresh(m) PROVE TypeInv'
  <2>1. page' \in [Managers -> PageType]
    BY <1>6, PageShape DEF Refresh, PageType, TypeInv, TypeOK
  <2> QED
    BY <1>6, <2>1 DEF Refresh, TypeInv, TypeOK, PageType, StagesFit
<1> QED
  BY <1>1, <1>2, <1>3, <1>4, <1>5, <1>6

-----------------------------------------------------------------------------
(* The steps of a command. *)

\* The steps that only replace the task.
LEMMA TaskOnly ==
    ASSUME TypeInv, NEW k \in DOMAIN tasks, NEW t, Fits(t), tasks' = [tasks EXCEPT ![k] = t],
           room' \in [Calls -> Station], page' \in [Managers -> PageType], faults' \in 0..MaxFaults
    PROVE  TypeInv'
  BY OneReplaced DEF TypeInv, TypeOK, PageType

\* The steps that set the stage of the task.
LEMMA StageOnly ==
    ASSUME TypeInv, NEW k \in DOMAIN tasks, NEW s \in Stages \ {"refresh"}, Stage(k, s),
           s \in {"checked", "half", "rechecked"} => tasks[k].verb \in CheckVerbs,
           room' \in [Calls -> Station], page' = page, faults' \in 0..MaxFaults
    PROVE  TypeInv'
<1> DEFINE t == [tasks[k] EXCEPT !.stage = s]
<1>1. Fits(t)
  BY TaskShape, NextStage
<1>2. tasks' = [tasks EXCEPT ![k] = t]
  BY DEF Stage
<1>3. page' \in [Managers -> PageType]
  BY DEF TypeInv, TypeOK, PageType
<1> HIDE DEF t
<1> QED
  BY <1>1, <1>2, <1>3, TaskOnly

\* A station's state or role is set, or two of the roles.
LEMMA StateSet ==
    ASSUME TypeInv, NEW c \in Calls, NEW state \in {"absent", "lurk", "in", "out"}
    PROVE  [room EXCEPT ![c].in = state] \in [Calls -> Station]
  BY DEF TypeInv, TypeOK, Station

LEMMA RoleSet ==
    ASSUME TypeInv, NEW c \in Calls, NEW role \in Roles
    PROVE  [room EXCEPT ![c].role = role] \in [Calls -> Station]
  BY DEF TypeInv, TypeOK, Station

LEMMA RolesSet ==
    ASSUME TypeInv, NEW c \in Calls, NEW role \in Roles, NEW d \in Calls, NEW other \in Roles
    PROVE  [room EXCEPT ![c].role = role, ![d].role = other] \in [Calls -> Station]
<1> DEFINE once == [room EXCEPT ![c].role = role]
<1>1. once \in [Calls -> Station]
  BY RoleSet
<1> QED
  BY <1>1 DEF Station

LEMMA RoomShape == ASSUME TypeInv PROVE room \in [Calls -> Station] /\ faults \in 0..MaxFaults
  BY DEF TypeInv, TypeOK

LEMMA RequestTyped ==
    ASSUME TypeInv, NEW k, RunCommand(k) \/ Load(k)
    PROVE  TypeInv'
<1>1. ASSUME RunCommand(k) PROVE TypeInv'
  <2> DEFINE t == tasks[k]
  <2> DEFINE holds == ~Refused(t) /\ t.verb \in CheckVerbs
  <2> DEFINE next == [t EXCEPT !.stage = IF Refused(t) THEN "no" ELSE "sent", !.held = holds]
  <2>1. k \in DOMAIN tasks
    BY <1>1 DEF RunCommand, At
  <2>2. holds \in BOOLEAN
        /\ (IF Refused(t) THEN "no" ELSE "sent") \in Stages \ {"refresh", "checked", "half", "rechecked"}
    BY DEF Stages
  <2>3. Fits(next)
    <3> HIDE DEF holds
    <3> QED
      BY <2>1, <2>2, TaskShape, NextStage
  <2>4. tasks' = [tasks EXCEPT ![k] = next]
    BY <1>1 DEF RunCommand
  <2>5. page' \in [Managers -> PageType]
    <3>1. page' = [page EXCEPT ![t.by].busy = IF holds THEN @ \cup {t.on} ELSE @]
      BY <1>1 DEF RunCommand
    <3>2. page[t.by] \in PageType /\ t.by \in Managers /\ t.on \in Calls
      BY <2>1, PageShape, TaskShape
    <3>3. PICK busy \in SUBSET Calls : page' = [page EXCEPT ![t.by].busy = busy]
      <4> HIDE DEF holds
      <4> QED
        BY <3>1, <3>2 DEF PageType
    <3> QED
      BY <3>2, <3>3, PageShape DEF PageType
  <2> HIDE DEF next
  <2> QED
    BY <1>1, <2>1, <2>3, <2>4, <2>5, RoomShape, TaskOnly DEF RunCommand
<1>2. ASSUME Load(k) PROVE TypeInv'
  <2>1. k \in DOMAIN tasks
    BY <1>2 DEF Load, At
  <2>2. room[tasks[k].by].role \in Roles
    BY <2>1, TaskShape, RoomShape DEF Station
  <2>3. PICK s \in {"loaded", "no"} : tasks' = [tasks EXCEPT ![k].stage = s, ![k].seen = room[tasks[k].by].role]
    BY <1>2 DEF Load
  <2> DEFINE next == [tasks[k] EXCEPT !.stage = s, !.seen = room[tasks[k].by].role]
  <2>4. Fits(next)
    BY <2>1, <2>2, TaskShape, NextStage DEF Stages
  <2>5. tasks' = [tasks EXCEPT ![k] = next]
    BY <2>3
  <2> HIDE DEF next
  <2> QED
    BY <1>2, <2>1, <2>4, <2>5, RoomShape, PageShape, TaskOnly DEF Load, TypeInv, TypeOK, PageType
<1> QED
  BY <1>1, <1>2

LEMMA CheckTyped ==
    ASSUME TypeInv, NEW k, ReadState(k) \/ SetCheckedState(k) \/ ReadOut(k) \/ SetOut(k)
    PROVE  TypeInv'
<1>0. k \in DOMAIN tasks
  BY DEF ReadState, SetCheckedState, ReadOut, SetOut, At
<1>1. ASSUME ReadState(k) PROVE TypeInv'
  BY <1>0, <1>1, StageOnly, RoomShape DEF ReadState, Stages
<1>2. ASSUME SetCheckedState(k) PROVE TypeInv'
  <2>1. tasks[k].verb \in CheckVerbs
    BY <1>0, <1>2, TaskShape DEF SetCheckedState, At, Fits
  <2>2. State(tasks[k].verb) \in {"absent", "lurk", "in", "out"}
    BY <2>1 DEF State, CheckVerbs
  <2>3. room' \in [Calls -> Station]
    BY <1>0, <1>2, <2>2, StateSet, TaskShape DEF SetCheckedState
  <2> QED
    BY <1>0, <1>2, <2>1, <2>3, StageOnly, RoomShape DEF SetCheckedState, Stages
<1>3. ASSUME ReadOut(k) PROVE TypeInv'
  <2>1. tasks[k].verb \in CheckVerbs
    BY <1>0, <1>3, TaskShape DEF ReadOut, At, Fits
  <2> QED
    BY <1>0, <1>3, <2>1, StageOnly, RoomShape DEF ReadOut, Stages
<1>4. ASSUME SetOut(k) PROVE TypeInv'
  <2>1. room' \in [Calls -> Station]
    BY <1>0, <1>4, StateSet, TaskShape DEF SetOut
  <2> QED
    BY <1>0, <1>4, <2>1, StageOnly, RoomShape DEF SetOut, Stages
<1> QED
  BY <1>1, <1>2, <1>3, <1>4

LEMMA RoleTyped ==
    ASSUME TypeInv, NEW k, ReadRole(k) \/ SetRole(k) \/ Handoff(k)
    PROVE  TypeInv'
<1>0. k \in DOMAIN tasks
  BY DEF ReadRole, SetRole, Handoff, At
<1>1. ASSUME ReadRole(k) PROVE TypeInv'
  <2>1. PICK s \in {"read", "no"}, r \in Roles : tasks' = [tasks EXCEPT ![k].stage = s, ![k].seen = r]
    <3>1. room[tasks[k].on].role \in Roles /\ tasks[k].seen \in Roles
      BY <1>0, TaskShape, RoomShape DEF Station
    <3> QED
      BY <1>1, <3>1 DEF ReadRole
  <2> DEFINE next == [tasks[k] EXCEPT !.stage = s, !.seen = r]
  <2>2. Fits(next)
    BY <1>0, TaskShape, NextStage DEF Stages
  <2>3. tasks' = [tasks EXCEPT ![k] = next]
    BY <2>1
  <2> HIDE DEF next
  <2> QED
    BY <1>0, <1>1, <2>2, <2>3, RoomShape, TaskOnly DEF ReadRole, TypeInv, TypeOK, PageType
<1>2. ASSUME SetRole(k) PROVE TypeInv'
  <2> DEFINE next == IF tasks[k].seen = Desired(tasks[k].verb) THEN "netuser" ELSE Desired(tasks[k].verb)
  <2>1. next \in Roles
    BY DEF Desired, Roles
  <2>2. \/ Stage(k, "no") /\ UNCHANGED room
        \/ room' = [room EXCEPT ![tasks[k].on].role = next] /\ Stage(k, "ok")
    BY <1>2 DEF SetRole
  <2> HIDE DEF next
  <2>3. room' \in [Calls -> Station]
    BY <1>0, <2>1, <2>2, RoleSet, RoomShape, TaskShape
  <2> QED
    BY <1>0, <1>2, <2>2, <2>3, StageOnly, RoomShape DEF SetRole, Stages
<1>3. ASSUME Handoff(k) PROVE TypeInv'
  <2>1. \/ Stage(k, "no") /\ UNCHANGED room
        \/ /\ room' = [room EXCEPT ![tasks[k].on].role = "netcontrol", ![tasks[k].by].role = "netlogger"]
           /\ Stage(k, "ok")
    BY <1>3 DEF Handoff
  <2>2. room' \in [Calls -> Station]
    <3>1. "netcontrol" \in Roles /\ "netlogger" \in Roles
      BY DEF Roles
    <3>2. tasks[k].on \in Calls /\ tasks[k].by \in Calls
      BY <1>0, TaskShape
    <3>3. [room EXCEPT ![tasks[k].on].role = "netcontrol", ![tasks[k].by].role = "netlogger"] \in [Calls -> Station]
      BY <3>1, <3>2, RolesSet
    <3> QED
      BY <2>1, <3>3, RoomShape
  <2> QED
    BY <1>0, <1>3, <2>1, <2>2, StageOnly, RoomShape DEF Handoff, Stages
<1> QED
  BY <1>1, <1>2, <1>3

LEMMA FailureTyped ==
    ASSUME TypeInv, NEW k, Fails(k) \/ AnswerLost(k)
    PROVE  TypeInv'
<1>0. k \in DOMAIN tasks /\ faults' \in 0..MaxFaults
  BY BoundsAssumption DEF Fails, AnswerLost, At, TypeInv, TypeOK, BoundsAssumption
<1>1. ASSUME Fails(k) PROVE TypeInv'
  <2> DEFINE lost == tasks[k].lost \/ Restores(tasks[k])
  <2> DEFINE next == [tasks[k] EXCEPT !.stage = "no", !.lost = lost]
  <2>1. lost \in BOOLEAN
    OBVIOUS
  <2>2. Fits(next)
    <3> HIDE DEF lost
    <3> QED
      BY <1>0, <2>1, TaskShape, NextStage DEF Stages
  <2>3. tasks' = [tasks EXCEPT ![k] = next]
    BY <1>1 DEF Fails
  <2> HIDE DEF next
  <2> QED
    BY <1>0, <1>1, <2>2, <2>3, RoomShape, TaskOnly DEF Fails, TypeInv, TypeOK, PageType
<1>2. ASSUME AnswerLost(k) PROVE TypeInv'
  <2> DEFINE next == [tasks[k] EXCEPT !.stage = "no", !.lost = TRUE]
  <2>1. Fits(next)
    BY <1>0, TaskShape, NextStage DEF Stages
  <2>2. tasks' = [tasks EXCEPT ![k] = next]
    BY <1>2 DEF AnswerLost
  <2> HIDE DEF next
  <2> QED
    BY <1>0, <1>2, <2>1, <2>2, RoomShape, TaskOnly DEF AnswerLost, TypeInv, TypeOK, PageType
<1> QED
  BY <1>1, <1>2

-----------------------------------------------------------------------------
(* The answer. *)

LEMMA NextCommand ==
    ASSUME NEW t, Fits(t), NEW verb \in Verbs, NEW on \in Calls
    PROVE  Fits(Then(t, verb, on))
<1>1. Then(t, verb, on) \in Task
  BY DEF Fits, Then, Task, Stages
<1> QED
  BY <1>1 DEF Fits, Then, Task

LEMMA CorrectedFits ==
    ASSUME NEW t, Fits(t)
    PROVE  Fits(Corrected(t))
<1> DEFINE add == IF t.was.in = "out" THEN "io" ELSE "i"
<1>1. add \in Verbs /\ "l" \in Verbs /\ "r" \in Verbs /\ t.new \in Calls /\ t.call \in Calls
  BY DEF Verbs, CheckVerbs, Fits, Task
<1>2. Corrected(t) \in {Then(t, add, t.new), Then(t, add, t.call), Then(t, "l", t.new), Then(t, "r", t.new), Done(t)}
  BY DEF Corrected
<1> HIDE DEF add
<1> QED
  BY <1>1, <1>2, NextCommand, DoneFits

LEMMA CheckedInFits ==
    ASSUME TypeInv, NEW t, Fits(t)
    PROVE  Fits(CheckedIn(t))
<1>1. t \in Task /\ t.by \in Managers /\ t.call \in Calls
  BY DEF Fits, Task
<1>2. CASE t.verb = "i" /\ t.stage = "ok" /\ page[t.by].pending[t.call] \notin {None, "netuser"}
  <2>1. page[t.by].pending[t.call] \in Roles
    BY <1>1, <1>2, PageShape DEF PageType
  <2> DEFINE next == [t EXCEPT !.stage = "refresh", !.desired = page[t.by].pending[t.call]]
  <2>2. next \in Task /\ next.stage = "refresh" /\ next.desired \in Roles
    BY <1>1, <2>1 DEF Task, Stages
  <2>3. CheckedIn(t) = next
    BY <1>2 DEF CheckedIn
  <2> HIDE DEF next
  <2> QED
    BY <2>2, <2>3 DEF Fits
<1>3. CASE ~(t.verb = "i" /\ t.stage = "ok" /\ page[t.by].pending[t.call] \notin {None, "netuser"})
  BY <1>3, DoneFits DEF CheckedIn
<1> QED
  BY <1>2, <1>3

LEMMA AnsweredPage ==
    ASSUME TypeInv, NEW k \in DOMAIN tasks
    PROVE  LET t == tasks[k]
               p == page[t.by]
           IN  /\ Shown(p, t) \in [Calls -> Station]
               /\ StillPending(p, t) \in [Calls -> Roles \cup {None}]
               /\ MarkedIo(p, t) \in SUBSET Calls
<1> DEFINE t == tasks[k]
<1> DEFINE p == page[t.by]
<1>1. p \in PageType /\ t.by \in Calls /\ t.on \in Calls /\ t.call \in Calls /\ t.new \in Calls
  BY TaskShape, PageShape
<1>2. Shown(p, t) \in [Calls -> Station]
  BY <1>1 DEF Shown, PageType, Station, Roles
<1>3. StillPending(p, t) \in [Calls -> Roles \cup {None}]
  <2>1. p.pending \in [Calls -> Roles \cup {None}]
    BY <1>1 DEF PageType
  <2>2. StillPending(p, t) \in {[p.pending EXCEPT ![t.call] = None],
                               [p.pending EXCEPT ![t.new] = p.pending[t.call], ![t.call] = None], p.pending}
    BY DEF StillPending
  <2> QED
    BY <1>1, <2>1, <2>2
<1>4. MarkedIo(p, t) \in SUBSET Calls
  BY <1>1 DEF MarkedIo, PageType
<1> QED
  BY <1>2, <1>3, <1>4

LEMMA AnswerTyped ==
    ASSUME TypeInv, NEW k, Answered(k) \/ ApplyPendingRole(k)
    PROVE  TypeInv'
<1> DEFINE t == tasks[k]
<1>0. k \in DOMAIN tasks
  BY DEF Answered, ApplyPendingRole, At
<1>1. Fits(t) /\ t.by \in Managers /\ t.call \in Calls /\ t.on \in Calls
  BY <1>0, TaskShape
<1>2. ASSUME Answered(k) PROVE TypeInv'
  <2> DEFINE next == [Continued(t) EXCEPT !.held = FALSE]
  <2>1. Fits(Continued(t))
    BY <1>1, CorrectedFits, CheckedInFits, DoneFits DEF Continued
  <2>2. Fits(next)
    BY <2>1 DEF Fits, Task
  <2>3. tasks' = [tasks EXCEPT ![k] = next]
    BY <1>2 DEF Answered
  <2> DEFINE own == [view |-> Shown(page[t.by], t), pending |-> StillPending(page[t.by], t), io |-> MarkedIo(page[t.by], t),
                     busy |-> IF t.held THEN page[t.by].busy \ {t.on} ELSE page[t.by].busy]
  <2>4. own \in PageType
    BY <1>0, <1>1, AnsweredPage, PageShape DEF PageType
  <2>5. page' = [page EXCEPT ![t.by] = own]
    BY <1>2 DEF Answered
  <2>6. page' \in [Managers -> PageType]
    <3> HIDE DEF own
    <3> QED
      BY <1>1, <2>4, <2>5, PageShape
  <2> HIDE DEF next, own
  <2> QED
    BY <1>0, <1>2, <2>2, <2>3, <2>6, RoomShape, TaskOnly DEF Answered
<1>3. ASSUME ApplyPendingRole(k) PROVE TypeInv'
  <2> DEFINE verb == RoleVerb(t.by, t.call, t.desired)
  <2>1. t.desired \in Roles
    BY <1>0, <1>1, <1>3 DEF ApplyPendingRole, At, Fits
  <2>2. verb \in Verbs \cup {None}
    BY <1>1, <2>1, RoleVerbs
  <2> DEFINE command == [Then(t, verb, t.call) EXCEPT !.kind = "role"]
  <2>3. PICK next : /\ tasks' = [tasks EXCEPT ![k] = next]
                    /\ (next = command /\ verb # None) \/ next = Done(t)
    BY <1>3 DEF ApplyPendingRole
  <2>4. ASSUME verb \in Verbs PROVE Fits(command)
    <3>1. Fits(Then(t, verb, t.call))
      BY <1>1, <2>4, NextCommand
    <3> QED
      BY <3>1 DEF Fits, Task
  <2>5. Fits(next)
    BY <1>1, <2>2, <2>3, <2>4, DoneFits
  <2> HIDE DEF command, verb
  <2> QED
    BY <1>0, <1>3, <2>3, <2>5, RoomShape, PageShape, TaskOnly DEF ApplyPendingRole, TypeInv, TypeOK, PageType
<1> QED
  BY <1>2, <1>3

LEMMA TypeKept == TypeInv /\ [Next]_vars => TypeInv'
<1> SUFFICES ASSUME TypeInv, [Next]_vars PROVE TypeInv'
  OBVIOUS
<1>1. ASSUME NEW m \in Managers,
             Correct(m) \/ CheckIn(m) \/ CheckOut(m) \/ MarkInOut(m) \/ ChangeRole(m) \/ Refresh(m)
      PROVE  TypeInv'
  BY <1>1, PageStepTyped
<1>2. ASSUME NEW k \in 1..MaxTasks, Step(k) PROVE TypeInv'
  BY <1>2, RequestTyped, CheckTyped, RoleTyped, AnswerTyped DEF Step
<1>3. ASSUME NEW k \in 1..MaxTasks, Fails(k) \/ AnswerLost(k) PROVE TypeInv'
  BY <1>3, FailureTyped
<1>4. CASE UNCHANGED vars
  BY <1>4 DEF vars, TypeInv, TypeOK, StagesFit
<1> QED
  BY <1>1, <1>2, <1>3, <1>4 DEF Next

\* Every reachable state is well typed.
THEOREM TypeCorrect == Spec => []TypeOK
<1>1. TypeInv => TypeOK
  BY DEF TypeInv
<1> QED
  BY TypeStart, TypeKept, <1>1, PTL DEF Spec

-----------------------------------------------------------------------------
(* Net control. *)

OnlyOne == \A c, d \in Calls : room[c].role = "netcontrol" /\ room[d].role = "netcontrol" => c = d

LEMMA OnlyOneStart == Init => OnlyOne
<1> SUFFICES ASSUME Init, NEW c \in Calls, room[c].role = "netcontrol" PROVE c = Nco
  BY DEF OnlyOne
<1>1. ASSUME c \in Managers \ {Nco} PROVE FALSE
  BY <1>1 DEF Init
<1>2. ASSUME c \in Others PROVE FALSE
  BY <1>2 DEF Init
<1> QED
  BY <1>1, <1>2 DEF Calls

\* Commands on check-states leave the roles alone, the others give the role of net control to nobody, and the handoff
\* to one in the place of another, both read in its transaction.
LEMMA OnlyOneKept == TypeInv /\ OnlyOne /\ [Next]_vars => OnlyOne'
<1> SUFFICES ASSUME TypeInv, OnlyOne, [Next]_vars PROVE OnlyOne'
  OBVIOUS
<1>1. ASSUME UNCHANGED room PROVE OnlyOne'
  BY <1>1 DEF OnlyOne
<1>2. ASSUME NEW k, SetCheckedState(k) \/ SetOut(k) PROVE OnlyOne'
  <2>1. \A c \in Calls : room'[c].role = room[c].role
    BY <1>2, RoomShape DEF SetCheckedState, SetOut, Station
  <2> QED
    BY <2>1 DEF OnlyOne
<1>3. ASSUME NEW k, SetRole(k) PROVE OnlyOne'
  <2> DEFINE next == IF tasks[k].seen = Desired(tasks[k].verb) THEN "netuser" ELSE Desired(tasks[k].verb)
  <2>1. next # "netcontrol"
    BY DEF Desired
  <2>2. UNCHANGED room \/ room' = [room EXCEPT ![tasks[k].on].role = next]
    BY <1>3 DEF SetRole
  <2> HIDE DEF next
  <2>3. \A c \in Calls : room'[c].role = "netcontrol" => room[c].role = "netcontrol"
    BY <2>1, <2>2, RoomShape DEF Station
  <2> QED
    BY <2>3 DEF OnlyOne
<1>4. ASSUME NEW k, Handoff(k) PROVE OnlyOne'
  <2>1. CASE UNCHANGED room
    BY <1>1, <2>1
  <2>2. CASE /\ room[tasks[k].by] = [in |-> "in", role |-> "netcontrol"] /\ tasks[k].on # tasks[k].by
             /\ room' = [room EXCEPT ![tasks[k].on].role = "netcontrol", ![tasks[k].by].role = "netlogger"]
    <3>1. tasks[k].on \in Calls /\ tasks[k].by \in Calls
      BY <1>4, TaskShape DEF Handoff, At
    <3>2. \A c \in Calls : room[c].role = "netcontrol" => c = tasks[k].by
      BY <2>2, <3>1 DEF OnlyOne
    <3>3. \A c \in Calls : room'[c].role = "netcontrol" => c = tasks[k].on
      <4>1. room'[tasks[k].by].role = "netlogger"
        BY <2>2, <3>1, RoomShape DEF Station
      <4>2. \A c \in Calls \ {tasks[k].by, tasks[k].on} : room'[c] = room[c]
        BY <2>2, <3>1, RoomShape
      <4> QED
        BY <3>2, <4>1, <4>2
    <3> QED
      BY <3>3 DEF OnlyOne
  <2> QED
    BY <1>4, <2>1, <2>2 DEF Handoff
<1>5. ASSUME NEW m \in Managers,
             Correct(m) \/ CheckIn(m) \/ CheckOut(m) \/ MarkInOut(m) \/ ChangeRole(m) \/ Refresh(m)
      PROVE  UNCHANGED room
  BY <1>5 DEF Correct, CheckIn, CheckOut, MarkInOut, ChangeRole, Refresh, Click, PageClick
<1>6. ASSUME NEW k, RunCommand(k) \/ Load(k) \/ ReadState(k) \/ ReadOut(k) \/ ReadRole(k) \/ Answered(k)
                    \/ ApplyPendingRole(k) \/ Fails(k) \/ AnswerLost(k)
      PROVE  UNCHANGED room
  BY <1>6 DEF RunCommand, Load, ReadState, ReadOut, ReadRole, Answered, ApplyPendingRole, Fails, AnswerLost
<1>7. CASE UNCHANGED vars
  BY <1>1, <1>7 DEF vars
<1> QED
  BY <1>1, <1>2, <1>3, <1>4, <1>5, <1>6, <1>7 DEF Next, Step

\* Whatever commands, corrections and handoffs are under way together, and however they fail, no two stations are net
\* control (handoffNetControl reads both stations in its transaction).
THEOREM OneNetControl == Spec => []OneNco
<1>1. OnlyOne => OneNco
  <2> SUFFICES ASSUME OnlyOne PROVE OneNco
    OBVIOUS
  <2> DEFINE S == {c \in Calls : room[c].role = "netcontrol"}
  <2>1. CASE S = {}
    BY <2>1, FS_EmptySet DEF OneNco
  <2>2. CASE S # {}
    <3>1. PICK c \in S : S = {c}
      BY <2>2 DEF OnlyOne
    <3> HIDE DEF S
    <3>2. Cardinality(S) = 1
      BY <3>1, FS_Singleton
    <3> QED
      BY <3>2 DEF OneNco, S
  <2> QED
    BY <2>1, <2>2
<1> QED
  BY TypeStart, TypeKept, OnlyOneStart, OnlyOneKept, <1>1, PTL DEF Spec

-----------------------------------------------------------------------------
(* The key of a station on a page. *)

\* A key that is taken has its command, a check-state one that has not been answered; no two commands hold the same one.
BusyHeld ==
    /\ \A k \in DOMAIN tasks : tasks[k].held =>
           /\ tasks[k].on \in page[tasks[k].by].busy
           /\ tasks[k].stage \in {"sent", "loaded", "checked", "half", "rechecked", "ok", "no"}
           /\ tasks[k].verb \in CheckVerbs
    /\ \A m \in Managers : \A c \in page[m].busy :
           \E k \in DOMAIN tasks : tasks[k].held /\ tasks[k].by = m /\ tasks[k].on = c
    /\ \A j, k \in DOMAIN tasks :
           tasks[j].held /\ tasks[k].held /\ tasks[j].by = tasks[k].by /\ tasks[j].on = tasks[k].on => j = k

\* What a command is at moves on: the station it is about, and who gave it, stay.
MovesOn(k) ==
    /\ k \in DOMAIN tasks /\ DOMAIN tasks' = DOMAIN tasks
    /\ \A j \in DOMAIN tasks \ {k} : tasks'[j] = tasks[j]
    /\ tasks'[k].by = tasks[k].by

\* The stages at which a key may be held.
HoldStages == {"sent", "loaded", "checked", "half", "rechecked", "ok", "no"}

LEMMA BusyHeldStart == Init => BusyHeld
  BY DEF Init, BusyHeld

\* A click takes no key.
LEMMA BusyHeldByClick ==
    ASSUME TypeInv, BusyHeld, NEW t, ~t.held, tasks' = Append(tasks, t),
           \A m \in Managers : page'[m].busy = page[m].busy
    PROVE  BusyHeld'
<1>1. tasks \in Seq(Task)
  BY DEF TypeInv, TypeOK
<1>2. /\ DOMAIN tasks \subseteq DOMAIN tasks'
      /\ \A j \in DOMAIN tasks : tasks'[j] = tasks[j]
      /\ \A j \in DOMAIN tasks' \ DOMAIN tasks : ~tasks'[j].held
  BY <1>1
<1>3. \A j \in DOMAIN tasks' : tasks'[j].held => j \in DOMAIN tasks /\ tasks'[j] = tasks[j]
  BY <1>2
<1>4. \A k \in DOMAIN tasks' : tasks'[k].held =>
          tasks'[k].on \in page'[tasks'[k].by].busy /\ tasks'[k].stage \in HoldStages /\ tasks'[k].verb \in CheckVerbs
  BY <1>3, TaskShape DEF BusyHeld, HoldStages
<1>5. \A m \in Managers : \A c \in page'[m].busy :
          \E k \in DOMAIN tasks' : tasks'[k].held /\ tasks'[k].by = m /\ tasks'[k].on = c
  BY <1>2 DEF BusyHeld
<1>6. \A j, k \in DOMAIN tasks' :
          tasks'[j].held /\ tasks'[k].held /\ tasks'[j].by = tasks'[k].by /\ tasks'[j].on = tasks'[k].on => j = k
  BY <1>3 DEF BusyHeld
<1> QED
  BY <1>4, <1>5, <1>6 DEF BusyHeld, HoldStages

\* A step that leaves the keys alone, and a command that holds one among its stages.
LEMMA BusyHeldBetween ==
    ASSUME TypeInv, BusyHeld, NEW k, MovesOn(k), tasks'[k].held = tasks[k].held,
           tasks[k].held => /\ tasks'[k].on = tasks[k].on /\ tasks'[k].verb = tasks[k].verb
                            /\ tasks'[k].stage \in HoldStages,
           \A m \in Managers : page'[m].busy = page[m].busy
    PROVE  BusyHeld'
<1>1. \A j \in DOMAIN tasks' : tasks'[j].held =>
          /\ j \in DOMAIN tasks /\ tasks[j].held
          /\ tasks'[j].by = tasks[j].by /\ tasks'[j].on = tasks[j].on /\ tasks'[j].verb = tasks[j].verb
          /\ tasks'[j].stage \in HoldStages
  BY DEF MovesOn, BusyHeld, HoldStages
<1>2. \A k1 \in DOMAIN tasks' : tasks'[k1].held =>
          tasks'[k1].on \in page'[tasks'[k1].by].busy /\ tasks'[k1].stage \in HoldStages /\ tasks'[k1].verb \in CheckVerbs
  BY <1>1, TaskShape DEF BusyHeld, HoldStages
<1>3. \A m \in Managers : \A c \in page'[m].busy :
          \E k1 \in DOMAIN tasks' : tasks'[k1].held /\ tasks'[k1].by = m /\ tasks'[k1].on = c
  BY DEF BusyHeld, MovesOn
<1>4. \A j, k1 \in DOMAIN tasks' :
          tasks'[j].held /\ tasks'[k1].held /\ tasks'[j].by = tasks'[k1].by /\ tasks'[j].on = tasks'[k1].on => j = k1
  BY <1>1 DEF BusyHeld
<1> QED
  BY <1>2, <1>3, <1>4 DEF BusyHeld, HoldStages

\* A command takes the key that no other has.
LEMMA BusyHeldTaken ==
    ASSUME TypeInv, BusyHeld, NEW k, RunCommand(k)
    PROVE  BusyHeld'
<1> DEFINE t == tasks[k]
<1> DEFINE holds == ~Refused(t) /\ t.verb \in CheckVerbs
<1>1. k \in DOMAIN tasks /\ t.stage = "ask" /\ t.by \in Managers /\ t.on \in Calls /\ t \in Task /\ tasks \in Seq(Task)
  BY TaskShape DEF RunCommand, At, Fits, TypeInv, TypeOK
<1>2. ~t.held
  BY <1>1 DEF BusyHeld
<1>3. /\ tasks' = [tasks EXCEPT ![k].stage = IF Refused(t) THEN "no" ELSE "sent", ![k].held = holds]
      /\ page' = [page EXCEPT ![t.by].busy = IF holds THEN @ \cup {t.on} ELSE @]
  BY DEF RunCommand
<1>4. /\ MovesOn(k) /\ tasks'[k].held = holds /\ tasks'[k].on = t.on
      /\ tasks'[k].stage = (IF Refused(t) THEN "no" ELSE "sent") /\ tasks'[k].verb = t.verb
  <2> HIDE DEF holds
  <2> QED
    BY <1>1, <1>3 DEF MovesOn, Task
<1>5. CASE ~holds
  <2>1. \A m \in Managers : page'[m].busy = page[m].busy
    BY <1>3, <1>5, PageShape DEF PageType
  <2>2. tasks'[k].held = tasks[k].held
    <3>1. t.held \in BOOLEAN
      BY <1>1 DEF Task
    <3> QED
      BY <1>2, <1>4, <1>5, <3>1
  <2> HIDE DEF holds
  <2> QED
    BY <1>2, <1>4, <2>1, <2>2, BusyHeldBetween
<1>6. CASE holds
  <2>1. t.on \notin page[t.by].busy
    BY <1>6 DEF Refused
  <2>2. /\ page'[t.by].busy = page[t.by].busy \cup {t.on}
        /\ \A m \in Managers \ {t.by} : page'[m].busy = page[m].busy
    <3> HIDE DEF holds
    <3> QED
      BY <1>1, <1>3, <1>6, PageShape DEF PageType
  <2>3. tasks'[k].stage = "sent" /\ tasks'[k].verb \in CheckVerbs
    BY <1>4, <1>6
  <2> HIDE DEF holds
  <2>4. \A j \in DOMAIN tasks' : tasks'[j].held /\ j # k =>
            j \in DOMAIN tasks /\ tasks'[j] = tasks[j] /\ ~(tasks[j].by = t.by /\ tasks[j].on = t.on)
    BY <1>4, <2>1 DEF BusyHeld, MovesOn
  <2>5. \A j \in DOMAIN tasks' : tasks'[j].held =>
            tasks'[j].on \in page'[tasks'[j].by].busy /\ tasks'[j].stage \in HoldStages /\ tasks'[j].verb \in CheckVerbs
    <3>1. tasks'[k].on \in page'[tasks'[k].by].busy
      BY <1>1, <1>4, <2>2 DEF MovesOn
    <3>2. \A j \in DOMAIN tasks' : tasks'[j].held /\ j # k =>
              tasks[j].on \in page[tasks[j].by].busy /\ tasks[j].stage \in HoldStages /\ tasks[j].verb \in CheckVerbs
              /\ tasks[j].by \in Managers
      BY <2>4, TaskShape DEF BusyHeld, HoldStages
    <3> QED
      BY <2>2, <2>3, <2>4, <3>1, <3>2 DEF HoldStages
  <2>6. \A m \in Managers : \A c \in page'[m].busy :
            \E j \in DOMAIN tasks' : tasks'[j].held /\ tasks'[j].by = m /\ tasks'[j].on = c
    <3> SUFFICES ASSUME NEW m \in Managers, NEW c \in page'[m].busy
                 PROVE  \E j \in DOMAIN tasks' : tasks'[j].held /\ tasks'[j].by = m /\ tasks'[j].on = c
      OBVIOUS
    <3>1. CASE m = t.by /\ c = t.on
      BY <1>1, <1>4, <1>6, <3>1 DEF MovesOn
    <3>2. CASE ~(m = t.by /\ c = t.on)
      <4>1. c \in page[m].busy
        BY <2>2, <3>2
      <4>2. PICK j \in DOMAIN tasks : tasks[j].held /\ tasks[j].by = m /\ tasks[j].on = c
        BY <4>1 DEF BusyHeld
      <4> QED
        BY <1>2, <1>4, <4>2 DEF MovesOn
    <3> QED
      BY <3>1, <3>2
  <2>7. \A i, j \in DOMAIN tasks' :
            tasks'[i].held /\ tasks'[j].held /\ tasks'[i].by = tasks'[j].by /\ tasks'[i].on = tasks'[j].on => i = j
    <3> SUFFICES ASSUME NEW i \in DOMAIN tasks', NEW j \in DOMAIN tasks', tasks'[i].held, tasks'[j].held,
                        tasks'[i].by = tasks'[j].by, tasks'[i].on = tasks'[j].on
                 PROVE  i = j
      OBVIOUS
    <3>1. CASE i # k /\ j # k
      BY <2>4, <3>1 DEF BusyHeld
    <3>2. CASE i = k \/ j = k
      BY <1>4, <2>4, <3>2 DEF MovesOn
    <3> QED
      BY <3>1, <3>2
  <2> QED
    BY <2>5, <2>6, <2>7 DEF BusyHeld, HoldStages
<1> QED
  BY <1>5, <1>6

\* Its answer gives it back.
LEMMA BusyHeldGiven ==
    ASSUME TypeInv, BusyHeld, NEW k, Answered(k)
    PROVE  BusyHeld'
<1> DEFINE t == tasks[k]
<1>1. k \in DOMAIN tasks /\ t.by \in Managers /\ t.on \in Calls /\ Fits(t) /\ t \in Task /\ tasks \in Seq(Task)
  BY TaskShape DEF Answered, At, Fits, TypeInv, TypeOK
<1> DEFINE next == [Continued(t) EXCEPT !.held = FALSE]
<1>2. Continued(t) \in Task
  BY <1>1, CorrectedFits, CheckedInFits, DoneFits DEF Continued, Fits
<1>3. Continued(t).by = t.by
  BY <1>1 DEF Continued, Corrected, CheckedIn, Then, Done, Task
<1>4. next.by = t.by /\ ~next.held
  <2> HIDE DEF t
  <2> QED
    BY <1>2, <1>3 DEF Task
<1>5. tasks' = [tasks EXCEPT ![k] = next]
  BY DEF Answered
<1> HIDE DEF next
<1>6. MovesOn(k) /\ ~tasks'[k].held
  BY <1>1, <1>4, <1>5 DEF MovesOn
<1>7. /\ page'[t.by].busy = IF t.held THEN page[t.by].busy \ {t.on} ELSE page[t.by].busy
      /\ \A m \in Managers \ {t.by} : page'[m] = page[m]
  BY <1>1, PageShape DEF Answered
<1>8. \A j \in DOMAIN tasks' : tasks'[j].held =>
          /\ j \in DOMAIN tasks /\ j # k /\ tasks'[j] = tasks[j]
          /\ t.held => ~(tasks[j].by = t.by /\ tasks[j].on = t.on)
  BY <1>1, <1>6 DEF BusyHeld, MovesOn
<1>9. \A j \in DOMAIN tasks' : tasks'[j].held =>
          tasks'[j].on \in page'[tasks'[j].by].busy /\ tasks'[j].stage \in HoldStages /\ tasks'[j].verb \in CheckVerbs
  <2>1. \A j \in DOMAIN tasks : tasks[j].held =>
            tasks[j].on \in page[tasks[j].by].busy /\ tasks[j].stage \in HoldStages /\ tasks[j].verb \in CheckVerbs
              /\ tasks[j].by \in Managers
    BY TaskShape DEF BusyHeld, HoldStages
  <2> QED
    BY <1>7, <1>8, <2>1
<1>10. \A m \in Managers : \A c \in page'[m].busy :
          \E j \in DOMAIN tasks' : tasks'[j].held /\ tasks'[j].by = m /\ tasks'[j].on = c
  <2> SUFFICES ASSUME NEW m \in Managers, NEW c \in page'[m].busy
               PROVE  \E j \in DOMAIN tasks' : tasks'[j].held /\ tasks'[j].by = m /\ tasks'[j].on = c
    OBVIOUS
  <2>1. c \in page[m].busy /\ (t.held => ~(m = t.by /\ c = t.on))
    BY <1>7
  <2>2. PICK j \in DOMAIN tasks : tasks[j].held /\ tasks[j].by = m /\ tasks[j].on = c
    BY <2>1 DEF BusyHeld
  <2> QED
    BY <1>6, <2>1, <2>2 DEF MovesOn
<1>11. \A i, j \in DOMAIN tasks' :
          tasks'[i].held /\ tasks'[j].held /\ tasks'[i].by = tasks'[j].by /\ tasks'[i].on = tasks'[j].on => i = j
  BY <1>8 DEF BusyHeld
<1> QED
  BY <1>9, <1>10, <1>11 DEF BusyHeld, HoldStages

\* A step that only says how far the command has come, and what it has read.
LEMMA BusyHeldFurther ==
    ASSUME TypeInv, BusyHeld, NEW k \in DOMAIN tasks, NEW u, tasks' = [tasks EXCEPT ![k] = u],
           u.by = tasks[k].by, u.held = tasks[k].held, u.on = tasks[k].on, u.verb = tasks[k].verb,
           tasks[k].held => u.stage \in HoldStages,
           UNCHANGED page
    PROVE  BusyHeld'
<1>1. tasks[k] \in Task /\ tasks \in Seq(Task)
  BY DEF TypeInv, TypeOK
<1>2. MovesOn(k) /\ tasks'[k] = u
  BY <1>1 DEF MovesOn
<1> QED
  BY <1>2, BusyHeldBetween

LEMMA BusyHeldStage ==
    ASSUME TypeInv, BusyHeld, NEW k \in DOMAIN tasks, NEW s \in HoldStages, Stage(k, s), UNCHANGED page
    PROVE  BusyHeld'
<1> DEFINE u == [tasks[k] EXCEPT !.stage = s]
<1>1. tasks[k] \in Task
  BY DEF TypeInv, TypeOK
<1>2. u.by = tasks[k].by /\ u.held = tasks[k].held /\ u.on = tasks[k].on /\ u.verb = tasks[k].verb /\ u.stage = s
  BY <1>1 DEF Task
<1>3. tasks' = [tasks EXCEPT ![k] = u]
  BY DEF Stage
<1> HIDE DEF u
<1> QED
  BY <1>2, <1>3, BusyHeldFurther

\* The other steps of a command.
LEMMA BusyHeldKept ==
    ASSUME TypeInv, BusyHeld, NEW k, Step(k) \/ Fails(k) \/ AnswerLost(k)
    PROVE  BusyHeld'
<1>0. k \in DOMAIN tasks /\ tasks[k] \in Task /\ tasks \in Seq(Task)
  BY TaskShape DEF Step, RunCommand, Load, ReadState, SetCheckedState, ReadOut, SetOut, ReadRole, SetRole, Handoff,
                   Answered, ApplyPendingRole, Fails, AnswerLost, At, Fits, TypeInv, TypeOK
<1>1. ASSUME ReadState(k) \/ SetCheckedState(k) \/ ReadOut(k) \/ SetOut(k) \/ SetRole(k) \/ Handoff(k)
      PROVE  BusyHeld'
  <2>1. UNCHANGED page
    BY <1>1 DEF ReadState, SetCheckedState, ReadOut, SetOut, SetRole, Handoff
  <2>2. PICK s \in HoldStages : Stage(k, s)
    BY <1>1 DEF ReadState, SetCheckedState, ReadOut, SetOut, SetRole, Handoff, HoldStages
  <2> QED
    BY <1>0, <2>1, <2>2, BusyHeldStage
<1>2. ASSUME Load(k) PROVE BusyHeld'
  <2>1. PICK s, r : /\ s \in HoldStages /\ UNCHANGED page
                    /\ tasks' = [tasks EXCEPT ![k].stage = s, ![k].seen = r]
    BY <1>2 DEF Load, HoldStages
  <2> DEFINE u == [tasks[k] EXCEPT !.stage = s, !.seen = r]
  <2>2. u.by = tasks[k].by /\ u.held = tasks[k].held /\ u.on = tasks[k].on /\ u.verb = tasks[k].verb /\ u.stage = s
    BY <1>0 DEF Task
  <2>3. tasks' = [tasks EXCEPT ![k] = u]
    BY <2>1
  <2> HIDE DEF u
  <2> QED
    BY <1>0, <2>1, <2>2, <2>3, BusyHeldFurther
<1>3. ASSUME ReadRole(k) PROVE BusyHeld'
  <2>1. PICK s, r : tasks' = [tasks EXCEPT ![k].stage = s, ![k].seen = r] /\ UNCHANGED page
    BY <1>3 DEF ReadRole
  <2> DEFINE u == [tasks[k] EXCEPT !.stage = s, !.seen = r]
  <2>2. u.by = tasks[k].by /\ u.held = tasks[k].held /\ u.on = tasks[k].on /\ u.verb = tasks[k].verb /\ u.stage = s
    BY <1>0 DEF Task
  <2>3. tasks' = [tasks EXCEPT ![k] = u]
    BY <2>1
  <2>4. ~tasks[k].held
    BY <1>0, <1>3 DEF ReadRole, BusyHeld, CheckVerbs
  <2> HIDE DEF u
  <2> QED
    BY <1>0, <2>1, <2>2, <2>3, <2>4, BusyHeldFurther
<1>4. ASSUME Fails(k) \/ AnswerLost(k) PROVE BusyHeld'
  <2>1. PICK l : tasks' = [tasks EXCEPT ![k].stage = "no", ![k].lost = l] /\ UNCHANGED page
    BY <1>4 DEF Fails, AnswerLost
  <2> DEFINE u == [tasks[k] EXCEPT !.stage = "no", !.lost = l]
  <2>2. u.by = tasks[k].by /\ u.held = tasks[k].held /\ u.on = tasks[k].on /\ u.verb = tasks[k].verb /\ u.stage = "no"
    BY <1>0 DEF Task
  <2>3. tasks' = [tasks EXCEPT ![k] = u]
    BY <2>1
  <2> HIDE DEF u
  <2> QED
    BY <1>0, <2>1, <2>2, <2>3, BusyHeldFurther DEF HoldStages
<1>5. ASSUME ApplyPendingRole(k) PROVE BusyHeld'
  <2>1. ~tasks[k].held
    BY <1>0, <1>5 DEF ApplyPendingRole, At, BusyHeld
  <2>2. PICK u : /\ tasks' = [tasks EXCEPT ![k] = u] /\ UNCHANGED page
                 /\ \/ u = Done(tasks[k])
                    \/ \E verb \in Verbs \cup {None}, on \in Calls : u = [Then(tasks[k], verb, on) EXCEPT !.kind = "role"]
    BY <1>0, <1>5, TaskShape, RoleVerbs DEF ApplyPendingRole, At, Fits
  <2>3. u.by = tasks[k].by /\ u.held = tasks[k].held
    BY <1>0, <2>2 DEF Then, Done, Task
  <2>4. MovesOn(k) /\ tasks'[k] = u
    BY <1>0, <2>2, <2>3 DEF MovesOn
  <2> QED
    BY <2>1, <2>2, <2>3, <2>4, BusyHeldBetween
<1> QED
  BY <1>1, <1>2, <1>3, <1>4, <1>5, BusyHeldTaken, BusyHeldGiven DEF Step

LEMMA BusyHeldAlways == TypeInv /\ BusyHeld /\ [Next]_vars => BusyHeld'
<1> SUFFICES ASSUME TypeInv, BusyHeld, [Next]_vars PROVE BusyHeld'
  OBVIOUS
<1>1. ASSUME NEW m \in Managers, Correct(m) \/ CheckIn(m) \/ CheckOut(m) \/ MarkInOut(m) \/ ChangeRole(m)
      PROVE  BusyHeld'
  <2>1. \A kind, call, new, verb, on : ~Started(m, kind, call, new, verb, on).held
        /\ ~Done(Started(m, kind, call, new, verb, on)).held
    BY DEF Started, Done
  <2>2. CASE \E t : ~t.held /\ Click(t)
    <3>1. PICK t : ~t.held /\ Click(t)
      BY <2>2
    <3> QED
      BY <3>1, BusyHeldByClick DEF Click
  <2>3. CASE \E call \in Calls, p \in PageType : PageClick(m, call, p) /\ p.busy = page[m].busy
    <3>1. PICK call \in Calls, p \in PageType : PageClick(m, call, p) /\ p.busy = page[m].busy
      BY <2>3
    <3>2. \A n \in Managers : page'[n].busy = page[n].busy
      BY <3>1, PageShape DEF PageClick
    <3> QED
      BY <2>1, <3>1, <3>2, BusyHeldByClick DEF PageClick
  <2>4. \A call \in Calls, io \in SUBSET Calls :
            [page[m] EXCEPT !.io = io] \in PageType /\ [page[m] EXCEPT !.io = io].busy = page[m].busy
    BY PageShape DEF PageType
  <2>5. \A pending \in [Calls -> Roles \cup {None}] :
            [page[m] EXCEPT !.pending = pending] \in PageType /\ [page[m] EXCEPT !.pending = pending].busy = page[m].busy
    BY PageShape DEF PageType
  <2>6. ASSUME MarkInOut(m) PROVE BusyHeld'
    <3>1. PICK call \in Calls :
              \/ Click(Started(m, "check", call, call, "io", call))
              \/ PageClick(m, call, [page[m] EXCEPT !.io = IF call \in @ THEN @ \ {call} ELSE @ \cup {call}])
      BY <2>6 DEF MarkInOut
    <3> DEFINE io == IF call \in page[m].io THEN page[m].io \ {call} ELSE page[m].io \cup {call}
    <3>2. io \in SUBSET Calls
      BY PageShape DEF PageType
    <3>3. CASE PageClick(m, call, [page[m] EXCEPT !.io = io])
      <4> HIDE DEF io
      <4> QED
        BY <2>3, <2>4, <3>2, <3>3
    <3>4. CASE Click(Started(m, "check", call, call, "io", call))
      BY <2>1, <2>2, <3>4
    <3> QED
      BY <3>1, <3>3, <3>4
  <2>7. ASSUME ChangeRole(m) PROVE BusyHeld'
    <3>1. PICK call \in Calls, desired \in Roles :
              \/ Click(Started(m, "role", call, call, RoleVerb(m, call, desired), call))
              \/ PageClick(m, call, [page[m] EXCEPT !.pending[call] = desired])
      BY <2>7 DEF ChangeRole
    <3> DEFINE pending == [page[m].pending EXCEPT ![call] = desired]
    <3>2. pending \in [Calls -> Roles \cup {None}]
      BY PageShape DEF PageType
    <3>3. CASE PageClick(m, call, [page[m] EXCEPT !.pending = pending])
      <4> HIDE DEF pending
      <4> QED
        BY <2>3, <2>5, <3>2, <3>3
    <3>4. CASE Click(Started(m, "role", call, call, RoleVerb(m, call, desired), call))
      BY <2>1, <2>2, <3>4
    <3> QED
      BY <3>1, <3>3, <3>4
  <2>8. ASSUME Correct(m) \/ CheckIn(m) \/ CheckOut(m) PROVE BusyHeld'
    BY <2>1, <2>2, <2>8 DEF Correct, CheckIn, CheckOut
  <2> QED
    BY <1>1, <2>6, <2>7, <2>8
<1>2. ASSUME NEW m \in Managers, Refresh(m) PROVE BusyHeld'
  <2>1. \A n \in Managers : page'[n].busy = page[n].busy
    BY <1>2, PageShape DEF Refresh, PageType
  <2> QED
    BY <1>2, <2>1, TaskShape DEF Refresh, BusyHeld
<1>3. CASE UNCHANGED vars
  BY <1>3 DEF vars, BusyHeld
<1> QED
  BY <1>1, <1>2, <1>3, BusyHeldKept DEF Next

LEMMA HoldersCounted == TypeInv /\ BusyHeld => OneAtATime
<1> SUFFICES ASSUME TypeInv, BusyHeld, NEW m \in Managers, NEW c \in Calls
             PROVE  Cardinality({k \in DOMAIN tasks : tasks[k].by = m /\ tasks[k].on = c /\ tasks[k].held})
                        = (IF c \in page[m].busy THEN 1 ELSE 0)
  BY DEF OneAtATime
<1> DEFINE holders == {k \in DOMAIN tasks : tasks[k].by = m /\ tasks[k].on = c /\ tasks[k].held}
<1>1. CASE c \in page[m].busy
  <2>1. PICK k \in DOMAIN tasks : tasks[k].held /\ tasks[k].by = m /\ tasks[k].on = c
    BY <1>1 DEF BusyHeld
  <2>2. holders = {k}
    BY <2>1 DEF BusyHeld
  <2> QED
    BY <1>1, <2>2, FS_Singleton
<1>2. CASE c \notin page[m].busy
  <2>1. holders = {}
    BY <1>2 DEF BusyHeld
  <2> QED
    BY <1>2, <2>1, FS_EmptySet
<1> QED
  BY <1>1, <1>2

\* However many clicks an operator makes before the first is answered, and whatever fails, a page has one check-state
\* command under way for a station at a time, and a key that is taken is given back by its command
\* (ExclusiveKeyedOperation in runCommand).
THEOREM OneCommandAtATime == Spec => []OneAtATime
  BY TypeStart, TypeKept, BusyHeldStart, BusyHeldAlways, HoldersCounted, PTL DEF Spec

-----------------------------------------------------------------------------
(* Corrections of a callsign. *)

\* A command is about a station of its click.
OnFits == \A k \in DOMAIN tasks : tasks[k].on \in {tasks[k].call, tasks[k].new}

\* What no click has been about every page shows as it is; a manager whom nobody touched is checked in.
Untouched(c) == \A k \in DOMAIN tasks : ~Touches(tasks[k], c)
Fresh ==
    \A c \in Calls : Untouched(c) =>
        /\ \A m \in Managers : page[m].view[c] = room[c]
        /\ c \in Managers => room[c].in = "in"

\* The one who corrects, where nobody else is at work: still allowed to, and ranked above the station.
Standing(t) ==
    /\ t.by # t.call /\ t.by # t.new /\ t.call # t.new
    /\ room[t.by].in = "in" /\ room[t.by].role \in ManagerRoles /\ MyRole(t.by) \in ManagerRoles
    /\ room[t.call].role # "netcontrol" /\ page[t.by].view[t.call].role # "netcontrol"
    /\ Level(room[t.by].role) < Level(room[t.call].role)

\* How far a correction has come, and where the station is logged by then: undo, add, restore, role, end.
Add(t) == IF t.was.in = "out" THEN "io" ELSE "i"
Undoing(t) ==
    /\ t.verb = "ui" /\ t.on = t.call
    /\ \/ t.stage = "ok"
       \/ t.stage \in {"ask", "sent", "loaded", "checked", "no"} /\ Logged(t.call)
Adding(t) ==
    /\ t.verb = Add(t) /\ t.on = t.new
    /\ \/ t.stage \in {"ask", "sent", "loaded", "checked", "no"}
       \/ t.stage \in {"half", "rechecked", "ok"} /\ Logged(t.new)
Restoring(t) ==
    /\ t.verb = Add(t) /\ t.on = t.call
    /\ \/ t.stage \in {"ask", "sent", "loaded", "checked"}
       \/ t.stage \in {"half", "rechecked", "ok", "no"} /\ Logged(t.call)
GivingRole(t) ==
    /\ t.verb \in {"l", "r"} /\ t.on = t.new
    /\ t.stage \in {"ask", "sent", "loaded", "read", "ok", "no"} /\ Logged(t.new)
Ended(t) == t.stage = "done" /\ (Logged(t.call) \/ Logged(t.new))
Phase(t) == Undoing(t) \/ Adding(t) \/ Restoring(t) \/ GivingRole(t) \/ Ended(t)

Sound(k) == tasks[k].kind = "correct" /\ ~tasks[k].lost /\ Alone(k) => Standing(tasks[k]) /\ Phase(tasks[k])
Corrections == OnFits /\ Fresh /\ \A k \in DOMAIN tasks : Sound(k)

CInv == TypeInv /\ BusyHeld /\ Corrections

\* A step of a task keeps what the task is about, and touches nothing else.
Own(k) ==
    /\ MovesOn(k)
    /\ tasks'[k].call = tasks[k].call /\ tasks'[k].new = tasks[k].new /\ tasks'[k].was = tasks[k].was
    /\ tasks'[k].kind = "correct" => tasks[k].kind = "correct"
    /\ tasks[k].lost => tasks'[k].lost
    /\ tasks'[k].on \in {tasks[k].call, tasks[k].new}
    /\ \A c \in Calls : c # tasks[k].by /\ c # tasks[k].on =>
           room'[c] = room[c] /\ \A m \in Managers : page'[m].view[c] = page[m].view[c]
    /\ \A m \in Managers \ {tasks[k].by} : page'[m] = page[m]

\* The fields that a step leaves to a task.
Same(u, t) ==
    /\ u.by = t.by /\ u.call = t.call /\ u.new = t.new /\ u.was = t.was
    /\ u.kind = "correct" => t.kind = "correct"
    /\ t.lost => u.lost

LEMMA OwnTask ==
    ASSUME TypeInv, NEW k \in DOMAIN tasks, NEW u, Same(u, tasks[k]), u.on \in {tasks[k].call, tasks[k].new},
           tasks' = [tasks EXCEPT ![k] = u],
           \A c \in Calls : c # tasks[k].by /\ c # tasks[k].on => room'[c] = room[c],
           \A c \in Calls : c # tasks[k].by /\ c # tasks[k].on =>
               \A m \in Managers : page'[m].view[c] = page[m].view[c],
           \A m \in Managers \ {tasks[k].by} : page'[m] = page[m]
    PROVE  Own(k) /\ tasks'[k] = u
<1>1. tasks \in Seq(Task)
  BY DEF TypeInv, TypeOK
<1>2. MovesOn(k) /\ tasks'[k] = u
  BY <1>1 DEF MovesOn, Same
<1> QED
  BY <1>2 DEF Own, Same

\* The steps of the server change one station, or two; those of the page its own.
LEMMA OwnFurther ==
    ASSUME TypeInv, OnFits, NEW k \in DOMAIN tasks, NEW u, tasks' = [tasks EXCEPT ![k] = u],
           Same(u, tasks[k]), u.on = tasks[k].on,
           \A c \in Calls : c # tasks[k].by /\ c # tasks[k].on => room'[c] = room[c], UNCHANGED page
    PROVE  Own(k) /\ tasks'[k] = u
  BY OwnTask DEF OnFits

LEMMA StageFields ==
    ASSUME NEW t \in Task, NEW s, NEW r, NEW l, NEW h
    PROVE  /\ Same([t EXCEPT !.stage = s], t) /\ [t EXCEPT !.stage = s].on = t.on
           /\ Same([t EXCEPT !.stage = s, !.seen = r], t) /\ [t EXCEPT !.stage = s, !.seen = r].on = t.on
           /\ Same([t EXCEPT !.stage = s, !.held = h], t) /\ [t EXCEPT !.stage = s, !.held = h].on = t.on
           /\ (t.lost => l) => Same([t EXCEPT !.stage = s, !.lost = l], t)
           /\ [t EXCEPT !.stage = s, !.lost = l].on = t.on
  BY DEF Same, Task

LEMMA OwnStage ==
    ASSUME TypeInv, OnFits, NEW k \in DOMAIN tasks, NEW s, Stage(k, s), UNCHANGED page,
           \A c \in Calls : c # tasks[k].by /\ c # tasks[k].on => room'[c] = room[c]
    PROVE  Own(k) /\ tasks'[k] = [tasks[k] EXCEPT !.stage = s]
<1> DEFINE u == [tasks[k] EXCEPT !.stage = s]
<1>1. tasks[k] \in Task
  BY DEF TypeInv, TypeOK
<1>2. Same(u, tasks[k]) /\ u.on = tasks[k].on
  BY <1>1, StageFields
<1>3. tasks' = [tasks EXCEPT ![k] = u]
  BY DEF Stage
<1> HIDE DEF u
<1>4. Own(k) /\ tasks'[k] = u
  BY <1>2, <1>3, OwnFurther
<1> QED
  BY <1>4 DEF u

LEMMA AloneBefore ==
    ASSUME NEW j, Own(j), NEW k \in DOMAIN tasks, Alone(k)'
    PROVE  Alone(k)
<1>1. DOMAIN tasks' = DOMAIN tasks
  BY DEF Own, MovesOn
<1>2. \A i \in DOMAIN tasks : tasks'[i].by = tasks[i].by /\ tasks'[i].call = tasks[i].call /\ tasks'[i].new = tasks[i].new
  BY DEF Own, MovesOn
<1> QED
  BY <1>1, <1>2 DEF Alone, Touches

\* What others do leaves a correction where it is.
LEMMA OthersSound ==
    ASSUME TypeInv, OnFits, NEW j, Own(j), NEW k \in DOMAIN tasks, k # j, Sound(k)
    PROVE  Sound(k)'
<1> DEFINE t == tasks[k]
<1> SUFFICES ASSUME tasks'[k].kind = "correct", ~tasks'[k].lost, Alone(k)'
             PROVE  Standing(tasks[k])' /\ Phase(tasks[k])'
  BY DEF Sound
<1>1. tasks'[k] = t /\ j \in DOMAIN tasks
  BY DEF Own, MovesOn
<1>2. Alone(k)
  BY AloneBefore
<1>3. Standing(t) /\ Phase(t)
  BY <1>1, <1>2 DEF Sound
<1>4. tasks[j].by # t.by /\ \A c \in {t.by, t.call, t.new} : c # tasks[j].by /\ c # tasks[j].call /\ c # tasks[j].new
  BY <1>1, <1>2 DEF Alone, Touches
<1>5. t.by \in Managers /\ t.by \in Calls /\ t.call \in Calls /\ t.new \in Calls
  BY TaskShape
<1>6. \A c \in {t.by, t.call, t.new} : c # tasks[j].on
  BY <1>1, <1>4 DEF OnFits
<1>7. room'[t.by] = room[t.by] /\ room'[t.call] = room[t.call] /\ room'[t.new] = room[t.new]
  BY <1>4, <1>5, <1>6 DEF Own
<1>8. page'[t.by] = page[t.by]
  BY <1>4, <1>5 DEF Own
<1>9. Standing(t)'
  BY <1>1, <1>3, <1>7, <1>8 DEF Standing, MyRole
<1>10. Phase(t)'
  BY <1>1, <1>3, <1>7 DEF Phase, Undoing, Adding, Restoring, GivingRole, Ended, Logged, Add
<1> QED
  BY <1>1, <1>9, <1>10

LEMMA FreshKept ==
    ASSUME TypeInv, OnFits, Fresh, NEW j, Own(j)
    PROVE  Fresh' /\ OnFits'
<1>1. DOMAIN tasks' = DOMAIN tasks /\ j \in DOMAIN tasks
  BY DEF Own, MovesOn
<1>2. \A i \in DOMAIN tasks : tasks'[i].by = tasks[i].by /\ tasks'[i].call = tasks[i].call /\ tasks'[i].new = tasks[i].new
  BY DEF Own, MovesOn
<1>3. OnFits'
  BY <1>1, <1>2 DEF Own, MovesOn, OnFits
<1>4. Fresh'
  <2> SUFFICES ASSUME NEW c \in Calls, Untouched(c)'
               PROVE  /\ \A m \in Managers : page'[m].view[c] = room'[c]
                      /\ c \in Managers => room'[c].in = "in"
    BY DEF Fresh
  <2>1. Untouched(c)
    BY <1>1, <1>2 DEF Untouched, Touches
  <2>2. c # tasks[j].by /\ c # tasks[j].on
    BY <1>1, <2>1 DEF Untouched, Touches, OnFits
  <2> QED
    BY <2>1, <2>2 DEF Fresh, Own
<1> QED
  BY <1>3, <1>4

\* A correction that goes on was sound before.
LEMMA SoundBefore ==
    ASSUME CInv, NEW k \in DOMAIN tasks, Own(k), tasks'[k].kind = "correct", ~tasks'[k].lost, Alone(k)'
    PROVE  /\ tasks[k].kind = "correct" /\ ~tasks[k].lost /\ Alone(k)
           /\ Standing(tasks[k]) /\ Phase(tasks[k])
<1>1. tasks[k].kind = "correct" /\ ~tasks[k].lost
  BY DEF Own
<1> QED
  BY <1>1, AloneBefore DEF CInv, Corrections, Sound

LEMMA StandingKept ==
    ASSUME TypeInv, NEW k \in DOMAIN tasks, NEW u, Same(u, tasks[k]), Standing(tasks[k]),
           room'[tasks[k].by] = room[tasks[k].by], room'[tasks[k].call].role = room[tasks[k].call].role,
           page'[tasks[k].by].view = page[tasks[k].by].view
    PROVE  /\ u.by # u.call /\ u.by # u.new /\ u.call # u.new
           /\ room'[u.by].in = "in" /\ room'[u.by].role \in ManagerRoles
           /\ page'[u.by].view[u.by].role \in ManagerRoles
           /\ room'[u.call].role # "netcontrol" /\ page'[u.by].view[u.call].role # "netcontrol"
           /\ Level(room'[u.by].role) < Level(room'[u.call].role)
<1>1. u.by = tasks[k].by /\ u.call = tasks[k].call /\ u.new = tasks[k].new
  BY DEF Same
<1>2. Level(room'[u.by].role) < Level(room'[u.call].role)
  BY <1>1 DEF Standing
<1> QED
  BY <1>1, <1>2 DEF Standing, MyRole

\* The step of a correction, from what it makes of the task and of the two stations.
LEMMA SoundNext ==
    ASSUME CInv, NEW k \in DOMAIN tasks, Own(k), NEW u, Same(u, tasks[k]), tasks'[k] = u,
           room'[tasks[k].by] = room[tasks[k].by] \/ tasks[k].by \in {tasks[k].call, tasks[k].new},
           u.kind = "correct" /\ tasks[k].verb # "handoff" => page'[tasks[k].by].view = page[tasks[k].by].view,
           tasks[k].kind = "correct" /\ u.kind = "correct" /\ ~u.lost /\ Alone(k)
               /\ Standing(tasks[k]) /\ Phase(tasks[k])
               => /\ tasks[k].verb # "handoff" /\ Phase(u)'
                  /\ room'[tasks[k].call].role = room[tasks[k].call].role
    PROVE  Sound(k)'
<1> SUFFICES ASSUME u.kind = "correct", ~u.lost, Alone(k)' PROVE Standing(u)' /\ Phase(u)'
  BY DEF Sound
<1>1. tasks[k].kind = "correct" /\ Alone(k) /\ Standing(tasks[k]) /\ Phase(tasks[k])
  BY SoundBefore
<1>2. Phase(u)' /\ page'[tasks[k].by].view = page[tasks[k].by].view
  BY <1>1
<1>3. room'[tasks[k].by] = room[tasks[k].by] /\ room'[tasks[k].call].role = room[tasks[k].call].role
  BY <1>1 DEF Standing
<1>4. Standing(u)'
  <2>1. /\ u.by # u.call /\ u.by # u.new /\ u.call # u.new
        /\ room'[u.by].in = "in" /\ room'[u.by].role \in ManagerRoles
        /\ page'[u.by].view[u.by].role \in ManagerRoles
        /\ room'[u.call].role # "netcontrol" /\ page'[u.by].view[u.call].role # "netcontrol"
        /\ Level(room'[u.by].role) < Level(room'[u.call].role)
    BY <1>1, <1>2, <1>3, StandingKept DEF CInv
  <2> QED
    BY <2>1 DEF Standing, MyRole
<1> QED
  BY <1>2, <1>4

\* A step that only moves the task on: the room is as it was.
LEMMA SoundStage ==
    ASSUME CInv, NEW k \in DOMAIN tasks, NEW u, tasks' = [tasks EXCEPT ![k] = u], Same(u, tasks[k]),
           u.on \in {tasks[k].call, tasks[k].new}, UNCHANGED room,
           \A m \in Managers \ {tasks[k].by} : page'[m] = page[m],
           \A c \in Calls : c # tasks[k].by /\ c # tasks[k].on => page'[tasks[k].by].view[c] = page[tasks[k].by].view[c],
           tasks[k].verb # "handoff" => page'[tasks[k].by].view = page[tasks[k].by].view,
           tasks[k].kind = "correct" /\ u.kind = "correct" /\ ~u.lost /\ Alone(k) /\ Standing(tasks[k]) /\ Phase(tasks[k])
               => tasks[k].verb # "handoff" /\ Phase(u)
    PROVE  Own(k) /\ Sound(k)'
<1> DEFINE t == tasks[k]
<1>0. t \in Task /\ t.by \in Managers
  BY TaskShape DEF CInv, Fits
<1>1. \A c \in Calls : c # t.by /\ c # t.on => \A m \in Managers : page'[m].view[c] = page[m].view[c]
  BY <1>0
<1>2. Own(k) /\ tasks'[k] = u
  BY <1>1, OwnTask DEF CInv, Corrections, OnFits
<1>3. Phase(u) => Phase(u)'
  BY DEF Phase, Undoing, Adding, Restoring, GivingRole, Ended, Logged
<1> QED
  BY <1>2, <1>3, SoundNext

\* Where a correction may be before its command is begun, while it is under way, and when it is answered.
LEMMA PhaseVerbs ==
    ASSUME NEW t, Phase(t), t.stage # "done"
    PROVE  t.verb \in {"ui", "l", "r"} \/ (t.verb = Add(t) /\ t.verb \in {"i", "io"})
  BY DEF Phase, Undoing, Adding, Restoring, GivingRole, Ended, Add

\* The command that takes a correction back is refused by nobody.
LEMMA RestoreAllowed ==
    ASSUME CInv, NEW k \in DOMAIN tasks, Alone(k), Standing(tasks[k]), tasks[k].stage = "ask",
           tasks[k].verb \in {"i", "io"}, tasks[k].on = tasks[k].call
    PROVE  ~Refused(tasks[k])
<1> DEFINE t == tasks[k]
<1>1. Allowed(t.by, t.verb, t.on)
  BY DEF Allowed, Standing, CanManage, CheckVerbs
<1>2. t.on \notin page[t.by].busy
  <2> SUFFICES ASSUME t.on \in page[t.by].busy PROVE FALSE
    OBVIOUS
  <2>1. PICK j \in DOMAIN tasks : tasks[j].held /\ tasks[j].by = t.by /\ tasks[j].on = t.on
    BY TaskShape DEF CInv, BusyHeld
  <2>2. j = k
    BY <2>1 DEF Alone
  <2> QED
    BY <2>1, <2>2 DEF CInv, BusyHeld
<1> QED
  BY <1>1, <1>2 DEF Refused

LEMMA SoundRun ==
    ASSUME CInv, NEW k, RunCommand(k)
    PROVE  Own(k) /\ Sound(k)'
<1> DEFINE t == tasks[k]
<1>1. k \in DOMAIN tasks /\ t \in Task /\ t.stage = "ask" /\ t.by \in Managers
  BY TaskShape DEF RunCommand, At, CInv, Fits
<1>2. PICK s, h : /\ tasks' = [tasks EXCEPT ![k].stage = s, ![k].held = h]
                  /\ s = IF Refused(t) THEN "no" ELSE "sent"
  BY DEF RunCommand
<1>3. PICK u : u = [t EXCEPT !.stage = s, !.held = h]
  OBVIOUS
<1>4. Same(u, t) /\ u.on = t.on /\ u.verb = t.verb /\ u.stage = s /\ u.lost = t.lost
  BY <1>1, <1>3 DEF Same, Task
<1>5. tasks' = [tasks EXCEPT ![k] = u]
  BY <1>2, <1>3
<1>6. /\ \A m \in Managers \ {t.by} : page'[m] = page[m]
      /\ page'[t.by].view = page[t.by].view /\ UNCHANGED room
  BY <1>1, PageShape DEF RunCommand, PageType, CInv
<1>7. ASSUME Alone(k), Standing(t), Phase(t) PROVE t.verb # "handoff" /\ Phase(u)
  <2>1. t.verb \in {"ui", "l", "r"} \/ (t.verb = Add(t) /\ t.verb \in {"i", "io"})
    BY <1>1, <1>7, PhaseVerbs
  <2>2. t.verb \in {"i", "io"} /\ t.on = t.call => s = "sent"
    BY <1>1, <1>2, <1>7, RestoreAllowed
  <2>3. u.call = t.call /\ u.new = t.new /\ Add(u) = Add(t)
    BY <1>4 DEF Same, Add
  <2>4. s \in {"no", "sent"}
    BY <1>2
  <2>5. Undoing(t) \/ Adding(t) \/ Restoring(t) \/ GivingRole(t)
    BY <1>1, <1>7 DEF Phase, Ended
  <2>6. Undoing(t) => t.verb # "handoff" /\ Undoing(u)
    BY <1>1, <1>4, <2>3, <2>4 DEF Undoing
  <2>7. Adding(t) => t.verb # "handoff" /\ Adding(u)
    BY <1>1, <1>4, <2>1, <2>3, <2>4 DEF Adding
  <2>8. Restoring(t) => t.verb # "handoff" /\ Restoring(u)
    BY <1>1, <1>4, <2>1, <2>2, <2>3, <2>4 DEF Restoring, Add
  <2>9. GivingRole(t) => t.verb # "handoff" /\ GivingRole(u)
    BY <1>1, <1>4, <2>3, <2>4 DEF GivingRole
  <2> QED
    BY <2>5, <2>6, <2>7, <2>8, <2>9 DEF Phase
<1> QED
  BY <1>1, <1>4, <1>5, <1>6, <1>7, SoundStage DEF CInv, Corrections, OnFits

\* What the server reads of the one who corrects, and of the station, moves the command on or refuses it.
LEMMA SoundSeen ==
    ASSUME CInv, NEW k \in DOMAIN tasks, NEW s, NEW r,
           tasks' = [tasks EXCEPT ![k].stage = s, ![k].seen = r], UNCHANGED <<room, page>>,
           \/ tasks[k].stage = "sent" /\ s \in {"loaded", "no"}
           \/ tasks[k].stage = "loaded" /\ tasks[k].verb \in CheckVerbs /\ s \in {"checked", "no"}
           \/ tasks[k].stage = "half" /\ s \in {"rechecked", "no"}
           \/ tasks[k].stage = "loaded" /\ tasks[k].verb \in {"l", "r"} /\ s \in {"read", "no"},
           Standing(tasks[k]) /\ tasks[k].on = tasks[k].call /\ tasks[k].verb \in {"i", "io"}
               => s # "no" \/ tasks[k].stage = "half"
    PROVE  Own(k) /\ Sound(k)'
<1> DEFINE t == tasks[k]
<1>1. t \in Task /\ t.by \in Managers
  BY TaskShape DEF CInv, Fits
<1>2. PICK u : u = [t EXCEPT !.stage = s, !.seen = r]
  OBVIOUS
<1>3. Same(u, t) /\ u.on = t.on /\ u.verb = t.verb /\ u.stage = s /\ u.lost = t.lost
  BY <1>1, <1>2 DEF Same, Task
<1>4. tasks' = [tasks EXCEPT ![k] = u]
  BY <1>2
<1>5. ASSUME Standing(t), Phase(t) PROVE t.verb # "handoff" /\ Phase(u)
  <2>1. u.call = t.call /\ u.new = t.new /\ Add(u) = Add(t)
    BY <1>3 DEF Same, Add
  <2>2. Undoing(t) \/ Adding(t) \/ Restoring(t) \/ GivingRole(t)
    BY <1>5 DEF Phase, Ended
  <2>3. Undoing(t) => t.verb # "handoff" /\ Undoing(u)
    BY <1>3, <2>1 DEF Undoing
  <2>4. Adding(t) => t.verb # "handoff" /\ Adding(u)
    BY <1>3, <2>1 DEF Adding, Add
  <2>5. Restoring(t) => t.verb # "handoff" /\ Restoring(u)
    BY <1>3, <1>5, <2>1 DEF Restoring, Add
  <2>6. GivingRole(t) => t.verb # "handoff" /\ GivingRole(u)
    BY <1>3, <2>1 DEF GivingRole, CheckVerbs
  <2> QED
    BY <2>2, <2>3, <2>4, <2>5, <2>6 DEF Phase
<1> QED
  BY <1>1, <1>3, <1>4, <1>5, SoundStage DEF CInv, Corrections, OnFits

LEMMA SoundRead ==
    ASSUME CInv, NEW k, Load(k) \/ ReadState(k) \/ ReadOut(k) \/ ReadRole(k)
    PROVE  Own(k) /\ Sound(k)'
<1> DEFINE t == tasks[k]
<1>1. k \in DOMAIN tasks /\ t \in Task
  BY TaskShape DEF Load, ReadState, ReadOut, ReadRole, At, CInv, Fits
<1>2. \A s : Stage(k, s) => tasks' = [tasks EXCEPT ![k].stage = s, ![k].seen = t.seen]
  BY <1>1 DEF Stage, Task
<1>3. CASE Load(k)
  <2>1. Standing(t) /\ t.verb \in {"i", "io"} =>
            room[t.by].in = "in" /\ room[t.by].role \in (IF t.verb = "handoff" THEN {"netcontrol"} ELSE ManagerRoles)
    BY DEF Standing
  <2>2. PICK s, r : /\ tasks' = [tasks EXCEPT ![k].stage = s, ![k].seen = r]
                    /\ t.stage = "sent" /\ s \in {"loaded", "no"}
                    /\ Standing(t) /\ t.verb \in {"i", "io"} => s # "no"
    <3> DEFINE may == /\ room[t.by].in = "in"
                      /\ room[t.by].role \in (IF t.verb = "handoff" THEN {"netcontrol"} ELSE ManagerRoles)
    <3> DEFINE next == IF may THEN "loaded" ELSE "no"
    <3>1. t.stage = "sent" /\ tasks' = [tasks EXCEPT ![k].stage = next, ![k].seen = room[t.by].role]
      BY <1>3 DEF Load, At
    <3>2. next \in {"loaded", "no"} /\ (Standing(t) /\ t.verb \in {"i", "io"} => next # "no")
      BY <2>1
    <3> HIDE DEF next
    <3> QED
      BY <3>1, <3>2
  <2>3. UNCHANGED <<room, page>>
    BY <1>3 DEF Load
  <2> QED
    BY <1>1, <2>2, <2>3, SoundSeen
<1>4. CASE ReadState(k)
  <2>1. Standing(t) /\ t.on = t.call => MayCheck(t.by, t.on, "in")
    <3>1. Standing(t) => Level(room[t.by].role) <= 1
      BY DEF Standing, ManagerRoles, Level
    <3> QED
      BY <3>1 DEF Standing, MayCheck
  <2>2. PICK s : /\ Stage(k, s) /\ t.stage = "loaded" /\ t.verb \in CheckVerbs /\ s \in {"checked", "no"}
                 /\ Standing(t) /\ t.on = t.call /\ t.verb \in {"i", "io"} => s # "no"
    BY <1>4, <2>1 DEF ReadState, At, State
  <2> QED
    BY <1>1, <1>2, <1>4, <2>2, SoundSeen DEF ReadState
<1>5. CASE ReadOut(k)
  <2>1. PICK s : Stage(k, s) /\ t.stage = "half" /\ s \in {"rechecked", "no"}
    BY <1>5 DEF ReadOut, At
  <2> QED
    BY <1>1, <1>2, <1>5, <2>1, SoundSeen DEF ReadOut
<1>6. CASE ReadRole(k)
  <2>1. PICK s, r : /\ tasks' = [tasks EXCEPT ![k].stage = s, ![k].seen = r]
                    /\ t.stage = "loaded" /\ t.verb \in {"l", "r"} /\ s \in {"read", "no"}
    BY <1>6 DEF ReadRole, At
  <2>2. UNCHANGED <<room, page>>
    BY <1>6 DEF ReadRole
  <2> QED
    BY <1>1, <2>1, <2>2, SoundSeen
<1> QED
  BY <1>3, <1>4, <1>5, <1>6

\* The server writes: only the station of the command, and of it either the state or the role.
LEMMA SoundWrite ==
    ASSUME CInv, NEW k, SetCheckedState(k) \/ SetOut(k) \/ SetRole(k)
    PROVE  Own(k) /\ Sound(k)'
<1> DEFINE t == tasks[k]
<1>1. k \in DOMAIN tasks /\ t \in Task /\ t.by \in Managers /\ t.on \in Calls /\ t.stage \in Stages
  BY TaskShape DEF SetCheckedState, SetOut, SetRole, At, CInv, Fits, Task
<1>2. room \in [Calls -> Station]
  BY RoomShape DEF CInv
<1>3. PICK s, state, role :
          /\ Stage(k, s) /\ UNCHANGED page
          /\ room' = [room EXCEPT ![t.on] = [in |-> state, role |-> role]]
          /\ \/ t.stage = "checked" /\ state = State(t.verb) /\ role = room[t.on].role /\ t.verb \in CheckVerbs
                /\ s = IF t.verb = "io" THEN "half" ELSE "ok"
             \/ t.stage = "rechecked" /\ state = "out" /\ role = room[t.on].role /\ s = "ok"
             \/ t.stage = "read" /\ state = room[t.on].in /\ s \in {"ok", "no"}
  <2>0. \A i \in Station : \A x : /\ [i EXCEPT !.in = x] = [in |-> x, role |-> i.role]
                                 /\ [i EXCEPT !.role = x] = [in |-> i.in, role |-> x]
    BY DEF Station
  <2>1. \A state : [room EXCEPT ![t.on].in = state] = [room EXCEPT ![t.on] = [in |-> state, role |-> room[t.on].role]]
    BY <1>1, <1>2, <2>0
  <2>2. \A role : [room EXCEPT ![t.on].role = role] = [room EXCEPT ![t.on] = [in |-> room[t.on].in, role |-> role]]
    BY <1>1, <1>2, <2>0
  <2>3. room = [room EXCEPT ![t.on] = [in |-> room[t.on].in, role |-> room[t.on].role]]
    BY <1>1, <1>2 DEF Station
  <2>4. CASE SetCheckedState(k)
    BY <1>1, <2>1, <2>4 DEF SetCheckedState, At, CInv, TypeInv, StagesFit
  <2>5. CASE SetOut(k)
    BY <2>1, <2>5 DEF SetOut, At
  <2>6. CASE SetRole(k)
    BY <2>2, <2>3, <2>6 DEF SetRole, At
  <2> QED
    BY <2>4, <2>5, <2>6
<1>4. PICK u : u = [t EXCEPT !.stage = s]
  OBVIOUS
<1>5. Same(u, t) /\ u.on = t.on /\ u.verb = t.verb /\ u.stage = s /\ u.lost = t.lost
  BY <1>1, <1>4 DEF Same, Task
<1>6. \A c \in Calls \ {t.on} : room'[c] = room[c]
  BY <1>2, <1>3
<1>7. Own(k) /\ tasks'[k] = u
  BY <1>1, <1>3, <1>4, <1>6, OwnStage DEF CInv, Corrections
<1>8. room'[t.on].in = state /\ room'[t.on].role = role
  BY <1>1, <1>2, <1>3
<1>9. t.call \in Calls /\ t.new \in Calls /\ t.by \in Calls /\ t.on \in {t.call, t.new}
  BY <1>1, TaskShape DEF CInv, Corrections, OnFits
<1>10. ASSUME Standing(t), Phase(t) PROVE t.verb # "handoff" /\ Phase(u)'
  <2>1. u.call = t.call /\ u.new = t.new /\ Add(u) = Add(t)
    BY <1>5 DEF Same, Add
  <2>2. Undoing(t) \/ Adding(t) \/ Restoring(t) \/ GivingRole(t)
    BY <1>3, <1>10 DEF Phase, Ended
  <2>3. Undoing(t) => t.verb # "handoff" /\ Undoing(u)'
    BY <1>3, <1>5, <1>8, <2>1 DEF Undoing
  <2>4. Adding(t) => t.verb # "handoff" /\ Adding(u)'
    BY <1>3, <1>5, <1>8, <2>1 DEF Adding, Add, State, Logged
  <2>5. Restoring(t) => t.verb # "handoff" /\ Restoring(u)'
    BY <1>3, <1>5, <1>8, <2>1 DEF Restoring, Add, State, Logged
  <2>6. GivingRole(t) => t.verb # "handoff" /\ GivingRole(u)'
    BY <1>3, <1>5, <1>8, <2>1 DEF GivingRole, Logged, CheckVerbs
  <2> QED
    BY <2>2, <2>3, <2>4, <2>5, <2>6 DEF Phase
<1>11. room'[t.by] = room[t.by] \/ t.by \in {t.call, t.new}
  BY <1>6, <1>9
<1>12. ASSUME t.kind = "correct", ~u.lost, Alone(k), Standing(t), Phase(t)
       PROVE  room'[t.call].role = room[t.call].role
  <2>1. CASE t.on # t.call
    BY <1>6, <1>9, <2>1
  <2>2. CASE t.on = t.call
    <3>1. t.stage # "read"
      BY <1>12, <2>2 DEF Phase, Undoing, Adding, Restoring, GivingRole, Ended, Standing
    <3> QED
      BY <1>3, <1>8, <2>2, <3>1
  <2> QED
    BY <2>1, <2>2
<1> QED
  BY <1>1, <1>3, <1>5, <1>7, <1>10, <1>11, <1>12, SoundNext

\* No correction hands net control over.
LEMMA SoundHandoff ==
    ASSUME CInv, NEW k, Handoff(k)
    PROVE  Own(k) /\ Sound(k)'
<1> DEFINE t == tasks[k]
<1>1. k \in DOMAIN tasks /\ t \in Task /\ t.by \in Managers /\ t.verb = "handoff" /\ t.stage = "loaded"
  BY TaskShape DEF Handoff, At, CInv, Fits
<1>2. PICK s : Stage(k, s) /\ UNCHANGED page
  BY DEF Handoff
<1>3. \A c \in Calls : c # t.by /\ c # t.on => room'[c] = room[c]
  <2>1. \/ UNCHANGED room
        \/ room' = [room EXCEPT ![t.on].role = "netcontrol", ![t.by].role = "netlogger"]
    BY DEF Handoff
  <2> QED
    BY <2>1, RoomShape DEF CInv
<1>4. Own(k) /\ tasks'[k] = [t EXCEPT !.stage = s]
  BY <1>1, <1>2, <1>3, OwnStage DEF CInv, Corrections
<1>5. ~Phase(t)
  BY <1>1 DEF Phase, Undoing, Adding, Restoring, GivingRole, Ended, Add
<1>6. ASSUME tasks'[k].kind = "correct", ~tasks'[k].lost, Alone(k)' PROVE FALSE
  BY <1>1, <1>4, <1>5, <1>6, SoundBefore
<1> QED
  BY <1>4, <1>6 DEF Sound

\* What fails for a reason of its own has done nothing; if it was to take the correction back, or if an answer is
\* lost, the task says so.
LEMMA SoundFailure ==
    ASSUME CInv, NEW k, Fails(k) \/ AnswerLost(k)
    PROVE  Own(k) /\ Sound(k)'
<1> DEFINE t == tasks[k]
<1>1. k \in DOMAIN tasks /\ t \in Task /\ t.by \in Managers
  BY TaskShape DEF Fails, AnswerLost, At, CInv, Fits
<1>2. PICK l : /\ tasks' = [tasks EXCEPT ![k].stage = "no", ![k].lost = l] /\ UNCHANGED <<room, page>>
               /\ t.lost => l
               /\ l \/ (t.stage = "sent" /\ ~Restores(t))
  <2>1. CASE Fails(k)
    <3> DEFINE l == t.lost \/ Restores(t)
    <3>1. /\ tasks' = [tasks EXCEPT ![k].stage = "no", ![k].lost = l] /\ UNCHANGED <<room, page>>
          /\ t.stage = "sent"
      BY <2>1 DEF Fails, At
    <3>2. (t.lost => l) /\ (l \/ ~Restores(t))
      OBVIOUS
    <3> HIDE DEF l
    <3> QED
      BY <3>1, <3>2
  <2>2. CASE AnswerLost(k)
    BY <2>2 DEF AnswerLost
  <2> QED
    BY <2>1, <2>2
<1>3. PICK u : u = [t EXCEPT !.stage = "no", !.lost = l]
  OBVIOUS
<1>4. Same(u, t) /\ u.on = t.on /\ u.verb = t.verb /\ u.stage = "no" /\ u.lost = l
  BY <1>1, <1>2, <1>3 DEF Same, Task
<1>5. tasks' = [tasks EXCEPT ![k] = u]
  BY <1>2, <1>3
<1>6. ASSUME t.kind = "correct", ~u.lost, Standing(t), Phase(t) PROVE t.verb # "handoff" /\ Phase(u)
  <2>1. u.call = t.call /\ u.new = t.new /\ Add(u) = Add(t)
    BY <1>4 DEF Same, Add
  <2>2. t.stage = "sent" /\ ~Restores(t)
    BY <1>2, <1>4, <1>6
  <2>3. Undoing(t) \/ Adding(t) \/ Restoring(t) \/ GivingRole(t)
    BY <1>6, <2>2 DEF Phase, Ended
  <2>4. Undoing(t) => t.verb # "handoff" /\ Undoing(u)
    BY <1>4, <2>1, <2>2 DEF Undoing
  <2>5. Adding(t) => t.verb # "handoff" /\ Adding(u)
    BY <1>4, <2>1, <2>2 DEF Adding, Add
  <2>6. ~Restoring(t)
    BY <1>6, <2>2 DEF Restoring, Restores, Add
  <2>7. GivingRole(t) => t.verb # "handoff" /\ GivingRole(u)
    BY <1>4, <2>1, <2>2 DEF GivingRole
  <2> QED
    BY <2>3, <2>4, <2>5, <2>6, <2>7 DEF Phase
<1> QED
  BY <1>1, <1>2, <1>4, <1>5, <1>6, SoundStage DEF CInv, Corrections, OnFits

\* What a correction does next, by the answer it got.
LEMMA CorrectedSound ==
    ASSUME NEW t \in Task, t.stage \in {"ok", "no"}, Standing(t), Phase(t)
    PROVE  Phase(Corrected(t))
<1>1. t.verb # "ui" => t.verb \in {"l", "r", "i", "io"}
  BY DEF Phase, Undoing, Adding, Restoring, GivingRole, Ended, Add
<1>2. \A verb, on : LET u == Then(t, verb, on)
                    IN  /\ u.verb = verb /\ u.on = on /\ u.stage = "ask" /\ u.call = t.call /\ u.new = t.new
                        /\ Add(u) = Add(t)
  BY DEF Then, Task, Add
<1>3. Done(t).stage = "done" /\ Done(t).call = t.call /\ Done(t).new = t.new
  BY DEF Done, Task
<1>4. CASE Undoing(t)
  <2>1. CASE t.stage = "ok"
    <3>1. Corrected(t) = Then(t, Add(t), t.new)
      BY <1>4, <2>1 DEF Corrected, Undoing, Add
    <3> QED
      BY <1>2, <3>1 DEF Phase, Adding
  <2>2. CASE t.stage = "no"
    <3>1. Corrected(t) = Done(t) /\ Logged(t.call)
      BY <1>4, <2>2 DEF Corrected, Undoing, Add
    <3> QED
      BY <1>3, <3>1 DEF Phase, Ended
  <2> QED
    BY <2>1, <2>2
<1>5. CASE Adding(t)
  <2>1. CASE t.stage = "no"
    <3>1. Corrected(t) = Then(t, Add(t), t.call)
      BY <1>5, <2>1 DEF Corrected, Adding, Add
    <3> QED
      BY <1>2, <3>1 DEF Phase, Restoring
  <2>2. CASE t.stage = "ok"
    <3>1. Corrected(t) \in {Then(t, "l", t.new), Then(t, "r", t.new), Done(t)} /\ Logged(t.new)
      BY <1>5, <2>2 DEF Corrected, Adding, Add
    <3> QED
      BY <1>2, <1>3, <3>1 DEF Phase, GivingRole, Ended, Logged
  <2> QED
    BY <2>1, <2>2
<1>6. CASE Restoring(t)
  <2>1. Corrected(t) = Done(t) /\ Logged(t.call)
    BY <1>6 DEF Corrected, Restoring, Add, Standing
  <2> QED
    BY <1>3, <2>1 DEF Phase, Ended
<1>7. CASE GivingRole(t)
  <2>1. Corrected(t) = Done(t) /\ Logged(t.new)
    BY <1>7 DEF Corrected, GivingRole, Add
  <2> QED
    BY <1>3, <2>1 DEF Phase, Ended
<1> QED
  BY <1>4, <1>5, <1>6, <1>7 DEF Phase, Ended

LEMMA SoundAnswered ==
    ASSUME CInv, NEW k, Answered(k)
    PROVE  Own(k) /\ Sound(k)'
<1> DEFINE t == tasks[k]
<1>1. /\ k \in DOMAIN tasks /\ t \in Task /\ t.by \in Managers /\ t.on \in {t.call, t.new} /\ t.stage \in {"ok", "no"}
      /\ Fits(t)
  BY TaskShape DEF Answered, At, CInv, Fits, Corrections, OnFits
<1>2. Continued(t) \in Task
  BY <1>1, CorrectedFits, CheckedInFits, DoneFits DEF Continued, Fits, CInv
<1>3. Same(Continued(t), t) /\ Continued(t).on \in {t.call, t.new}
  BY <1>1 DEF Continued, Corrected, CheckedIn, Then, Done, Task, Same
<1>4. PICK u : u = [Continued(t) EXCEPT !.held = FALSE]
  OBVIOUS
<1>5. /\ Same(u, t) /\ u.on \in {t.call, t.new}
      /\ u.on = Continued(t).on /\ u.verb = Continued(t).verb /\ u.stage = Continued(t).stage
      /\ u.call = Continued(t).call /\ u.new = Continued(t).new /\ u.was = Continued(t).was
  <2> DEFINE c == Continued(t)
  <2>1. c \in Task /\ Same(c, t) /\ u = [c EXCEPT !.held = FALSE] /\ c.on \in {t.call, t.new}
    BY <1>2, <1>3, <1>4
  <2> HIDE DEF c, t
  <2>2. /\ Same(u, t) /\ u.on \in {t.call, t.new} /\ u.on = c.on /\ u.verb = c.verb /\ u.stage = c.stage
        /\ u.call = c.call /\ u.new = c.new /\ u.was = c.was
    BY <2>1 DEF Task, Same
  <2> QED
    BY <2>2 DEF c, t
<1>6. tasks' = [tasks EXCEPT ![k] = u] /\ UNCHANGED room
  BY <1>4 DEF Answered
<1>7. \A m \in Managers \ {t.by} : page'[m] = page[m]
  BY <1>1, PageShape DEF Answered, CInv
<1>8. page'[t.by].view = Shown(page[t.by], t)
  BY <1>1, PageShape DEF Answered, CInv
<1>9. \A c \in Calls : c # t.by /\ c # t.on => page'[t.by].view[c] = page[t.by].view[c]
  <2>1. page[t.by].view \in [Calls -> Station]
    BY <1>1, PageShape DEF CInv, PageType
  <2> QED
    BY <1>8, <2>1 DEF Shown
<1>10. t.verb # "handoff" => page'[t.by].view = page[t.by].view
  BY <1>8 DEF Shown
<1>11. ASSUME t.kind = "correct", Standing(t), Phase(t) PROVE t.verb # "handoff" /\ Phase(u)
  <2>1. Phase(Continued(t))
    BY <1>1, <1>11, CorrectedSound DEF Continued
  <2>2. Phase(u)
    BY <1>5, <2>1 DEF Phase, Undoing, Adding, Restoring, GivingRole, Ended, Add
  <2>3. t.verb # "handoff"
    BY <1>1, <1>11 DEF Phase, Undoing, Adding, Restoring, GivingRole, Ended, Add
  <2> QED
    BY <2>2, <2>3
<1> QED
  BY <1>1, <1>5, <1>6, <1>7, <1>9, <1>10, <1>11, SoundStage

LEMMA SoundPending ==
    ASSUME CInv, NEW k, ApplyPendingRole(k)
    PROVE  Own(k) /\ Sound(k)'
<1> DEFINE t == tasks[k]
<1>1. k \in DOMAIN tasks /\ t \in Task /\ t.by \in Managers /\ t.stage = "refresh"
  BY TaskShape DEF ApplyPendingRole, At, CInv, Fits
<1>2. PICK u : /\ tasks' = [tasks EXCEPT ![k] = u] /\ UNCHANGED <<room, page>>
               /\ \/ u = Done(t)
                  \/ \E verb : u = [Then(t, verb, t.call) EXCEPT !.kind = "role"]
  BY DEF ApplyPendingRole
<1>3. Same(u, t) /\ u.on = t.call
  BY <1>1, <1>2 DEF Same, Then, Done, Task
<1>4. ~Phase(t)
  BY <1>1 DEF Phase, Undoing, Adding, Restoring, GivingRole, Ended
<1> QED
  BY <1>1, <1>2, <1>3, <1>4, SoundStage

LEMMA SoundSteps ==
    ASSUME CInv, NEW k, Step(k) \/ Fails(k) \/ AnswerLost(k)
    PROVE  Corrections'
<1>1. Own(k) /\ Sound(k)'
  BY SoundRun, SoundRead, SoundWrite, SoundHandoff, SoundFailure, SoundAnswered, SoundPending DEF Step
<1>2. DOMAIN tasks' = DOMAIN tasks
  BY <1>1 DEF Own, MovesOn
<1>3. \A j \in DOMAIN tasks' : Sound(j)'
  BY <1>1, <1>2, OthersSound DEF CInv, Corrections
<1> QED
  BY <1>1, <1>3, FreshKept DEF CInv, Corrections

\* What a page asks before it begins a correction.
MayBegin(t) ==
    /\ t.verb = "ui" /\ t.on = t.call /\ t.stage = "ask"
    /\ CanManage(t.by)
    /\ page[t.by].view[t.call].in \in {"in", "out"} /\ page[t.by].view[t.new].in = "absent"
    /\ page[t.by].view[t.call].role # "netcontrol"
    /\ page[t.by].view[t.call].role = "netlogger" => MyRole(t.by) = "netcontrol"

\* A correction of stations nobody has touched begins with what its page shows being so.
LEMMA BeginsSound ==
    ASSUME CInv, NEW t \in Task, MayBegin(t), Untouched(t.by), Untouched(t.call), Untouched(t.new)
    PROVE  Standing(t) /\ Phase(t)
<1>1. t.by \in Managers /\ t.by \in Calls /\ t.call \in Calls /\ t.new \in Calls
  BY InCalls DEF Task
<1>2. /\ page[t.by].view[t.by] = room[t.by] /\ room[t.by].in = "in"
      /\ page[t.by].view[t.call] = room[t.call] /\ page[t.by].view[t.new] = room[t.new]
  BY <1>1 DEF CInv, Corrections, Fresh
<1>3. room[t.call].role \in Roles /\ room[t.by].role \in ManagerRoles
  BY <1>1, <1>2, RoomShape DEF CInv, Station, MayBegin, CanManage, MyRole
<1>4. Level(room[t.by].role) < Level(room[t.call].role)
  <2>1. CASE room[t.call].role = "netlogger"
    BY <1>2, <2>1 DEF MayBegin, MyRole, Level
  <2>2. CASE room[t.call].role # "netlogger"
    BY <1>2, <1>3, <2>2 DEF MayBegin, Level, Roles, ManagerRoles
  <2> QED
    BY <2>1, <2>2
<1>5. t.by # t.call /\ t.by # t.new /\ t.call # t.new
  BY <1>2, <1>4, <1>3 DEF MayBegin, Level, ManagerRoles
<1>6. Standing(t)
  BY <1>2, <1>3, <1>4, <1>5 DEF Standing, MayBegin, MyRole
<1>7. Phase(t)
  BY <1>2 DEF Phase, Undoing, MayBegin, Logged
<1> QED
  BY <1>6, <1>7

LEMMA SoundClick ==
    ASSUME CInv, NEW t \in Task, tasks' = Append(tasks, t), UNCHANGED room,
           \A m \in Managers : page'[m].view = page[m].view,
           t.on \in {t.call, t.new}, t.kind = "correct" => MayBegin(t)
    PROVE  Corrections'
<1>1. tasks \in Seq(Task)
  BY DEF CInv, TypeInv, TypeOK
<1>2. PICK n : /\ DOMAIN tasks' = DOMAIN tasks \cup {n} /\ n \notin DOMAIN tasks
               /\ tasks'[n] = t /\ \A k \in DOMAIN tasks : tasks'[k] = tasks[k]
  BY <1>1
<1>3. \A c : Untouched(c)' => Untouched(c) /\ ~Touches(t, c)
  BY <1>2 DEF Untouched, Touches
<1>4. Fresh'
  BY <1>3 DEF Fresh, CInv, Corrections
<1>5. OnFits'
  BY <1>2 DEF OnFits, CInv, Corrections
<1>6. ASSUME NEW u, u.by \in Managers, Standing(u), Phase(u) PROVE Standing(u)' /\ Phase(u)'
  <2>1. Phase(u)'
    BY <1>6 DEF Phase, Undoing, Adding, Restoring, GivingRole, Ended, Logged
  <2>2. Standing(u)'
    BY <1>6 DEF Standing, MyRole
  <2> QED
    BY <2>1, <2>2
<1>7. ASSUME NEW k \in DOMAIN tasks PROVE Sound(k)'
  <2> SUFFICES ASSUME tasks[k].kind = "correct", ~tasks[k].lost, Alone(k)' PROVE Standing(tasks[k])' /\ Phase(tasks[k])'
    BY <1>2, <1>7 DEF Sound
  <2>1. Alone(k)
    BY <1>2, <1>7 DEF Alone, Touches
  <2>2. PICK u : u = tasks[k]
    OBVIOUS
  <2>3. Standing(u) /\ Phase(u) /\ u.by \in Managers
    BY <1>7, <2>1, <2>2, TaskShape DEF CInv, Corrections, Sound
  <2>4. tasks'[k] = u
    BY <1>2, <1>7, <2>2
  <2> QED
    BY <1>6, <2>3, <2>4
<1>8. Sound(n)'
  <2> SUFFICES ASSUME t.kind = "correct", Alone(n)' PROVE Standing(t)' /\ Phase(t)'
    BY <1>2 DEF Sound
  <2>1. Untouched(t.by) /\ Untouched(t.call) /\ Untouched(t.new)
    BY <1>2 DEF Alone, Untouched
  <2> QED
    BY <1>6, <2>1, BeginsSound DEF Task
<1> QED
  BY <1>2, <1>4, <1>5, <1>7, <1>8 DEF Corrections

LEMMA SoundRefresh ==
    ASSUME CInv, NEW m \in Managers, Refresh(m)
    PROVE  Corrections'
<1>1. /\ UNCHANGED <<room, tasks>> /\ page'[m].view = room /\ \A n \in Managers \ {m} : page'[n] = page[n]
  BY PageShape DEF Refresh, CInv, PageType
<1>2. Fresh' /\ OnFits'
  BY <1>1 DEF CInv, Corrections, Fresh, OnFits, Untouched
<1>3. ASSUME NEW k \in DOMAIN tasks PROVE Sound(k)'
  <2> SUFFICES ASSUME tasks[k].kind = "correct", ~tasks[k].lost, Alone(k) PROVE Standing(tasks[k])' /\ Phase(tasks[k])'
    BY <1>1 DEF Sound, Alone
  <2>1. Standing(tasks[k]) /\ Phase(tasks[k])
    BY <1>3 DEF CInv, Corrections, Sound
  <2>2. tasks[k].by \in Managers
    BY <1>3, TaskShape DEF CInv
  <2>3. Standing(tasks[k])'
    BY <1>1, <2>1, <2>2 DEF Standing, MyRole
  <2>4. Phase(tasks[k])'
    BY <1>1, <2>1 DEF Phase, Undoing, Adding, Restoring, GivingRole, Ended, Logged, Add
  <2> QED
    BY <2>3, <2>4
<1> QED
  BY <1>1, <1>2, <1>3 DEF Corrections

\* The clicks of a page, each as the task it begins.
LEMMA SoundPages ==
    ASSUME CInv, NEW m \in Managers, Correct(m) \/ CheckIn(m) \/ CheckOut(m) \/ MarkInOut(m) \/ ChangeRole(m)
    PROVE  Corrections'
<1>1. ASSUME NEW kind \in {"correct", "check", "checkout", "tag", "role"}, NEW call \in Calls, NEW new \in Calls,
             NEW verb \in Verbs, Click(Started(m, kind, call, new, verb, call)),
             kind = "correct" => MayBegin(Started(m, kind, call, new, verb, call))
      PROVE  Corrections'
  <2>1. PICK t : t = Started(m, kind, call, new, verb, call)
    OBVIOUS
  <2>2. t \in Task
    BY <2>1, StartFits DEF Fits, CInv
  <2>3. t.on \in {t.call, t.new} /\ t.kind = kind
    BY <2>1 DEF Started
  <2> QED
    BY <1>1, <2>1, <2>2, <2>3, SoundClick DEF Click
<1>2. ASSUME NEW call \in Calls, NEW p, PageClick(m, call, p), p.view = page[m].view
      PROVE  Corrections'
  <2> DEFINE start == Started(m, "tag", call, call, "i", call)
  <2>1. PICK t : t = Done(start)
    OBVIOUS
  <2>2. start \in Task /\ Fits(start)
    BY StartFits DEF Fits, CInv, Verbs, CheckVerbs
  <2>3. t \in Task
    BY <2>1, <2>2, DoneFits DEF Fits
  <2>4. t.on \in {t.call, t.new} /\ t.kind # "correct"
    BY <2>1 DEF Started, Done
  <2>5. \A n \in Managers : page'[n].view = page[n].view
    BY <1>2, PageShape DEF PageClick, CInv
  <2> QED
    BY <1>2, <2>1, <2>3, <2>4, <2>5, SoundClick DEF PageClick
<1>3. CASE Correct(m)
  <2>1. PICK old \in Calls, new \in Calls :
            /\ CanManage(m)
            /\ page[m].view[old].in \in {"in", "out"} /\ page[m].view[new].in = "absent"
            /\ page[m].view[old].role # "netcontrol"
            /\ page[m].view[old].role = "netlogger" => MyRole(m) = "netcontrol"
            /\ Click(Started(m, "correct", old, new, "ui", old))
    BY <1>3 DEF Correct
  <2>2. MayBegin(Started(m, "correct", old, new, "ui", old))
    BY <2>1 DEF MayBegin, Started
  <2> QED
    BY <1>1, <2>1, <2>2 DEF Verbs, CheckVerbs
<1>4. CASE CheckIn(m)
  BY <1>1, <1>4 DEF CheckIn, Verbs, CheckVerbs
<1>5. CASE CheckOut(m)
  BY <1>1, <1>5 DEF CheckOut, Verbs, CheckVerbs
<1>6. CASE MarkInOut(m)
  <2>1. PICK call \in Calls :
            \/ Click(Started(m, "check", call, call, "io", call))
            \/ \E io : PageClick(m, call, [page[m] EXCEPT !.io = io])
    BY <1>6 DEF MarkInOut
  <2>2. \A io : [page[m] EXCEPT !.io = io].view = page[m].view
    BY PageShape DEF CInv, PageType
  <2> QED
    BY <1>1, <1>2, <2>1, <2>2 DEF Verbs, CheckVerbs
<1>7. CASE ChangeRole(m)
  <2>1. PICK call \in Calls, desired \in Roles :
            \/ /\ RoleVerb(m, call, desired) # None
               /\ Click(Started(m, "role", call, call, RoleVerb(m, call, desired), call))
            \/ PageClick(m, call, [page[m] EXCEPT !.pending[call] = desired])
    BY <1>7 DEF ChangeRole
  <2>2. [page[m] EXCEPT !.pending[call] = desired].view = page[m].view
    BY PageShape DEF CInv, PageType
  <2>3. RoleVerb(m, call, desired) \in Verbs \cup {None}
    BY RoleVerbs DEF CInv
  <2> QED
    BY <1>1, <1>2, <2>1, <2>2, <2>3
<1> QED
  BY <1>3, <1>4, <1>5, <1>6, <1>7

LEMMA CorrectionsStart == Init => Corrections
<1> SUFFICES ASSUME Init PROVE Corrections
  OBVIOUS
<1>1. OnFits /\ \A k \in DOMAIN tasks : Sound(k)
  BY DEF Init, OnFits
<1>2. \A c \in Managers : room[c].in = "in"
  BY DEF Init
<1>3. Fresh
  BY <1>2 DEF Init, Fresh
<1> QED
  BY <1>1, <1>3 DEF Corrections

LEMMA CorrectionsKept == CInv /\ [Next]_vars => Corrections'
<1> SUFFICES ASSUME CInv, [Next]_vars PROVE Corrections'
  OBVIOUS
<1>1. CASE UNCHANGED vars
  BY <1>1 DEF vars, CInv, Corrections, OnFits, Fresh, Untouched, Sound, Alone, Standing, MyRole, Phase, Undoing,
     Adding,
              Restoring, GivingRole, Ended, Logged
<1> QED
  BY <1>1, SoundPages, SoundRefresh, SoundSteps DEF Next

LEMMA EndsLogged == CInv => NobodyIsLost
<1> SUFFICES ASSUME CInv, NEW k \in DOMAIN tasks, tasks[k].kind = "correct", tasks[k].stage = "done", ~tasks[k].lost, Alone(k)
             PROVE  Logged(tasks[k].call) \/ Logged(tasks[k].new)
  BY DEF NobodyIsLost
<1>1. Phase(tasks[k])
  BY DEF CInv, Corrections, Sound
<1> QED
  BY <1>1 DEF Phase, Undoing, Adding, Restoring, GivingRole, Ended

\* However the commands of a correction are refused or fail, and at whichever of them, the station ends logged under
\* its old callsign or its new one: the add that fails is followed by a restore that no rule refuses, because the
\* operator outranks the station from the first command to the last (correctCallsign).
THEOREM CorrectionKeepsStation == Spec => []NobodyIsLost
<1>1. Init => CInv
  BY TypeStart, BusyHeldStart, CorrectionsStart DEF CInv
<1>2. CInv /\ [Next]_vars => CInv'
  BY TypeKept, BusyHeldAlways, CorrectionsKept DEF CInv
<1> QED
  BY <1>1, <1>2, EndsLogged, PTL DEF Spec

-----------------------------------------------------------------------------
(* The marks: what pages share of them and how they save it.               *)

Given == MaxMarks \in Nat /\ MaxNets \in Nat \ {0} /\ MarkKinds \subseteq {"i", "o", "ui", "io"}

\* A page whose saves are under way one at a time, and which selects what it shows as checked in;
\* before its first refresh it shows nothing.
MarksSound(pg) ==
    /\ pg \in Shared!Page
    /\ pg.selected # None => pg.seen[pg.selected] = "active"
    /\ ~pg.known => \A c \in Others : pg.seen[c] = "absent"
    /\ \A s, t \in pg.posts : s = t
    /\ \A s \in pg.posts : s.n <= pg.edited
    /\ pg.edited > pg.snapped => pg.timer \/ (pg.again /\ pg.posts # {})

\* What is stored is not newer than the changes of its page, nor than a save that is yet to come.
Follows(p) ==
    loggerState # None /\ loggerState.by = p =>
        /\ loggerState.n <= pages[p].edited
        /\ \A s \in pages[p].posts : s.stamp = 0 => loggerState.n <= s.n

MarksInv ==
    /\ net \in 1 .. MaxNets /\ stations \in [Others -> Shared!Standings]
    /\ marks \in 0 .. MaxMarks /\ cache \in Shared!View \cup {None}
    /\ clock \in Nat /\ loggerState \in Shared!State \cup {None}
    /\ pages \in [(Managers \cup Viewers) -> Shared!Page]
    /\ \A p \in Managers \cup Viewers : MarksSound(pages[p])

\* The fields of a page, without what they hold.
Nets == 0 .. MaxNets
SeenSets == [Others -> Shared!Standings]
TagSets == SUBSET (Others \X Shared!Tags)
CallSets == SUBSET Others
Choices == Others \cup {None}
Signatures == Shared!Body \cup {None}
Posts == SUBSET [n : Nat, body : Shared!Body, stamp : Nat]
Commands == SUBSET [call : Others, kind : MarkKinds, before : Shared!Standings]

LEMMA PageIs ==
    Shared!Page = [net : Nets, seen : SeenSets, known : BOOLEAN, tags : TagSets, hidden : CallSets, selected : Choices,
            away : CallSets, rev : Nat, sig : Signatures, timer : BOOLEAN, later : Nat, again : BOOLEAN,
            busy : CallSets, posts : Posts, commands : Commands, edited : Nat, snapped : Nat]
  BY DEF Shared!Page, Nets, SeenSets, TagSets, CallSets, Choices, Signatures, Posts, Commands

\* What Sound says of a page but for its fields' sets.
Selects(pg) ==
    /\ pg.selected # None => pg.seen[pg.selected] = "active"
    /\ ~pg.known => \A c \in Others : pg.seen[c] = "absent"
Saves(pg) ==
    /\ \A s, t \in pg.posts : s = t
    /\ \A s \in pg.posts : s.n <= pg.edited
    /\ pg.edited > pg.snapped => pg.timer \/ (pg.again /\ pg.posts # {})

LEMMA SoundIs == \A pg : MarksSound(pg) <=> pg \in Shared!Page /\ Selects(pg) /\ Saves(pg)
  BY DEF MarksSound, Selects, Saves

\* A change of the marks only.
LEMMA SamePosts ==
    ASSUME NEW pg \in Shared!Page, Saves(pg)
    PROVE  Saves([pg EXCEPT !.timer = TRUE, !.edited = @ + 1])
<1> DEFINE next == [pg EXCEPT !.timer = TRUE, !.edited = @ + 1]
<1>1. /\ next.posts = pg.posts /\ next.timer /\ next.edited = pg.edited + 1 /\ pg.edited \in Nat
      /\ \A s \in pg.posts : s.n \in Nat
  <2>1. pg.posts \in Posts
    BY PageIs
  <2>2. next.posts = pg.posts /\ next.timer /\ next.edited = pg.edited + 1 /\ pg.edited \in Nat
    BY PageIs
  <2> QED
    BY <2>1, <2>2 DEF Posts
<1> HIDE DEF next
<1> QED
  BY <1>1 DEF Saves

LEMMA PublishedSound ==
    ASSUME NEW p \in Managers \cup Viewers, NEW pg, MarksSound(pg)
    PROVE  /\ MarksSound(Shared!Published(p, pg))
           /\ Shared!Published(p, pg).edited >= pg.edited /\ Shared!Published(p, pg).posts = pg.posts
           /\ Shared!Published(p, pg).seen = pg.seen /\ Shared!Published(p, pg).known = pg.known
           /\ Shared!Published(p, pg).selected = pg.selected
<1>0. pg \in Shared!Page /\ Selects(pg) /\ Saves(pg) /\ pg.edited \in Nat
  BY SoundIs, PageIs
<1> DEFINE next == [pg EXCEPT !.timer = TRUE, !.edited = @ + 1]
<1>1. /\ next \in Shared!Page /\ next.posts = pg.posts /\ next.edited = pg.edited + 1 /\ next.seen = pg.seen
      /\ next.known = pg.known /\ next.selected = pg.selected
  <2> DEFINE more == pg.edited + 1
  <2>1. more \in Nat
    BY <1>0
  <2> HIDE DEF more
  <2>2. [pg EXCEPT !.timer = TRUE, !.edited = more] \in Shared!Page
    BY <1>0, <2>1, PageIs
  <2>3. next \in Shared!Page
    BY <2>2 DEF more
  <2> QED
    BY <1>0, <2>3, PageIs
<1>2. Saves(next)
  BY <1>0, SamePosts
<1>3. CASE p \in Managers
  <2>1. Shared!Published(p, pg) = next
    BY <1>3 DEF Shared!Published
  <2> HIDE DEF next
  <2>2. MarksSound(next)
    BY <1>0, <1>1, <1>2, SoundIs DEF Selects
  <2> QED
    BY <1>0, <1>1, <2>1, <2>2
<1>4. CASE p \notin Managers
  <2>1. Shared!Published(p, pg) = pg
    BY <1>4 DEF Shared!Published
  <2> QED
    BY <1>0, <2>1
<1> QED
  BY <1>3, <1>4

LEMMA SnapshotTyped == ASSUME NEW pg \in Shared!Page PROVE Shared!Snapshot(pg) \in Shared!Body
  BY DEF Shared!Snapshot, Shared!Body, Shared!Page

\* A save that reads the page when none is under way.
LEMMA SaveOnceSound ==
    ASSUME NEW pg \in Shared!Page, pg.posts = {}, Selects(pg)
    PROVE  /\ MarksSound(Shared!SaveOnce(pg)) /\ Shared!SaveOnce(pg).edited = pg.edited
           /\ \A s \in Shared!SaveOnce(pg).posts : s.n = pg.edited
<1>1. Shared!Snapshot(pg) \in Shared!Body
  BY SnapshotTyped
<1> DEFINE body == Shared!Snapshot(pg)
           read == [pg EXCEPT !.snapped = pg.edited, !.again = FALSE]
           save == [n |-> pg.edited, body |-> body, stamp |-> 0]
           saving == [read EXCEPT !.posts = @ \cup {save}]
<1> HIDE DEF body
<1>2. pg.edited \in Nat /\ pg.posts \in Posts
  BY PageIs
<1>3. save \in [n : Nat, body : Shared!Body, stamp : Nat] /\ save.n = pg.edited
  BY <1>1, <1>2 DEF body
<1>4. pg.posts \cup {save} \in Posts
  BY <1>2, <1>3 DEF Posts
<1> HIDE DEF save
<1>5. /\ read \in Shared!Page /\ read.edited = pg.edited /\ read.snapped = pg.edited /\ read.posts = {}
      /\ read.seen = pg.seen /\ read.selected = pg.selected /\ read.known = pg.known
  BY <1>2, PageIs
<1>6. /\ saving \in Shared!Page /\ saving.posts = {save} /\ saving.edited = pg.edited /\ saving.snapped = pg.edited
      /\ saving.seen = pg.seen /\ saving.selected = pg.selected /\ saving.known = pg.known
  BY <1>2, <1>4, PageIs
<1>7. Shared!SaveOnce(pg) = IF body = pg.sig THEN read ELSE saving
  BY DEF Shared!SaveOnce, body, save
<1> HIDE DEF read, saving
<1>8. MarksSound(read)
  BY <1>2, <1>5, SoundIs DEF Selects, Saves
<1>9. MarksSound(saving)
  BY <1>2, <1>3, <1>6, SoundIs DEF Selects, Saves
<1> QED
  BY <1>3, <1>5, <1>6, <1>7, <1>8, <1>9

\* A save that is through, whatever came of it.
LEMMA DrainedSound ==
    ASSUME NEW pg \in Shared!Page, pg.posts = {}, Selects(pg), pg.edited > pg.snapped => pg.timer \/ pg.again
    PROVE  /\ MarksSound(Shared!Drained(pg)) /\ Shared!Drained(pg).edited = pg.edited
           /\ \A s \in Shared!Drained(pg).posts : s.n = pg.edited
<1>1. CASE pg.again
  BY <1>1, SaveOnceSound DEF Shared!Drained
<1>2. CASE ~pg.again
  <2>1. Saves(pg)
    BY <1>2 DEF Saves
  <2> QED
    BY <1>2, <2>1, SoundIs DEF Shared!Drained
<1> QED
  BY <1>1, <1>2

\* A page with other marks, of the same net or another.
Marked(pg, t, h, a, c, n) == [pg EXCEPT !.tags = t, !.hidden = h, !.away = a, !.selected = c, !.net = n]

LEMMA MarkedSound ==
    ASSUME NEW pg, MarksSound(pg), NEW t \in TagSets, NEW h \in CallSets, NEW a \in CallSets, NEW c \in Choices,
           NEW n \in Nets, c # None => pg.seen[c] = "active"
    PROVE  /\ MarksSound(Marked(pg, t, h, a, c, n)) /\ Marked(pg, t, h, a, c, n).posts = pg.posts
           /\ Marked(pg, t, h, a, c, n).edited = pg.edited
           /\ Marked(pg, t, h, a, c, n).seen = pg.seen /\ Marked(pg, t, h, a, c, n).known = pg.known
<1> DEFINE next == Marked(pg, t, h, a, c, n)
<1>0. pg \in Shared!Page /\ Selects(pg) /\ Saves(pg)
  BY SoundIs
<1>1. /\ next \in Shared!Page /\ next.posts = pg.posts /\ next.edited = pg.edited /\ next.snapped = pg.snapped
      /\ next.timer = pg.timer /\ next.again = pg.again /\ next.seen = pg.seen /\ next.known = pg.known
      /\ next.selected = c
  BY <1>0, PageIs DEF Marked
<1> HIDE DEF next
<1>2. Selects(next) /\ Saves(next)
  BY <1>0, <1>1 DEF Selects, Saves
<1>3. MarksSound(next)
  BY <1>1, <1>2, SoundIs
<1> QED
  BY <1>1, <1>3 DEF next

-----------------------------------------------------------------------------
(* What one page's step does to it. *)

\* A step that changes the state of page p, but not what is stored: its number of changes does not go
\* back, and a save it begins is of all of them.
Goes(p, next) ==
    /\ MarksSound(next) /\ next.edited >= pages[p].edited
    /\ \A s \in next.posts : s \in pages[p].posts \/ s.n = next.edited

LEMMA MarkedPage ==
    ASSUME MarksInv, NEW p \in (Managers \cup Viewers)
    PROVE  MarksSound(pages[p]) /\ pages[p] \in Shared!Page /\ pages[p].edited \in Nat
<1>1. MarksSound(pages[p]) /\ pages[p] \in Shared!Page
  BY DEF MarksInv
<1> QED
  BY <1>1, PageIs

LEMMA Stays == ASSUME MarksInv, NEW p \in (Managers \cup Viewers) PROVE Goes(p, pages[p])
  BY MarkedPage DEF Goes

LEMMA PublishedGoes ==
    ASSUME MarksInv, NEW p \in Managers \cup Viewers, NEW pg, Goes(p, pg), pg.edited = pages[p].edited, pg.posts = pages[p].posts
    PROVE  Goes(p, Shared!Published(p, pg))
<1>1. MarksSound(pg)
  BY DEF Goes
<1> QED
  BY <1>1, PublishedSound DEF Goes

LEMMA MarksGo ==
    ASSUME MarksInv, NEW p \in Managers \cup Viewers, NEW t \in TagSets, NEW h \in CallSets, NEW a \in CallSets, NEW c \in Choices,
           NEW n \in Nets, c # None => pages[p].seen[c] = "active"
    PROVE  LET next == Marked(pages[p], t, h, a, c, n) IN Goes(p, next) /\ Goes(p, Shared!Published(p, next))
<1> DEFINE next == Marked(pages[p], t, h, a, c, n)
<1>1. MarksSound(next) /\ next.posts = pages[p].posts /\ next.edited = pages[p].edited /\ pages[p].edited \in Nat
  BY MarkedPage, MarkedSound
<1> HIDE DEF next
<1>2. Goes(p, next)
  BY <1>1 DEF Goes
<1>3. Goes(p, Shared!Published(p, next))
  BY <1>1, <1>2, PublishedGoes
<1> QED
  BY <1>2, <1>3 DEF next

\* What a step changes beside marks and saves does not matter to them.
LEMMA KeptSound ==
    ASSUME NEW pg, MarksSound(pg), NEW next \in Shared!Page,
           next.posts = pg.posts, next.edited = pg.edited, next.snapped = pg.snapped, next.timer = pg.timer,
           next.again = pg.again, next.seen = pg.seen, next.selected = pg.selected, next.known = pg.known
    PROVE  MarksSound(next)
  BY SoundIs DEF Selects, Saves

\* A mark alone.
LEMMA MarkedAlone ==
    ASSUME NEW pg \in Shared!Page, NEW t, NEW h, NEW c
    PROVE  /\ [pg EXCEPT !.tags = t] = Marked(pg, t, pg.hidden, pg.away, pg.selected, pg.net)
           /\ [pg EXCEPT !.hidden = h] = Marked(pg, pg.tags, h, pg.away, pg.selected, pg.net)
           /\ [pg EXCEPT !.selected = c] = Marked(pg, pg.tags, pg.hidden, pg.away, c, pg.net)
           /\ [pg EXCEPT !.tags = t, !.hidden = h, !.net = 0] = Marked(pg, t, h, pg.away, pg.selected, 0)
  BY PageIs DEF Marked

LEMMA Fields ==
    ASSUME NEW pg \in Shared!Page
    PROVE  /\ pg.net \in Nets /\ pg.tags \in TagSets /\ pg.hidden \in CallSets /\ pg.selected \in Choices
           /\ pg.away \in CallSets /\ pg.posts \in Posts /\ pg.commands \in Commands /\ pg.seen \in SeenSets
           /\ pg.busy \in CallSets /\ pg.later \in Nat /\ pg.edited \in Nat /\ pg.snapped \in Nat /\ pg.rev \in Nat
  BY PageIs

\* The step of a page.
PageGoes(p) == \E next : Goes(p, next) /\ pages' = [pages EXCEPT ![p] = next]

LEMMA EditGoes ==
    ASSUME MarksInv, Given, NEW p \in Managers \cup Viewers, NEW c \in Others, Shared!Tag(p, c) \/ Shared!Select(p, c)
        \/ Shared!Hide(p, c)
    PROVE  PageGoes(p)
<1> DEFINE pg == pages[p]
<1>0. pg \in Shared!Page /\ MarksSound(pg) /\ Selects(pg)
  BY MarkedPage, SoundIs
<1>f. pg.net \in Nets /\ pg.tags \in TagSets /\ pg.hidden \in CallSets /\ pg.selected \in Choices /\ pg.away \in CallSets
  BY <1>0, Fields
<1>s. pg.selected # None => pg.seen[pg.selected] = "active"
  BY <1>0 DEF Selects
<1>m. ASSUME NEW t \in TagSets, NEW h \in CallSets, NEW k \in Choices, NEW n \in Nets,
             k # None => pg.seen[k] = "active",
             pages' = [pages EXCEPT ![p] = Shared!Published(p, Marked(pg, t, h, pg.away, k, n))]
      PROVE  PageGoes(p)
  BY <1>f, <1>m, MarksGo DEF PageGoes
<1> HIDE DEF pg
<1>1. CASE Shared!Tag(p, c)
  <2> DEFINE t == (pg.tags \cup {<<c, "next">>}) \ (pg.tags \cap {<<c, "next">>})
  <2>1. t \in TagSets
    BY <1>f DEF TagSets, Shared!Tags
  <2>2. pages' = [pages EXCEPT ![p] = Shared!Published(p, [pg EXCEPT !.tags = t])]
    BY <1>1 DEF Shared!Tag, pg
  <2> HIDE DEF t
  <2>3. pages' = [pages EXCEPT ![p] = Shared!Published(p, Marked(pg, t, pg.hidden, pg.away, pg.selected, pg.net))]
    BY <1>0, <2>2, MarkedAlone
  <2> QED
    BY <1>f, <1>s, <1>m, <2>1, <2>3
<1>2. CASE Shared!Select(p, c)
  <2> DEFINE k == IF pg.selected = c THEN None ELSE c
  <2>1. k \in Choices /\ (k # None => pg.seen[k] = "active")
    BY <1>2 DEF Choices, Shared!Select, pg
  <2>2. pages' = [pages EXCEPT ![p] = Shared!Published(p, [pg EXCEPT !.selected = k])]
    BY <1>2 DEF Shared!Select, pg
  <2> HIDE DEF k
  <2>3. pages' = [pages EXCEPT ![p] = Shared!Published(p, Marked(pg, pg.tags, pg.hidden, pg.away, k, pg.net))]
    BY <1>0, <2>2, MarkedAlone
  <2> QED
    BY <1>f, <1>m, <2>1, <2>3
<1>3. CASE Shared!Hide(p, c)
  <2> DEFINE h == pg.hidden \cup {c}
  <2>1. h \in CallSets
    BY <1>f DEF CallSets
  <2>2. pages' = [pages EXCEPT ![p] = Shared!Published(p, [pg EXCEPT !.hidden = h])]
    BY <1>3 DEF Shared!Hide, pg
  <2> HIDE DEF h
  <2>3. pages' = [pages EXCEPT ![p] = Shared!Published(p, Marked(pg, pg.tags, h, pg.away, pg.selected, pg.net))]
    BY <1>0, <2>2, MarkedAlone
  <2> QED
    BY <1>f, <1>s, <1>m, <2>1, <2>3
<1> QED
  BY <1>1, <1>2, <1>3

LEMMA ClearGoes == ASSUME MarksInv, Given, NEW p \in Managers \cup Viewers, Shared!Clear(p) PROVE PageGoes(p)
<1> DEFINE pg == pages[p]
<1>0. pg \in Shared!Page /\ Selects(pg)
  BY MarkedPage, SoundIs
<1>1. pg.selected \in Choices /\ pg.away \in CallSets /\ {} \in TagSets /\ {} \in CallSets /\ 0 \in Nets
  BY <1>0, Fields DEF TagSets, CallSets, Nets, Given
<1>2. pages' = [pages EXCEPT ![p] = Shared!Published(p, Marked(pg, {}, {}, pg.away, pg.selected, 0))]
  <2>1. pages' = [pages EXCEPT ![p] = Shared!Published(p, [pg EXCEPT !.tags = {}, !.hidden = {}, !.net = 0])]
    BY DEF Shared!Clear
  <2> QED
    BY <1>0, <2>1, MarkedAlone
<1>3. pg.selected # None => pg.seen[pg.selected] = "active"
  BY <1>0 DEF Selects
<1>4. Goes(p, Shared!Published(p, Marked(pg, {}, {}, pg.away, pg.selected, 0)))
  BY <1>1, <1>3, MarksGo
<1> QED
  BY <1>2, <1>4 DEF PageGoes

LEMMA SaveGoes ==
    ASSUME MarksInv, NEW p \in Managers \cup Viewers, Shared!SaveTimer(p) \/ Shared!SaveAnswered(p) \/ Shared!SaveFails(p)
    PROVE  PageGoes(p)
<1>0. pages[p] \in Shared!Page /\ Selects(pages[p]) /\ Saves(pages[p])
  BY MarkedPage, SoundIs
<1>f. pages[p].posts \in Posts /\ pages[p].edited \in Nat /\ pages[p].snapped \in Nat
  BY <1>0, Fields
<1>1. CASE Shared!SaveTimer(p)
  <2> DEFINE pg == [pages[p] EXCEPT !.timer = FALSE]
             more == [pg EXCEPT !.again = TRUE]
  <2>1. /\ pg \in Shared!Page /\ pg.posts = pages[p].posts /\ pg.edited = pages[p].edited /\ pg.seen = pages[p].seen
        /\ pg.selected = pages[p].selected /\ pg.known = pages[p].known
    BY <1>0, PageIs
  <2>2. /\ more \in Shared!Page /\ more.posts = pages[p].posts /\ more.edited = pages[p].edited
           /\ more.seen = pages[p].seen
        /\ more.selected = pages[p].selected /\ more.known = pages[p].known /\ more.again = TRUE
    BY <1>0, PageIs
  <2>3. pages' = [pages EXCEPT ![p] = IF pg.posts # {} THEN more ELSE Shared!SaveOnce(pg)]
    BY <1>1 DEF Shared!SaveTimer
  <2> HIDE DEF pg, more
  <2>4. CASE pg.posts # {}
    <3>1. MarksSound(more)
      BY <1>0, <2>1, <2>2, <2>4, SoundIs DEF Selects, Saves
    <3>2. Goes(p, more)
      BY <1>f, <2>2, <3>1 DEF Goes
    <3> QED
      BY <2>3, <2>4, <3>2 DEF PageGoes
  <2>5. CASE pg.posts = {}
    <3>1. Selects(pg)
      BY <1>0, <2>1 DEF Selects
    <3>2. Goes(p, Shared!SaveOnce(pg))
      BY <1>f, <2>1, <2>5, <3>1, SaveOnceSound DEF Goes
    <3> QED
      BY <2>3, <2>5, <3>2 DEF PageGoes
  <2> QED
    BY <2>4, <2>5
<1>2. ASSUME NEW pg \in Shared!Page, NEW s \in pages[p].posts, pg.posts = pages[p].posts \ {s},
             pg.edited = pages[p].edited, pg.snapped = pages[p].snapped, pg.timer = pages[p].timer,
             pg.again = pages[p].again, pg.seen = pages[p].seen, pg.selected = pages[p].selected,
             pg.known = pages[p].known, pages' = [pages EXCEPT ![p] = Shared!Drained(pg)]
      PROVE  PageGoes(p)
  <2>1. pg.posts = {}
    BY <1>0, <1>2 DEF Saves
  <2>2. Selects(pg) /\ (pg.edited > pg.snapped => pg.timer \/ pg.again)
    BY <1>0, <1>2 DEF Selects, Saves
  <2>3. Goes(p, Shared!Drained(pg))
    BY <1>2, <1>f, <2>1, <2>2, DrainedSound DEF Goes
  <2> QED
    BY <1>2, <2>3 DEF PageGoes
<1>3. CASE Shared!SaveAnswered(p)
  <2>1. PICK s \in pages[p].posts :
           pages' = [pages EXCEPT ![p] = Shared!Drained([pages[p] EXCEPT !.posts = @ \ {s}, !.rev = s.stamp, !.sig = s.body])]
    BY <1>3 DEF Shared!SaveAnswered
  <2> DEFINE left == pages[p].posts \ {s}
             pg == [pages[p] EXCEPT !.posts = left, !.rev = s.stamp, !.sig = s.body]
  <2>2. left \in Posts /\ s.stamp \in Nat /\ s.body \in Signatures
    BY <1>f DEF Posts, Signatures
  <2>3. pages' = [pages EXCEPT ![p] = Shared!Drained(pg)]
    BY <2>1
  <2> HIDE DEF left
  <2>4. /\ pg \in Shared!Page /\ pg.posts = left /\ pg.edited = pages[p].edited /\ pg.snapped = pages[p].snapped
        /\ pg.timer = pages[p].timer /\ pg.again = pages[p].again /\ pg.seen = pages[p].seen
        /\ pg.selected = pages[p].selected /\ pg.known = pages[p].known
    BY <1>0, <2>2, PageIs
  <2> HIDE DEF pg
  <2> QED
    BY <1>2, <2>3, <2>4 DEF left
<1>4. CASE Shared!SaveFails(p)
  <2>1. PICK s \in pages[p].posts : pages' = [pages EXCEPT ![p] = Shared!Drained([pages[p] EXCEPT !.posts = @ \ {s}])]
    BY <1>4 DEF Shared!SaveFails
  <2> DEFINE left == pages[p].posts \ {s}
             pg == [pages[p] EXCEPT !.posts = left]
  <2>2. left \in Posts
    BY <1>f DEF Posts
  <2>3. pages' = [pages EXCEPT ![p] = Shared!Drained(pg)]
    BY <2>1
  <2> HIDE DEF left
  <2>4. /\ pg \in Shared!Page /\ pg.posts = left /\ pg.edited = pages[p].edited /\ pg.snapped = pages[p].snapped
        /\ pg.timer = pages[p].timer /\ pg.again = pages[p].again /\ pg.seen = pages[p].seen
        /\ pg.selected = pages[p].selected /\ pg.known = pages[p].known
    BY <1>0, <2>2, PageIs
  <2> HIDE DEF pg
  <2> QED
    BY <1>2, <2>3, <2>4 DEF left
<1> QED
  BY <1>1, <1>3, <1>4

-----------------------------------------------------------------------------
(* Steps which publish only sometimes. *)

\* A page with the saves of page p, and perhaps more changes.
Alike(p, pg) == MarksSound(pg) /\ pg.posts = pages[p].posts /\ pg.edited >= pages[p].edited

LEMMA AlikeGoes == ASSUME NEW p, NEW pg, Alike(p, pg) PROVE Goes(p, pg)
  BY DEF Alike, Goes

LEMMA AlikePublished ==
    ASSUME MarksInv, NEW p \in Managers \cup Viewers, NEW pg, Alike(p, pg)
    PROVE  Alike(p, Shared!Published(p, pg))
<1>1. MarksSound(pg) /\ pg.edited \in Nat /\ pages[p].edited \in Nat
  BY MarkedPage, SoundIs, PageIs DEF Alike
<1>2. /\ MarksSound(Shared!Published(p, pg)) /\ Shared!Published(p, pg).posts = pg.posts
         /\ Shared!Published(p, pg).edited >= pg.edited
      /\ Shared!Published(p, pg).edited \in Nat
  <2>1. /\ MarksSound(Shared!Published(p, pg)) /\ Shared!Published(p, pg).posts = pg.posts
           /\ Shared!Published(p, pg).edited >= pg.edited
    BY <1>1, PublishedSound
  <2> QED
    BY <2>1, SoundIs, PageIs
<1> QED
  BY <1>1, <1>2 DEF Alike

\* What a step changes beside marks and saves does not matter to them.
LEMMA AlikeKept ==
    ASSUME NEW p, NEW pg, Alike(p, pg), NEW next \in Shared!Page,
           next.posts = pg.posts, next.edited = pg.edited, next.snapped = pg.snapped, next.timer = pg.timer,
           next.again = pg.again, next.seen = pg.seen, next.selected = pg.selected, next.known = pg.known
    PROVE  Alike(p, next)
  BY KeptSound DEF Alike

LEMMA AlikeNow == ASSUME MarksInv, NEW p \in (Managers \cup Viewers) PROVE Alike(p, pages[p])
  BY MarkedPage DEF Alike

LEMMA LaterGoes == ASSUME MarksInv, NEW p \in Managers \cup Viewers, Shared!LaterTimer(p) PROVE PageGoes(p)
<1> DEFINE fewer == pages[p].later - 1
           next == [pages[p] EXCEPT !.later = fewer]
<1>0. pages[p] \in Shared!Page /\ Alike(p, pages[p]) /\ fewer \in Nat
  BY MarkedPage, Fields, AlikeNow DEF Shared!LaterTimer
<1>1. pages' = [pages EXCEPT ![p] = Shared!Published(p, next)]
  BY DEF Shared!LaterTimer
<1> HIDE DEF fewer
<1>2. /\ next \in Shared!Page /\ next.posts = pages[p].posts /\ next.edited = pages[p].edited
      /\ next.snapped = pages[p].snapped /\ next.timer = pages[p].timer /\ next.again = pages[p].again
      /\ next.seen = pages[p].seen /\ next.selected = pages[p].selected /\ next.known = pages[p].known
  BY <1>0, PageIs
<1> HIDE DEF next
<1>3. Alike(p, next)
  BY <1>0, <1>2, AlikeKept
<1> QED
  BY <1>1, <1>3, AlikePublished, AlikeGoes DEF PageGoes

LEMMA CommandGoes ==
    ASSUME MarksInv, NEW p \in Managers \cup Viewers, NEW c \in Others, NEW kind \in MarkKinds, Shared!Command(p, c, kind)
    PROVE  PageGoes(p)
<1> DEFINE b == pages[p].busy \cup {c}
           k == pages[p].commands \cup {[call |-> c, kind |-> kind, before |-> pages[p].seen[c]]}
           next == [pages[p] EXCEPT !.busy = b, !.commands = k]
<1>0. pages[p] \in Shared!Page /\ Alike(p, pages[p])
  BY MarkedPage, AlikeNow
<1>1. b \in CallSets /\ k \in Commands
  <2>1. pages[p].busy \in CallSets /\ pages[p].commands \in Commands /\ pages[p].seen[c] \in Shared!Standings
    BY <1>0, Fields DEF SeenSets
  <2> QED
    BY <2>1 DEF CallSets, Commands
<1>2. pages' = [pages EXCEPT ![p] = next]
  BY <1>0 DEF Shared!Command, MarksInv
<1> HIDE DEF b, k
<1>3. /\ next \in Shared!Page /\ next.posts = pages[p].posts /\ next.edited = pages[p].edited
      /\ next.snapped = pages[p].snapped /\ next.timer = pages[p].timer /\ next.again = pages[p].again
      /\ next.seen = pages[p].seen /\ next.selected = pages[p].selected /\ next.known = pages[p].known
  BY <1>0, <1>1, PageIs
<1> HIDE DEF next
<1> QED
  BY <1>0, <1>2, <1>3, AlikeKept, AlikeGoes DEF PageGoes

\* The marks of a page alike, changed.
LEMMA AlikeMarked ==
    ASSUME NEW p, NEW pg, Alike(p, pg), NEW t \in TagSets, NEW h \in CallSets, NEW a \in CallSets
    PROVE  Alike(p, [pg EXCEPT !.tags = t, !.hidden = h, !.away = a])
<1> DEFINE next == [pg EXCEPT !.tags = t, !.hidden = h, !.away = a]
<1>0. pg \in Shared!Page
  BY SoundIs DEF Alike
<1>1. /\ next \in Shared!Page /\ next.posts = pg.posts /\ next.edited = pg.edited
      /\ next.snapped = pg.snapped /\ next.timer = pg.timer /\ next.again = pg.again
      /\ next.seen = pg.seen /\ next.selected = pg.selected /\ next.known = pg.known
  BY <1>0, PageIs
<1> HIDE DEF next
<1>2. Alike(p, next)
  BY <1>1, AlikeKept
<1> QED
  BY <1>2 DEF next

\* What a command does to a page when it is answered: the same for every page.
AnsweredMarks(pg, k) == [pg EXCEPT !.busy = @ \ {k.call}, !.commands = @ \ {k}, !.later = @ + 1]
ShownMarks(p, pg, k) ==
    IF k.call \in pg.hidden
    THEN Shared!Published(p, [pg EXCEPT !.hidden = @ \ {k.call}, !.away = @ \ {k.call}]) ELSE pg
Heard(pg, k) ==
    [pg EXCEPT !.tags = IF k.before = "out" THEN @ \cup {<<k.call, "recheck">>} ELSE @ \ {<<k.call, "recheck">>}]
Left(pg, k) == [pg EXCEPT !.tags = @ \ ({k.call} \X Shared!Tags)]

LEMMA MarksTyped ==
    ASSUME NEW pg \in Shared!Page, NEW k, k.call \in Others
    PROVE  /\ pg.tags \cup {<<k.call, "recheck">>} \in TagSets /\ pg.tags \ {<<k.call, "recheck">>} \in TagSets
           /\ pg.tags \ ({k.call} \X Shared!Tags) \in TagSets /\ pg.tags \in TagSets
           /\ pg.hidden \ {k.call} \in CallSets /\ pg.away \ {k.call} \in CallSets
           /\ pg.hidden \in CallSets /\ pg.away \in CallSets
  BY Fields DEF TagSets, CallSets, Shared!Tags

LEMMA AnsweredAlike ==
    ASSUME MarksInv, NEW p \in Managers \cup Viewers, NEW k \in pages[p].commands
    PROVE  /\ k.call \in Others /\ k.kind \in MarkKinds /\ Alike(p, AnsweredMarks(pages[p], k))
<1> DEFINE pg == pages[p]
           b == pg.busy \ {k.call}
           m == pg.commands \ {k}
           l == pg.later + 1
           next == [pg EXCEPT !.busy = b, !.commands = m, !.later = l]
<1>0. pg \in Shared!Page /\ Alike(p, pg)
  BY MarkedPage, AlikeNow
<1>1. b \in CallSets /\ m \in Commands /\ l \in Nat /\ k.call \in Others /\ k.kind \in MarkKinds
  BY <1>0, Fields DEF CallSets, Commands
<1>2. AnsweredMarks(pages[p], k) = next
  BY DEF AnsweredMarks
<1> HIDE DEF b, m, l, pg
<1>3. /\ next \in Shared!Page /\ next.posts = pg.posts /\ next.edited = pg.edited
      /\ next.snapped = pg.snapped /\ next.timer = pg.timer /\ next.again = pg.again
      /\ next.seen = pg.seen /\ next.selected = pg.selected /\ next.known = pg.known
  BY <1>0, <1>1, PageIs
<1> HIDE DEF next
<1>4. Alike(p, next)
  BY <1>0, <1>3, AlikeKept
<1> QED
  BY <1>1, <1>2, <1>4

LEMMA HeardAlike ==
    ASSUME MarksInv, NEW p \in Managers \cup Viewers, NEW k, k.call \in Others, NEW pg, Alike(p, pg)
    PROVE  Alike(p, ShownMarks(p, pg, k)) /\ Alike(p, Heard(pg, k)) /\ Alike(p, Left(pg, k))
<1>0. pg \in Shared!Page
  BY SoundIs DEF Alike
<1> DEFINE t1 == IF k.before = "out" THEN pg.tags \cup {<<k.call, "recheck">>} ELSE pg.tags \ {<<k.call, "recheck">>}
           t2 == pg.tags \ ({k.call} \X Shared!Tags)
           h == pg.hidden \ {k.call}
           a == pg.away \ {k.call}
<1>1. /\ t1 \in TagSets /\ t2 \in TagSets /\ h \in CallSets /\ a \in CallSets
      /\ pg.tags \in TagSets /\ pg.hidden \in CallSets /\ pg.away \in CallSets
  BY <1>0, MarksTyped
<1>2. Heard(pg, k) = [pg EXCEPT !.tags = t1]
  BY DEF Heard
<1>3. Left(pg, k) = [pg EXCEPT !.tags = t2]
  BY DEF Left
<1>4. ShownMarks(p, pg, k) = IF k.call \in pg.hidden THEN Shared!Published(p, [pg EXCEPT !.hidden = h, !.away = a]) ELSE pg
  BY DEF ShownMarks
<1> HIDE DEF t1, t2, h, a
<1>5. /\ [pg EXCEPT !.tags = t1] = [pg EXCEPT !.tags = t1, !.hidden = pg.hidden, !.away = pg.away]
      /\ [pg EXCEPT !.tags = t2] = [pg EXCEPT !.tags = t2, !.hidden = pg.hidden, !.away = pg.away]
      /\ [pg EXCEPT !.hidden = h, !.away = a] = [pg EXCEPT !.tags = pg.tags, !.hidden = h, !.away = a]
  BY <1>0, PageIs
<1>6. /\ Alike(p, [pg EXCEPT !.tags = t1]) /\ Alike(p, [pg EXCEPT !.tags = t2])
      /\ Alike(p, [pg EXCEPT !.hidden = h, !.away = a])
  <2>1. Alike(p, [pg EXCEPT !.tags = t1, !.hidden = pg.hidden, !.away = pg.away])
    BY <1>1, AlikeMarked
  <2>2. Alike(p, [pg EXCEPT !.tags = t2, !.hidden = pg.hidden, !.away = pg.away])
    BY <1>1, AlikeMarked
  <2>3. Alike(p, [pg EXCEPT !.tags = pg.tags, !.hidden = h, !.away = a])
    BY <1>1, AlikeMarked
  <2> QED
    BY <1>5, <2>1, <2>2, <2>3
<1>7. Alike(p, Shared!Published(p, [pg EXCEPT !.hidden = h, !.away = a]))
  BY <1>6, AlikePublished
<1> QED
  BY <1>2, <1>3, <1>4, <1>6, <1>7

LEMMA CommandAnsweredGoes ==
    ASSUME MarksInv, Given, NEW p \in Managers \cup Viewers, Shared!CommandAnswered(p)
    PROVE  PageGoes(p)
<1>1. PICK k \in pages[p].commands :
        pages' = [pages EXCEPT ![p] =
                  CASE k.kind = "i" -> Shared!Published(p, Heard(ShownMarks(p, AnsweredMarks(pages[p], k), k), k))
                    [] k.kind = "io" -> ShownMarks(p, AnsweredMarks(pages[p], k), k)
                    [] k.kind = "o" -> Shared!Published(p, Left(AnsweredMarks(pages[p], k), k))
                    [] k.kind = "ui" -> AnsweredMarks(pages[p], k)]
  BY DEF Shared!CommandAnswered, AnsweredMarks, ShownMarks, Heard, Left
<1> DEFINE pg == AnsweredMarks(pages[p], k)
           heard == Shared!Published(p, Heard(ShownMarks(p, pg, k), k))
           shown == ShownMarks(p, pg, k)
           left == Shared!Published(p, Left(pg, k))
           next == CASE k.kind = "i" -> heard [] k.kind = "io" -> shown [] k.kind = "o" -> left [] k.kind = "ui" -> pg
<1>2. k.call \in Others /\ k.kind \in MarkKinds /\ Alike(p, pg)
  BY AnsweredAlike
<1> HIDE DEF pg
<1>3. Alike(p, heard) /\ Alike(p, shown) /\ Alike(p, left)
  BY <1>2, HeardAlike, AlikePublished
<1>4. pages' = [pages EXCEPT ![p] = next]
  BY <1>1 DEF pg
<1> HIDE DEF heard, shown, left
<1>5. Alike(p, next)
  BY <1>2, <1>3 DEF Given
<1> HIDE DEF next
<1> QED
  BY <1>4, <1>5, AlikeGoes DEF PageGoes

-----------------------------------------------------------------------------
(* Refreshing, and a page that is loaded again. *)

LEMMA InNetAlike ==
    ASSUME MarksInv, NEW p \in Managers \cup Viewers, NEW n \in Nets
    PROVE  Alike(p, Shared!InNet(pages[p], n))
<1> DEFINE pg == pages[p]
           next == [pg EXCEPT !.net = n, !.tags = {}, !.rev = 0, !.sig = None]
<1>0. pg \in Shared!Page /\ Alike(p, pg) /\ {} \in TagSets /\ None \in Signatures
  BY MarkedPage, AlikeNow DEF TagSets, Signatures
<1>1. Shared!InNet(pages[p], n) = IF pg.net = n THEN pg ELSE next
  BY DEF Shared!InNet
<1> HIDE DEF pg
<1>2. /\ next \in Shared!Page /\ next.posts = pg.posts /\ next.edited = pg.edited
      /\ next.snapped = pg.snapped /\ next.timer = pg.timer /\ next.again = pg.again
      /\ next.seen = pg.seen /\ next.selected = pg.selected /\ next.known = pg.known
  BY <1>0, PageIs
<1> HIDE DEF next
<1>3. Alike(p, next)
  BY <1>0, <1>2, AlikeKept
<1> QED
  BY <1>0, <1>1, <1>3

\* What is selected is checked in still, after the page has compared.
LEMMA ObservedAlike ==
    ASSUME MarksInv, NEW p \in Managers \cup Viewers, NEW pg, Alike(p, pg), NEW now \in SeenSets
    PROVE  LET next == Shared!Observed(p, pg, now)
           IN Alike(p, next) /\ (next.selected # None => now[next.selected] = "active")
<1>0. pg \in Shared!Page /\ MarksSound(pg) /\ Selects(pg)
  BY SoundIs DEF Alike
<1>f. /\ pg.tags \in TagSets /\ pg.hidden \in CallSets /\ pg.away \in CallSets /\ pg.selected \in Choices
      /\ pg.net \in Nets /\ pg.seen \in SeenSets
  BY <1>0, Fields
<1> DEFINE away == pg.away \cup {c \in pg.hidden : now[c] = "absent"}
           back == {c \in pg.hidden \cap away : now[c] # "absent"}
           returned == {c \in Others : pg.seen[c] = "out" /\ now[c] = "active"}
           left == {c \in Others : pg.seen[c] # "out" /\ now[c] = "out"}
           dropped == pg.selected # None /\ now[pg.selected] # "active"
           a == away \ back
           h == pg.hidden \ back
           t == (pg.tags \cup (returned \X {"recheck"})) \ (left \X Shared!Tags)
           s == IF dropped THEN None ELSE pg.selected
           next == [pg EXCEPT !.away = a, !.hidden = h, !.tags = t, !.selected = s]
<1>1. a \in CallSets /\ h \in CallSets
  BY <1>f DEF CallSets
<1>2. t \in TagSets
  BY <1>f DEF TagSets, Shared!Tags
<1>3. s \in Choices /\ (s # None => now[s] = "active") /\ (s # None => s = pg.selected)
  BY <1>f DEF Choices
<1>4. \/ ~pg.known /\ Shared!Observed(p, pg, now) = pg
      \/ pg.known /\ Shared!Observed(p, pg, now) \in {Shared!Published(p, next), next}
  BY DEF Shared!Observed
<1> HIDE DEF a, h, t, s
<1>5. next = Marked(pg, t, h, a, s, pg.net)
  BY <1>0, PageIs DEF Marked
<1>6. next.selected = s
  BY <1>0, PageIs
<1> HIDE DEF next
<1>7. s # None => pg.seen[s] = "active"
  BY <1>0, <1>3 DEF Selects
<1>8. MarksSound(next) /\ next.posts = pg.posts /\ next.edited = pg.edited
  BY <1>0, <1>f, <1>1, <1>2, <1>3, <1>5, <1>7, MarkedSound
<1>9. Alike(p, next)
  BY <1>8 DEF Alike
<1>10. Alike(p, Shared!Published(p, next)) /\ Shared!Published(p, next).selected = s
  BY <1>6, <1>8, <1>9, AlikePublished, PublishedSound
<1>11. ~pg.known => pg.selected = None
  BY <1>0, <1>f DEF Selects, Choices
<1> QED
  BY <1>3, <1>4, <1>6, <1>9, <1>10, <1>11

\* What the page knows is what it was told.
LEMMA SeenAlike ==
    ASSUME MarksInv, NEW p \in Managers \cup Viewers, NEW pg, Alike(p, pg), NEW now \in SeenSets,
           pg.selected # None => now[pg.selected] = "active"
    PROVE  LET next == [pg EXCEPT !.seen = now, !.known = TRUE]
           IN Alike(p, next) /\ next \in Shared!Page
<1> DEFINE next == [pg EXCEPT !.seen = now, !.known = TRUE]
<1>0. pg \in Shared!Page /\ Saves(pg)
  BY SoundIs DEF Alike
<1>1. /\ next \in Shared!Page /\ next.posts = pg.posts /\ next.edited = pg.edited
      /\ next.snapped = pg.snapped /\ next.timer = pg.timer /\ next.again = pg.again
      /\ next.seen = now /\ next.selected = pg.selected /\ next.known = TRUE
  BY <1>0, PageIs
<1> HIDE DEF next
<1>2. Selects(next) /\ Saves(next)
  BY <1>0, <1>1 DEF Selects, Saves
<1>3. Alike(p, next)
  BY <1>1, <1>2, SoundIs DEF Alike
<1> QED
  BY <1>1, <1>3 DEF next

LEMMA WithSnapshotAlike ==
    ASSUME MarksInv, NEW p \in Managers \cup Viewers, NEW pg, Alike(p, pg), NEW s \in Shared!State \cup {None}
    PROVE  Alike(p, Shared!WithSnapshot(pg, s))
<1>0. pg \in Shared!Page /\ Saves(pg) /\ Selects(pg)
  BY SoundIs DEF Alike
<1> DEFINE told == {c \in Others : pg.seen[c] # "absent"} \cup {m[1] : m \in s.body.tags}
           t == {m \in pg.tags : m[1] \notin told} \cup s.body.tags
           c == IF s.body.selected # None /\ pg.seen[s.body.selected] = "active" THEN s.body.selected ELSE None
           next == [pg EXCEPT !.rev = s.stamp, !.hidden = s.body.hidden, !.selected = c, !.tags = t]
<1>1. Shared!WithSnapshot(pg, s) = IF s = None \/ (s # None /\ s.stamp <= pg.rev) THEN pg ELSE next
  BY DEF Shared!WithSnapshot
<1>2. CASE s = None
  BY <1>1, <1>2
<1>3. CASE s # None
  <2>1. s.stamp \in Nat /\ s.body.tags \in TagSets /\ s.body.hidden \in CallSets /\ s.body.selected \in Choices
    BY <1>3 DEF Shared!State, Shared!Body, TagSets, CallSets, Choices
  <2>2. t \in TagSets
    BY <1>0, <2>1, Fields DEF TagSets
  <2>3. c \in Choices /\ (c # None => pg.seen[c] = "active")
    BY <2>1 DEF Choices
  <2> DEFINE r == s.stamp
             h == s.body.hidden
  <2> HIDE DEF t, c, r, h
  <2>4. /\ next \in Shared!Page /\ next.posts = pg.posts /\ next.edited = pg.edited
        /\ next.snapped = pg.snapped /\ next.timer = pg.timer /\ next.again = pg.again
        /\ next.seen = pg.seen /\ next.selected = c /\ next.known = pg.known
    BY <1>0, <2>1, <2>2, <2>3, PageIs
  <2> HIDE DEF next
  <2>5. Selects(next) /\ Saves(next)
    BY <1>0, <2>3, <2>4 DEF Selects, Saves
  <2>6. Alike(p, next)
    BY <2>4, <2>5, SoundIs DEF Alike
  <2> QED
    BY <1>1, <2>6
<1> QED
  BY <1>2, <1>3

LEMMA RefreshGoes ==
    ASSUME MarksInv, NEW p \in Managers \cup Viewers, Shared!Refresh(p)
    PROVE  PageGoes(p) /\ cache' \in Shared!View \cup {None}
<1>1. PICK v \in {[net |-> net, stations |-> stations, state |-> loggerState], cache} \ {None} :
        /\ pages' = [pages EXCEPT ![p] = Shared!WithSnapshot([Shared!Observed(p, Shared!InNet(pages[p], v.net), v.stations)
                                                       EXCEPT !.seen = v.stations, !.known = TRUE], v.state)]
        /\ cache' = v
  BY DEF Shared!Refresh
<1>2. v \in Shared!View
  BY <1>1 DEF MarksInv, Shared!View
<1>3. v.net \in Nets /\ v.stations \in SeenSets /\ v.state \in Shared!State \cup {None}
  BY <1>2 DEF Shared!View, Nets, SeenSets
<1> DEFINE o == Shared!Observed(p, Shared!InNet(pages[p], v.net), v.stations)
           seen == [o EXCEPT !.seen = v.stations, !.known = TRUE]
<1>4. Alike(p, o) /\ (o.selected # None => v.stations[o.selected] = "active")
  BY <1>3, InNetAlike, ObservedAlike
<1>5. pages' = [pages EXCEPT ![p] = Shared!WithSnapshot(seen, v.state)]
  BY <1>1
<1> HIDE DEF o
<1>6. Alike(p, seen)
  BY <1>3, <1>4, SeenAlike
<1> HIDE DEF seen
<1>7. Alike(p, Shared!WithSnapshot(seen, v.state))
  BY <1>3, <1>6, WithSnapshotAlike
<1> QED
  BY <1>1, <1>2, <1>5, <1>7, AlikeGoes DEF PageGoes

LEMMA NewPageTyped == Given => Shared!NewPage \in Shared!Page
<1>1. ASSUME Given PROVE 0 \in Nets
  BY <1>1 DEF Nets, Given
<1>2. /\ [c \in Others |-> "absent"] \in SeenSets /\ {} \in TagSets /\ {} \in CallSets /\ None \in Choices
      /\ None \in Signatures /\ {} \in Posts /\ {} \in Commands
  BY DEF SeenSets, Shared!Standings, TagSets, CallSets, Choices, Signatures, Posts, Commands
<1> DEFINE absent == [c \in Others |-> "absent"]
<1>3. Shared!NewPage = [net |-> 0, seen |-> absent, known |-> FALSE, tags |-> {}, hidden |-> {},
                 selected |-> None, away |-> {}, rev |-> 0, sig |-> None, timer |-> FALSE, later |-> 0,
                 again |-> FALSE, busy |-> {}, posts |-> {}, commands |-> {}, edited |-> 0, snapped |-> 0]
  BY DEF Shared!NewPage
<1> HIDE DEF absent
<1>4. absent \in SeenSets
  BY <1>2 DEF absent
<1> QED
  BY <1>1, <1>2, <1>3, <1>4, PageIs

LEMMA ReloadGoes == ASSUME MarksInv, Given, NEW p \in Managers \cup Viewers, Shared!Reload(p) PROVE PageGoes(p)
<1> DEFINE pg == pages[p]
           next == [Shared!NewPage EXCEPT !.net = pg.net, !.tags = pg.tags, !.hidden = pg.hidden,
                                   !.edited = pg.edited, !.snapped = pg.edited]
<1>0. pg \in Shared!Page /\ Shared!NewPage \in Shared!Page
  BY MarkedPage, NewPageTyped
<1>1. pg.net \in Nets /\ pg.tags \in TagSets /\ pg.hidden \in CallSets /\ pg.edited \in Nat
  BY <1>0, Fields
<1>2. pages' = [pages EXCEPT ![p] = next]
  BY DEF Shared!Reload
<1>3. /\ Shared!NewPage.posts = {} /\ Shared!NewPage.seen = [c \in Others |-> "absent"] /\ Shared!NewPage.selected = None
      /\ Shared!NewPage.known = FALSE
  BY DEF Shared!NewPage
<1> HIDE DEF pg
<1>4. /\ next \in Shared!Page /\ next.posts = Shared!NewPage.posts /\ next.edited = pg.edited /\ next.snapped = pg.edited
      /\ next.seen = Shared!NewPage.seen /\ next.selected = Shared!NewPage.selected /\ next.known = Shared!NewPage.known
  BY <1>0, <1>1, PageIs
<1> HIDE DEF next
<1>5. Selects(next) /\ Saves(next)
  BY <1>1, <1>3, <1>4 DEF Selects, Saves
<1>6. Goes(p, next)
  BY <1>1, <1>3, <1>4, <1>5, SoundIs DEF Goes, pg
<1> QED
  BY <1>2, <1>6 DEF PageGoes

-----------------------------------------------------------------------------
(* The invariant, and what follows. *)

\* A page never saves an older copy after a newer one, for all that is stored and under way.
SavesInv == MarksInv /\ \A p \in Managers \cup Viewers : Follows(p)

LEMMA InitIInv == ASSUME Given, Shared!Init PROVE SavesInv
<1>1. ASSUME NEW p \in (Managers \cup Viewers)
      PROVE  pages[p] \in Shared!Page /\ MarksSound(pages[p])
  <2> DEFINE next == [Shared!NewPage EXCEPT !.net = 1, !.seen = stations, !.known = TRUE]
  <2>1. pages[p] = next
    BY DEF Shared!Init
  <2>2. Shared!NewPage \in Shared!Page /\ 1 \in Nets /\ stations \in SeenSets
    BY NewPageTyped DEF Shared!Init, Given, Nets, SeenSets, Shared!Standings
  <2>3. Shared!NewPage.posts = {} /\ Shared!NewPage.selected = None /\ Shared!NewPage.edited = 0
        /\ Shared!NewPage.snapped = 0
    BY DEF Shared!NewPage
  <2>4. /\ next \in Shared!Page /\ next.posts = Shared!NewPage.posts /\ next.edited = Shared!NewPage.edited
        /\ next.snapped = Shared!NewPage.snapped /\ next.selected = Shared!NewPage.selected /\ next.known = TRUE
    BY <2>2, PageIs
  <2> HIDE DEF next
  <2>5. Selects(next) /\ Saves(next)
    BY <2>3, <2>4 DEF Selects, Saves
  <2> QED
    BY <2>1, <2>4, <2>5, SoundIs
<1>2. pages \in [(Managers \cup Viewers) -> Shared!Page]
  BY <1>1 DEF Shared!Init
<1>3. stations \in [Others -> Shared!Standings] /\ 1 \in 1 .. MaxNets /\ 0 \in 0 .. MaxMarks
  BY DEF Shared!Init, Given, Shared!Standings
<1>4. MarksInv
  BY <1>1, <1>2, <1>3 DEF MarksInv, Shared!Init
<1> QED
  BY <1>4 DEF SavesInv, Follows, Shared!Init

\* A step of a page which stores nothing.
LEMMA PageStep ==
    ASSUME SavesInv, NEW p \in Managers \cup Viewers, PageGoes(p), loggerState' = loggerState, clock' = clock, net' = net,
           stations' \in [Others -> Shared!Standings], marks' \in 0 .. MaxMarks, cache' \in Shared!View \cup {None}
    PROVE  SavesInv'
<1>0. MarksInv /\ \A q \in Managers \cup Viewers : Follows(q)
  BY DEF SavesInv
<1>1. PICK next : Goes(p, next) /\ pages' = [pages EXCEPT ![p] = next]
  BY DEF PageGoes
<1>2. next \in Shared!Page /\ MarksSound(next)
  BY <1>1, SoundIs DEF Goes
<1>3. pages' \in [(Managers \cup Viewers) -> Shared!Page] /\ pages'[p] = next
      /\ \A q \in (Managers \cup Viewers) \ {p} : pages'[q] = pages[q]
  BY <1>0, <1>1, <1>2 DEF MarksInv
<1>4. MarksInv'
  BY <1>0, <1>2, <1>3 DEF MarksInv
<1>5. ASSUME NEW q \in (Managers \cup Viewers) PROVE Follows(q)'
  <2>1. CASE q # p
    BY <1>0, <1>3, <2>1 DEF Follows
  <2>2. CASE q = p /\ loggerState # None /\ loggerState.by = p
    <3>1. loggerState.n \in Nat /\ loggerState.n <= pages[p].edited /\ \A s \in pages[p].posts : s.stamp = 0
          => loggerState.n <= s.n
      BY <1>0, <2>2 DEF Follows, MarksInv, Shared!State
    <3>2. pages[p].edited \in Nat /\ next.edited \in Nat /\ next.edited >= pages[p].edited
      BY <1>0, <1>1, <1>2, MarkedPage, PageIs DEF Goes
    <3>3. \A s \in next.posts : s.stamp = 0 => loggerState.n <= s.n
      BY <1>1, <3>1, <3>2 DEF Goes
    <3> QED
      BY <1>3, <2>2, <3>1, <3>2, <3>3 DEF Follows
  <2>3. CASE q = p /\ ~(loggerState # None /\ loggerState.by = p)
    BY <2>3 DEF Follows
  <2> QED
    BY <2>1, <2>2, <2>3
<1> QED
  BY <1>4, <1>5 DEF SavesInv

\* The save of a page is stored.
LEMMA SaveArrivesSound ==
    ASSUME SavesInv, NEW p \in Managers \cup Viewers, Shared!SaveArrives(p)
    PROVE  /\ SavesInv'
           /\ loggerState # None /\ loggerState' # None /\ loggerState'.by = loggerState.by
              => loggerState'.n >= loggerState.n
<1>0. MarksInv /\ \A q \in Managers \cup Viewers : Follows(q)
  BY DEF SavesInv
<1>1. PICK s \in pages[p].posts :
        /\ s.stamp = 0 /\ clock' = clock + 1
        /\ loggerState' = [stamp |-> clock + 1, body |-> s.body, by |-> p, n |-> s.n]
        /\ pages' = [pages EXCEPT ![p].posts = (@ \ {s}) \cup {[s EXCEPT !.stamp = clock + 1]}]
        /\ UNCHANGED <<net, stations, cache, marks>>
  BY DEF Shared!SaveArrives
<1> DEFINE t == [s EXCEPT !.stamp = clock + 1]
           left == (pages[p].posts \ {s}) \cup {t}
           next == [pages[p] EXCEPT !.posts = left]
<1>2. pages[p] \in Shared!Page /\ Selects(pages[p]) /\ Saves(pages[p]) /\ pages[p].posts \in Posts /\ clock \in Nat
  BY <1>0, MarkedPage, SoundIs, Fields DEF MarksInv
<1>3. s \in [n : Nat, body : Shared!Body, stamp : Nat] /\ pages[p].posts = {s} /\ s.n <= pages[p].edited
  BY <1>2 DEF Posts, Saves
<1>4. t \in [n : Nat, body : Shared!Body, stamp : Nat] /\ t.n = s.n /\ t.stamp = clock + 1
  BY <1>2, <1>3
<1>5. left = {t} /\ left \in Posts
  BY <1>3, <1>4 DEF Posts
<1>6. pages' = [pages EXCEPT ![p] = next]
  BY <1>0, <1>1 DEF MarksInv
<1> HIDE DEF left, t
<1>7. /\ next \in Shared!Page /\ next.posts = left /\ next.edited = pages[p].edited
      /\ next.snapped = pages[p].snapped /\ next.timer = pages[p].timer /\ next.again = pages[p].again
      /\ next.seen = pages[p].seen /\ next.selected = pages[p].selected /\ next.known = pages[p].known
  BY <1>2, <1>5, PageIs
<1> HIDE DEF next
<1>8. MarksSound(next)
  <2>1. Selects(next)
    BY <1>2, <1>7 DEF Selects
  <2>2. Saves(next)
    BY <1>2, <1>3, <1>4, <1>5, <1>7 DEF Saves
  <2> QED
    BY <1>7, <2>1, <2>2, SoundIs
<1>9. pages' \in [(Managers \cup Viewers) -> Shared!Page] /\ pages'[p] = next
      /\ \A q \in (Managers \cup Viewers) \ {p} : pages'[q] = pages[q]
  BY <1>0, <1>6, <1>7 DEF MarksInv
<1>10. loggerState' \in Shared!State /\ clock' \in Nat /\ loggerState'.by = p /\ loggerState'.n = s.n
  BY <1>1, <1>2, <1>3 DEF Shared!State
<1>11. MarksInv'
  BY <1>0, <1>1, <1>8, <1>9, <1>10 DEF MarksInv
<1>12. ASSUME NEW q \in (Managers \cup Viewers) PROVE Follows(q)'
  <2>1. CASE q = p
    BY <1>2, <1>3, <1>4, <1>5, <1>7, <1>9, <1>10, <2>1 DEF Follows
  <2>2. CASE q # p
    BY <1>10, <2>2 DEF Follows
  <2> QED
    BY <2>1, <2>2
<1>13. loggerState # None /\ loggerState.by = p => loggerState.n <= s.n /\ loggerState.n \in Nat /\ s.n \in Nat
  BY <1>0, <1>1, <1>3 DEF Follows, MarksInv, Shared!State
<1> QED
  BY <1>10, <1>11, <1>12, <1>13 DEF SavesInv

\* A step which no page notices.
LEMMA ServerStep ==
    ASSUME SavesInv, pages' = pages, clock' = clock, loggerState' \in {loggerState, None}, net' \in 1 .. MaxNets,
           stations' \in [Others -> Shared!Standings], marks' \in 0 .. MaxMarks, cache' \in Shared!View \cup {None}
    PROVE  SavesInv'
<1>1. MarksInv'
  BY DEF SavesInv, MarksInv
<1>2. ASSUME NEW q \in (Managers \cup Viewers) PROVE Follows(q)'
  BY DEF SavesInv, Follows
<1> QED
  BY <1>1, <1>2 DEF SavesInv

\* What a step stores: a save of a page, newer than what it had stored, or nothing.
Stored == loggerState' # loggerState /\ loggerState' # None /\ loggerState # None /\ loggerState'.by = loggerState.by
    => loggerState'.n >= loggerState.n

LEMMA NextIInv == ASSUME Given, SavesInv, [Shared!Next]_Shared!vars PROVE SavesInv' /\ Stored
<1>0. /\ MarksInv /\ stations \in [Others -> Shared!Standings] /\ marks \in 0 .. MaxMarks
         /\ cache \in Shared!View \cup {None}
      /\ net \in 1 .. MaxNets /\ MaxMarks \in Nat
  BY DEF SavesInv, MarksInv, Given
<1>e. Shared!Event => marks' \in 0 .. MaxMarks
  BY <1>0 DEF Shared!Event
<1>p. ASSUME NEW p \in Managers \cup Viewers, PageGoes(p), UNCHANGED <<net, loggerState, clock>>,
             stations' \in [Others -> Shared!Standings], marks' \in 0 .. MaxMarks, cache' \in Shared!View \cup {None}
      PROVE  SavesInv' /\ Stored
  BY <1>p, PageStep DEF Stored
<1>s. ASSUME pages' = pages, clock' = clock, loggerState' \in {loggerState, None}, net' \in 1 .. MaxNets,
             stations' \in [Others -> Shared!Standings], marks' \in 0 .. MaxMarks, cache' \in Shared!View \cup {None}
      PROVE  SavesInv' /\ Stored
  BY <1>s, ServerStep DEF Stored
<1>1. CASE \E p \in Managers \cup Viewers : Shared!SaveTimer(p) \/ Shared!SaveAnswered(p) \/ Shared!SaveFails(p)
  <2>1. PICK p \in Managers \cup Viewers : Shared!SaveTimer(p) \/ Shared!SaveAnswered(p) \/ Shared!SaveFails(p)
    BY <1>1
  <2>2. PageGoes(p)
    BY <1>0, <2>1, SaveGoes
  <2>3. UNCHANGED Shared!Server /\ marks' \in 0 .. MaxMarks
    BY <1>0, <1>e, <2>1 DEF Shared!SaveTimer, Shared!SaveAnswered, Shared!SaveFails, Shared!Server
  <2> QED
    BY <1>0, <1>p, <2>2, <2>3 DEF Shared!Server
<1>2. CASE \E p \in Managers \cup Viewers : Shared!LaterTimer(p)
  <2>1. PICK p \in Managers \cup Viewers : Shared!LaterTimer(p)
    BY <1>2
  <2>2. PageGoes(p)
    BY <1>0, <2>1, LaterGoes
  <2> QED
    BY <1>0, <1>p, <2>1, <2>2 DEF Shared!LaterTimer, Shared!Server
<1>3. CASE \E p \in Managers \cup Viewers : Shared!Refresh(p)
  <2>1. PICK p \in Managers \cup Viewers : Shared!Refresh(p)
    BY <1>3
  <2>2. PageGoes(p) /\ cache' \in Shared!View \cup {None}
    BY <1>0, <2>1, RefreshGoes
  <2>3. UNCHANGED <<net, stations, loggerState, clock, marks>>
    BY <2>1 DEF Shared!Refresh
  <2> QED
    BY <1>0, <1>p, <2>2, <2>3
<1>4. CASE \E p \in Managers \cup Viewers : Shared!SaveArrives(p)
  BY <1>4, SaveArrivesSound DEF Stored
<1>5. CASE \E p \in Managers \cup Viewers : Shared!CommandAnswered(p)
  <2>1. PICK p \in Managers \cup Viewers : Shared!CommandAnswered(p)
    BY <1>5
  <2>2. PageGoes(p)
    BY <1>0, <2>1, CommandAnsweredGoes
  <2>3. UNCHANGED Shared!Server /\ marks' = marks
    BY <2>1 DEF Shared!CommandAnswered
  <2> QED
    BY <1>0, <1>p, <2>2, <2>3 DEF Shared!Server
<1>6. CASE \E p \in Managers \cup Viewers : Shared!Reload(p)
  <2>1. PICK p \in Managers \cup Viewers : Shared!Reload(p)
    BY <1>6
  <2>2. PageGoes(p)
    BY <1>0, <2>1, ReloadGoes
  <2> QED
    BY <1>0, <1>e, <1>p, <2>1, <2>2 DEF Shared!Reload, Shared!Server
<1>7. CASE \E p \in Managers \cup Viewers : Shared!Clear(p)
  <2>1. PICK p \in Managers \cup Viewers : Shared!Clear(p)
    BY <1>7
  <2>2. PageGoes(p)
    BY <1>0, <2>1, ClearGoes
  <2> QED
    BY <1>0, <1>e, <1>p, <2>1, <2>2 DEF Shared!Clear, Shared!Edits, Shared!Server
<1>8. CASE \E p \in Managers \cup Viewers, c \in Others : Shared!Tag(p, c) \/ Shared!Select(p, c) \/ Shared!Hide(p, c)
  <2>1. PICK p \in Managers \cup Viewers, c \in Others : Shared!Tag(p, c) \/ Shared!Select(p, c) \/ Shared!Hide(p, c)
    BY <1>8
  <2>2. PageGoes(p)
    BY <1>0, <2>1, EditGoes
  <2>3. Shared!Edits(p)
    BY <2>1 DEF Shared!Tag, Shared!Select, Shared!Hide
  <2> QED
    BY <1>0, <1>e, <1>p, <2>2, <2>3 DEF Shared!Edits, Shared!Server
<1>9. CASE \E p \in Managers \cup Viewers, c \in Others, kind \in MarkKinds : Shared!Command(p, c, kind)
  <2>1. PICK p \in Managers \cup Viewers, c \in Others, kind \in MarkKinds : Shared!Command(p, c, kind)
    BY <1>9
  <2>2. PageGoes(p)
    BY <1>0, <2>1, CommandGoes
  <2>3. Shared!Outcome(kind) \in Shared!Standings
    BY DEF Shared!Outcome, Shared!Standings
  <2>4. stations' \in [Others -> Shared!Standings] /\ UNCHANGED <<net, loggerState, clock, cache>> /\ Shared!Event
    BY <1>0, <2>1, <2>3 DEF Shared!Command
  <2> QED
    BY <1>0, <1>e, <1>p, <2>2, <2>4
<1>10. CASE \E c \in Others, to \in Shared!Standings : Shared!StationMoves(c, to)
  <2>1. stations' \in [Others -> Shared!Standings] /\ Shared!Event /\ UNCHANGED <<net, loggerState, clock, cache, pages>>
    BY <1>0, <1>10 DEF Shared!StationMoves
  <2> QED
    BY <1>0, <1>e, <1>s, <2>1
<1>11. CASE Shared!NewNet
  <2>1. /\ stations' \in [Others -> Shared!Standings] /\ net' \in 1 .. MaxNets /\ Shared!Event /\ loggerState' = None
        /\ UNCHANGED <<clock, cache, pages>>
    BY <1>0, <1>11 DEF Shared!NewNet, Shared!Standings, Given
  <2> QED
    BY <1>0, <1>e, <1>s, <2>1
<1>12. CASE Shared!CacheExpires
  BY <1>0, <1>s, <1>12 DEF Shared!CacheExpires
<1>13. CASE UNCHANGED Shared!vars
  BY <1>0, <1>s, <1>13 DEF Shared!vars
<1> QED
  BY <1>1, <1>2, <1>3, <1>4, <1>5, <1>6, <1>7, <1>8, <1>9, <1>10, <1>11, <1>12, <1>13 DEF Shared!Next, Shared!Own,
     Shared!Told

\* Every state of the marks, of any number of pages, is well typed, and a mark that no save has read yet will be read by
\* one.
LEMMA MarksInvSays == SavesInv => Shared!TypeOK /\ Shared!PendingIsRemembered
<1>1. SavesInv => Shared!TypeOK
  BY DEF SavesInv, MarksInv, Shared!TypeOK, MarksSound
<1>2. SavesInv => Shared!PendingIsRemembered
  BY DEF SavesInv, MarksInv, Shared!PendingIsRemembered, MarksSound
<1> QED
  BY <1>1, <1>2

\* A mark that no save has read yet will be read by one, though saves fail, pages are loaded again and other
\* pages save in between (CoalescedAsyncRequest, publishSharedSnapshotSafely).
THEOREM NoMarkForgotten == Shared!Spec => [](Shared!TypeOK /\ Shared!PendingIsRemembered)
<1>0. Given
  BY MarksAssumption DEF MarksAssumption, Given, CheckVerbs
<1>1. Shared!Init => SavesInv
  BY <1>0, InitIInv
<1>2. SavesInv /\ [Shared!Next]_Shared!vars => SavesInv'
  BY <1>0, NextIInv
<1> QED
  BY <1>1, <1>2, MarksInvSays, PTL DEF Shared!Spec

\* What a page saved is not replaced by something it had saved before: one save at a time, each of all the
\* page's changes (CoalescedAsyncRequest.drain, saveSharedSnapshotOnce).
LEMMA SavesInOrder == Shared!Spec => Shared!OwnSavesInOrder
<1>0. Given
  BY MarksAssumption DEF MarksAssumption, Given, CheckVerbs
<1>1. Shared!Init => SavesInv
  BY <1>0, InitIInv
<1>2. SavesInv /\ [Shared!Next]_Shared!vars => SavesInv'
  BY <1>0, NextIInv
<1>3. SavesInv /\ [Shared!Next]_Shared!vars =>
        [loggerState' # loggerState /\ loggerState' # None /\ loggerState # None /\ loggerState'.by = loggerState.by
            /\ net' = net
           => loggerState'.n >= loggerState.n]_Shared!vars
  BY <1>0, NextIInv DEF Stored
<1> QED
  BY <1>1, <1>2, <1>3, PTL DEF Shared!Spec, Shared!OwnSavesInOrder

-----------------------------------------------------------------------------
(* The pages together. *)

\* A step of one part is none of the other's.
LEMMA Parts == LoggerSpec => Spec /\ Shared!Spec
<1>1. LoggerInit => Init /\ Shared!Init
  BY DEF LoggerInit
<1>2. [LoggerNext]_<<vars, marksVars>> => [Next]_vars /\ [Shared!Next]_Shared!vars
  BY DEF LoggerNext, marksVars, Shared!vars
<1> QED
  BY <1>1, <1>2, PTL DEF LoggerSpec, Spec, Shared!Spec

\* Every state of the pages and of the server is well typed, and the station which is next is one that the
\* page shows as checked in (commandAllowed, runCommand; observeStationTransitions, applySharedUpdate).
THEOREM LoggerTyped == LoggerSpec => []LoggerTypes
<1> QED
  BY Parts, TypeCorrect, NoMarkForgotten, PTL DEF LoggerTypes

\* However many operators click, correct and mark, and whatever of it fails: a page has one command under way for a
\* station, a correction that nobody interferes with loses no station, and no mark goes unsaved (runCommand,
\* correctCallsign, publishSharedSnapshotSafely).
THEOREM LoggerSound == LoggerSpec => []LoggerHolds
<1> QED
  BY Parts, OneCommandAtATime, CorrectionKeepsStation, NoMarkForgotten, PTL DEF LoggerHolds

\* What a page saved is not replaced by something it had saved before: one save at a time, each of all the
\* page's changes (CoalescedAsyncRequest.drain, saveSharedSnapshotOnce).
THEOREM MarksInOrder == LoggerSpec => OwnSavesInOrder
<1> QED
  BY Parts, SavesInOrder, PTL DEF OwnSavesInOrder
=============================================================================
