------------------------------- MODULE CheckIn -------------------------------
(***************************************************************************)
(* The check-in state of the stations in one room: LiveNet.lookupTable,    *)
(* which names a StationInteraction per station, and those documents.      *)
(*                                                                         *)
(* Net control's checkState runs as a keyed operation on the stations it   *)
(* is about (KeyedOperations), each of its database calls an action.  A    *)
(* station's own arrival (capturePresence) creates its interaction too,    *)
(* outside the keys.  A save of several documents has them under way at    *)
(* once, and they land in any order.                                       *)
(*                                                                         *)
(* Whoever creates interactions creates one per station at most, so an     *)
(* interaction is named <<creator, station>>, and the lookup table's entry *)
(* for a station is the creator of the interaction it names.               *)
(***************************************************************************)
EXTENDS KeyedOperations

CONSTANTS
    Visits,         \* arrivals, each of one station
    StationOf,
    AutoIn,         \* NetProfile.autoIn: an arriving station is checked in
    MaxFailures     \* bound on failed database writes

ASSUME VisitsAssumption ==
    /\ Visits \cap Calls = {} /\ None \notin Visits
    /\ StationOf \in [Visits -> Keys] /\ AutoIn \in BOOLEAN
    /\ MaxFailures \in Nat

VARIABLES
    table,      \* LiveNet.lookupTable
    docs,       \* checkedState of each interaction, or "absent"
    writes,     \* saves under way: <<call, interaction, checkedState>>
    failures,
    wanted,     \* the state each call is to give its stations
    op,         \* progress of the operation of each call
    snap,       \* its copy of the lookup table
    was,        \* its copies of the interactions found there
    visit       \* progress of each arrival

roomVars == <<table, docs, writes, failures, wanted, op, snap, was, visit>>
vars == <<tails, pc, at, behind, held, resolved, table, docs, writes, failures,
          wanted, op, snap, was, visit>>

Stations == Keys
Creators == Calls \cup Visits
CheckedStates == {"default", "in", "out"}

TypeOK ==
    /\ KeyedTypeOK
    /\ table \in [Stations -> Creators \cup {None}]
    /\ docs \in [Creators \X Stations -> CheckedStates \cup {"absent"}]
    /\ writes \subseteq Calls \X (Creators \X Stations) \X CheckedStates
    /\ failures \in Nat
    /\ wanted \in [Calls -> CheckedStates]
    /\ op \in [Calls -> {"start", "loaded", "read", "known", "created", "answered", "failed"}]
    /\ snap \in [Calls -> [Stations -> Creators \cup {None}]]
    /\ was \in [Calls -> [Stations -> CheckedStates \cup {"absent"}]]
    /\ visit \in [Visits -> {"new", "stranger", "saved", "done"}]

Init ==
    /\ KeyedInit
    /\ table = [s \in Stations |-> None]
    /\ docs = [e \in Creators \X Stations |-> "absent"]
    /\ writes = {}
    /\ failures = 0
    /\ wanted \in [Calls -> CheckedStates]
    /\ op = [c \in Calls |-> "start"]
    /\ snap = [c \in Calls |-> [s \in Stations |-> None]]
    /\ was = [c \in Calls |-> [s \in Stations |-> "absent"]]
    /\ visit = [v \in Visits |-> "new"]

-----------------------------------------------------------------------------
(* checkStateUnlocked, in the keys' turn *)

Known(c) == {s \in KeysOf[c] : snap[c][s] # None}
Unknown(c) == KeysOf[c] \ Known(c)
Underway(c) == {w \in writes : w[1] = c}
Entry(c, s) == <<snap[c][s], s>>

\* Where call c's saves of the interactions of the stations in S go.
SavesOf(c, S) == {<<c, Entry(c, s), wanted[c]>> : s \in S}

Step(c, from, to) == op[c] = from /\ op' = [op EXCEPT ![c] = to]

\* Mutation of Load: the room is read by the request, before the keys' turn.
LoadBeforeTurn(c) ==
    /\ pc[c] \in {"waiting", "running"}
    /\ Step(c, "start", "loaded")
    /\ snap' = [snap EXCEPT ![c] = table]
    /\ UNCHANGED <<table, docs, writes, failures, wanted, was, visit>>

Load(c) ==
    /\ pc[c] = "running"
    /\ Step(c, "start", "loaded")
    /\ snap' = [snap EXCEPT ![c] = table]
    /\ UNCHANGED <<table, docs, writes, failures, wanted, was, visit>>

\* The caller may not do this, to these stations.
Refuse(c) ==
    /\ Step(c, "loaded", "failed")
    /\ UNCHANGED <<table, docs, writes, failures, wanted, snap, was, visit>>

\* A station that is not in the table cannot be checked out.
Read(c) ==
    /\ wanted[c] = "out" => Unknown(c) = {}
    /\ Step(c, "loaded", "read")
    /\ was' = [was EXCEPT ![c] = [s \in Stations |->
                  IF s \in Known(c) THEN docs[Entry(c, s)] ELSE "absent"]]
    /\ UNCHANGED <<table, docs, writes, failures, wanted, snap, visit>>

\* The saves of the known stations all start; one that was never checked in
\* refuses to be checked out, and the operation fails with the saves of the
\* others under way.
UpdateKnown(c) ==
    LET lurkers == {s \in Known(c) : wanted[c] = "out" /\ was[c][s] = "default"}
        changed == {s \in Known(c) : was[c][s] # wanted[c]}
    IN
    /\ Step(c, "read", IF lurkers = {} THEN "known" ELSE "failed")
    /\ writes' = writes \cup SavesOf(c, changed \ lurkers)
    /\ UNCHANGED <<table, docs, failures, wanted, snap, was, visit>>

\* When they have landed, the new stations' interactions are saved.
CreateNew(c) ==
    /\ Underway(c) = {}
    /\ Unknown(c) # {}
    /\ Step(c, "known", "created")
    /\ writes' = writes \cup {<<c, <<c, s>>, wanted[c]>> : s \in Unknown(c)}
    /\ UNCHANGED <<table, docs, failures, wanted, snap, was, visit>>

\* Mutation of Link: the table is saved beside the interactions.
LinkAtOnce(c) ==
    /\ Step(c, "created", "answered")
    /\ table' = [s \in Stations |-> IF s \in Unknown(c) THEN c ELSE table[s]]
    /\ UNCHANGED <<docs, writes, failures, wanted, snap, was, visit>>

\* liveNet.save writes the new entries only.
Link(c) ==
    /\ Underway(c) = {}
    /\ Step(c, "created", "answered")
    /\ table' = [s \in Stations |-> IF s \in Unknown(c) THEN c ELSE table[s]]
    /\ UNCHANGED <<docs, writes, failures, wanted, snap, was, visit>>

AnswerKnown(c) ==
    /\ Underway(c) = {}
    /\ Unknown(c) = {}
    /\ Step(c, "known", "answered")
    /\ UNCHANGED <<table, docs, writes, failures, wanted, snap, was, visit>>

\* A save fails, and with it the operation; its other saves are still under way.
WriteFails(c) ==
    /\ failures < MaxFailures
    /\ failures' = failures + 1
    /\ \/ \E w \in Underway(c) : writes' = writes \ {w}
       \/ op[c] = "created" /\ Underway(c) = {} /\ UNCHANGED writes
    /\ op' = [op EXCEPT ![c] = "failed"]
    /\ UNCHANGED <<table, docs, wanted, snap, was, visit>>

Operation(c) ==
    \/ Load(c) \/ Refuse(c) \/ Read(c) \/ UpdateKnown(c) \/ CreateNew(c) \/ Link(c)
    \/ AnswerKnown(c) \/ WriteFails(c)

\* A save reaches the database, whatever has become of its call.
Land ==
    \E w \in writes :
        /\ docs' = [docs EXCEPT ![w[2]] = w[3]]
        /\ writes' = writes \ {w}
        /\ UNCHANGED <<table, failures, wanted, op, snap, was, visit>>

-----------------------------------------------------------------------------
(* A station arrives: capturePresence *)

ArriveRead(v) ==
    /\ visit[v] = "new"
    /\ visit' = [visit EXCEPT ![v] = IF table[StationOf[v]] = None THEN "stranger" ELSE "done"]
    /\ UNCHANGED <<table, docs, writes, failures, wanted, op, snap, was>>

ArriveSave(v) ==
    /\ visit[v] = "stranger"
    /\ docs' = [docs EXCEPT ![<<v, StationOf[v]>>] = IF AutoIn THEN "in" ELSE "default"]
    /\ visit' = [visit EXCEPT ![v] = "saved"]
    /\ UNCHANGED <<table, writes, failures, wanted, op, snap, was>>

ArriveLink(v) ==
    /\ visit[v] = "saved"
    /\ table' = [table EXCEPT ![StationOf[v]] = v]
    /\ visit' = [visit EXCEPT ![v] = "done"]
    /\ UNCHANGED <<docs, writes, failures, wanted, op, snap, was>>

-----------------------------------------------------------------------------
Queueing(c) == (Call(c) \/ Proceed(c) \/ Release(c)) /\ UNCHANGED roomVars

\* The operation has ended, and what it had read is gone.
Ended(c) ==
    /\ op[c] \in {"answered", "failed"}
    /\ Finish(c)
    /\ snap' = [snap EXCEPT ![c] = [s \in Stations |-> None]]
    /\ was' = [was EXCEPT ![c] = [s \in Stations |-> "absent"]]
    /\ UNCHANGED <<table, docs, writes, failures, wanted, op, visit>>

Arrival(v) == ArriveRead(v) \/ ArriveSave(v) \/ ArriveLink(v)

Next ==
    \/ \E c \in Calls : Queueing(c) \/ Ended(c)
    \/ (\/ \E c \in Calls : Operation(c)
        \/ Land
        \/ \E v \in Visits : Arrival(v)) /\ UNCHANGED keyedVars

Spec == Init /\ [][Next]_vars

(* A call that has been made runs in the server until it has answered, and its
   saves reach the database or fail.  Nobody has to make a call or to arrive. *)
Fairness ==
    /\ \A c \in Calls :
          /\ WF_vars(pc[c] # "new" /\ (Queueing(c) \/ Ended(c)))
          /\ WF_vars(Operation(c) /\ UNCHANGED keyedVars)
    /\ WF_vars(Land /\ UNCHANGED keyedVars)

FairSpec == Spec /\ Fairness

-----------------------------------------------------------------------------
Exists(e) == docs[e] # "absent"

(* Parallel check-ins of the same unknown station by net control create one
   interaction for it, as long as no save fails half way. *)
OneCheckInEntry ==
    failures = 0 =>
        \A s \in Stations, c, d \in Calls :
            Exists(<<c, s>>) /\ Exists(<<d, s>>) => c = d

(* The lookup table never names an interaction that is not stored: every
   command on a station goes through it. *)
TableNamesStored == \A s \in Stations : table[s] # None => Exists(<<table[s], s>>)

(* A check-in or check-out does not answer before it is persisted: an immediate
   read, through the lookup table, sees the state asked for. *)
AnswerIsPersisted ==
    [][\A c \in Calls :
          op[c] # "answered" /\ op'[c] = "answered" =>
              \A s \in KeysOf[c] : docs'[<<table'[s], s>>] = wanted[c]]_vars
=============================================================================
