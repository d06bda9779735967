-------------------------- MODULE OccurrenceStatus --------------------------
(***************************************************************************)
(* What the scheduling subsystem promises about the status of the dated    *)
(* occurrences of one net: the ScheduledOccurrence.status enum and the     *)
(* moves between its values that the controllers, the lifecycle worker,    *)
(* closeNet and the integrity sweep may make between them.  "withdrawn" is *)
(* a cancellation whose cancellationOrigin is schedule-disabled: the only  *)
(* one that re-enabling the schedule may undo.                             *)
(***************************************************************************)
CONSTANT Occurrences

VARIABLE status

Statuses == {"scheduled", "preparing", "live", "completed",
             "cancelled", "missed", "withdrawn"}

Moves ==
    { <<"scheduled", "preparing">>, <<"scheduled", "live">>,
      <<"scheduled", "cancelled">>, <<"scheduled", "missed">>,
      <<"preparing", "live">>,      <<"preparing", "cancelled">>,
      <<"preparing", "missed">>,    <<"preparing", "completed">>,
      <<"preparing", "scheduled">>, <<"live", "completed">>,
      <<"withdrawn", "scheduled">> }

TypeOK == status \in [Occurrences -> Statuses]

Init == status = [o \in Occurrences |-> "scheduled"]

Move(o, s) ==
    /\ <<status[o], s>> \in Moves
    /\ status' = [status EXCEPT ![o] = s]

\* Disabling the schedule withdraws a set of untouched occurrences at once.
Withdraw(S) ==
    /\ \A o \in S : status[o] = "scheduled"
    /\ status' = [o \in Occurrences |-> IF o \in S THEN "withdrawn" ELSE status[o]]

Next ==
    \/ \E o \in Occurrences, s \in Statuses : Move(o, s)
    \/ \E S \in SUBSET Occurrences : Withdraw(S)

Spec == Init /\ [][Next]_status
=============================================================================
