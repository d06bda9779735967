------------------------------ MODULE MCLogger ------------------------------
(* Two managers' logger pages.  The commands and the marks share no state: a step of
   one changes nothing the other one reads, so each is checked while the other
   stands still, and `part` says which one is at work. *)
EXTENDS Logger

VARIABLE part

MCInit ==
    /\ part \in {"roles", "marks"}
    /\ LoggerInit
    \* Two of the rooms an operator may find, and the same stations for the other part.
    /\ \A m \in Managers \ {Nco}, o \in Others :
          room[m].role = "netlogger" <=> room[o].in = "absent"
    /\ part # "roles" => \A o \in Others : room[o].in = "absent"
    /\ stations = [c \in Others |-> "active"]

MCNext ==
    /\ LoggerNext /\ UNCHANGED part
    /\ part # "roles" => UNCHANGED vars
    /\ part # "marks" => UNCHANGED marksVars

MCSpec == MCInit /\ [][MCNext]_<<part, vars, marksVars>>

\* The fairness of each part while it is the one at work.
RolesFairness == \A k \in 1..MaxTasks : WF_vars(part = "roles" /\ Step(k))
MarksFairness ==
    /\ \A p \in Managers \cup Viewers :
          /\ WF_marksVars(part = "marks" /\ Shared!SaveTimer(p))
          /\ WF_marksVars(part = "marks" /\ Shared!LaterTimer(p))
          /\ WF_marksVars(part = "marks" /\ Shared!SaveArrives(p))
          /\ WF_marksVars(part = "marks" /\ Shared!SaveAnswered(p))
          /\ WF_marksVars(part = "marks" /\ Shared!CommandAnswered(p))
          /\ WF_marksVars(part = "marks" /\ Shared!Refresh(p))
    /\ WF_marksVars(part = "marks" /\ Shared!CacheExpires)

MCFairSpec == MCSpec /\ RolesFairness /\ MarksFairness

\* Once nobody changes anything every command has come to its end, whatever failed (TasksEnd), and
\* every page has taken the state that was stored last (SharedLogger: CatchesUp).
LoggerSettles ==
    <>[](CASE part = "roles" -> \A k \in DOMAIN tasks : At(k, "done")
           [] part = "marks" -> Shared!UpToDate)
=============================================================================
