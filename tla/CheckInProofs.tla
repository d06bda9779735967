---------------------------- MODULE CheckInProofs ----------------------------
(***************************************************************************)
(* Theorems about KeyedOperations, and about CheckIn, which uses them: for  *)
(* any calls, keys, arrivals and failures, what the queues promise and what *)
(* they give to the check-in state.                                        *)
(***************************************************************************)
EXTENDS CheckIn, TLAPS

-----------------------------------------------------------------------------
(* The queues *)

Waits(c, k) == pc[c] = "waiting" /\ at[c] = k

\* Call c has its turn at k, or nothing keeps it from it.
Free(c, k) ==
    \/ k \in held[c]
    \/ Waits(c, k) /\ (behind[c] = None \/ <<behind[c], k>> \in resolved)

\* Where a call is, and what it has asked for.
ProgressInv ==
    \A c \in Calls :
        /\ pc[c] = "new" => held[c] = {}
        /\ pc[c] = "waiting" => at[c] \in Keys \ held[c]
        /\ pc[c] \in {"new", "waiting", "running"} => \A k \in Keys : <<c, k>> \notin resolved
        /\ \A k \in held[c] : <<c, k>> \notin resolved

\* One call at a time has its turn at a key, or is free to take it.
OneFree == \A k \in Keys : \A c, d \in Calls : Free(c, k) /\ Free(d, k) => c = d

\* A key that is not in the map is nobody's.
MissingIsIdle == \A k \in Keys : tails[k] = None => \A c \in Calls : ~Free(c, k)

\* The calls waiting for a key wait behind different calls, none behind the tail.
QueueIsLinear ==
    \A k \in Keys : \A c \in Calls : Waits(c, k) =>
        /\ behind[c] # tails[k]
        /\ \A d \in Calls : Waits(d, k) /\ behind[c] = behind[d] => c = d

\* What a call waits behind is in the queue or has left it.
BehindIsQueued ==
    \A k \in Keys : \A c \in Calls : Waits(c, k) /\ behind[c] # None =>
        <<behind[c], k>> \in resolved \/ Queued(behind[c], k)

KeyedInv ==
    /\ KeyedTypeOK
    /\ ProgressInv
    /\ OneFree
    /\ MissingIsIdle
    /\ QueueIsLinear
    /\ TailsAreQueued
    /\ BehindIsQueued

-----------------------------------------------------------------------------
(* Typing *)

LEMMA KeyedTypeInit == KeyedInit => KeyedTypeOK
BY DEF KeyedInit, KeyedTypeOK

LEMMA RunFromTypes ==
    ASSUME KeyedTypeOK, NEW c \in Calls, NEW got, RunFrom(c, got)
    PROVE  /\ tails' \in [Keys -> Calls \cup {None}]
           /\ pc' \in [Calls -> {"new", "waiting", "running", "leaving", "done"}]
           /\ at' \in [Calls -> Keys \cup {None}]
           /\ behind' \in [Calls -> Calls \cup {None}]
BY KeysAssumption DEF KeyedTypeOK, RunFrom, Following

LEMMA KeyedTypeStep ==
    ASSUME KeyedTypeOK, ProgressInv, [KeyedNext]_keyedVars
    PROVE  KeyedTypeOK'
<1>1. ASSUME NEW c \in Calls, Call(c) PROVE KeyedTypeOK'
  BY <1>1, RunFromTypes DEF Call, KeyedTypeOK
<1>2. ASSUME NEW c \in Calls, Proceed(c) PROVE KeyedTypeOK'
  <2>1. at[c] \in Keys
    BY <1>2 DEF ProgressInv, Proceed
  <2> QED BY <1>2, <2>1, RunFromTypes DEF Proceed, KeyedTypeOK
<1>3. ASSUME NEW c \in Calls, Finish(c) PROVE KeyedTypeOK'
  BY <1>3 DEF Finish, KeyedTypeOK
<1>4. ASSUME NEW c \in Calls, Release(c) PROVE KeyedTypeOK'
  BY <1>4 DEF Release, KeyedTypeOK
<1> QED BY <1>1, <1>2, <1>3, <1>4 DEF KeyedNext, KeyedTypeOK, keyedVars

-----------------------------------------------------------------------------
(* The queues *)

LEMMA KeyedInvInit == KeyedInit => KeyedInv
<1> SUFFICES ASSUME KeyedInit PROVE KeyedInv
  OBVIOUS
<1>1. \A c \in Calls, k \in Keys : ~Waits(c, k) /\ ~Free(c, k)
  BY DEF KeyedInit, Waits, Free
<1>2. ProgressInv
  BY DEF KeyedInit, ProgressInv
<1>3. TailsAreQueued
  BY DEF KeyedInit, TailsAreQueued
<1> QED BY <1>1, <1>2, <1>3, KeyedTypeInit
        DEF KeyedInv, OneFree, MissingIsIdle, QueueIsLinear, BehindIsQueued

\* A call that was free at the keys it now has goes to the end of the queue of j.
LEMMA AskPreserves ==
    ASSUME KeyedInv, KeyedTypeOK', NEW c \in Calls, NEW j \in Keys,
           pc[c] \in {"new", "waiting"},
           \A k \in Keys : Free(c, k) <=> k \in held'[c],
           \A k \in Keys : Waits(c, k) => k \in held'[c],
           \A d \in Calls \ {c} : held'[d] = held[d],
           j \notin held'[c],
           pc' = [pc EXCEPT ![c] = "waiting"],
           at' = [at EXCEPT ![c] = j],
           behind' = [behind EXCEPT ![c] = tails[j]],
           tails' = [tails EXCEPT ![j] = c],
           UNCHANGED resolved
    PROVE  KeyedInv'
<1>1. /\ pc'[c] = "waiting" /\ at'[c] = j /\ behind'[c] = tails[j] /\ tails'[j] = c
      /\ \A d \in Calls \ {c} : pc'[d] = pc[d] /\ at'[d] = at[d] /\ behind'[d] = behind[d]
      /\ \A k \in Keys \ {j} : tails'[k] = tails[k]
  BY DEF KeyedInv, KeyedTypeOK
<1>2. \A k \in Keys : <<c, k>> \notin resolved
  BY DEF KeyedInv, ProgressInv
<1>3. \A d \in Calls \ {c}, k \in Keys :
         /\ Waits(d, k)' <=> Waits(d, k)
         /\ Free(d, k)' <=> Free(d, k)
         /\ Queued(d, k)' <=> Queued(d, k)
  BY <1>1 DEF Waits, Free, Queued
<1>4. \A k \in Keys : Waits(c, k)' <=> k = j
  BY <1>1 DEF Waits
<1>5. \A k \in Keys : Queued(c, k) => Queued(c, k)'
  BY DEF Queued, Waits, Free
<1>6. tails[j] # None => <<tails[j], j>> \notin resolved
  BY DEF KeyedInv, KeyedTypeOK, TailsAreQueued, Queued, ProgressInv
<1>7. \A k \in Keys : Free(c, k)' <=> Free(c, k) \/ (k = j /\ tails[j] = None)
  BY <1>1, <1>4, <1>6 DEF Free
<1>8. ~Queued(c, j)
  BY DEF Queued, Waits, Free
<1>9. ProgressInv'
  BY <1>1, <1>2 DEF KeyedInv, ProgressInv, KeyedTypeOK
<1>10. OneFree'
  BY <1>3, <1>7 DEF KeyedInv, OneFree, MissingIsIdle
<1>11. MissingIsIdle'
  BY <1>1, <1>3, <1>7, CallsAssumption DEF KeyedInv, MissingIsIdle
<1>12. \A d \in Calls : Waits(d, j) => behind[d] # c
  BY <1>2, <1>8, CallsAssumption DEF KeyedInv, BehindIsQueued
<1>13. ASSUME NEW k \in Keys, NEW d \in Calls, Waits(d, k)',
              NEW e \in Calls, Waits(e, k)', behind'[d] = behind'[e]
       PROVE  d = e
  BY <1>1, <1>3, <1>4, <1>13 DEF KeyedInv, QueueIsLinear
<1>14. ASSUME NEW k \in Keys, NEW d \in Calls, Waits(d, k)'
       PROVE  behind'[d] # tails'[k]
  <2>1. CASE d = c
    <3>1. k = j /\ tails[j] # c
      BY <1>4, <1>8, <1>14, <2>1, CallsAssumption DEF KeyedInv, TailsAreQueued
    <3> QED BY <1>1, <2>1, <3>1
  <2>2. CASE d # c
    BY <1>1, <1>3, <1>12, <1>14, <2>2 DEF KeyedInv, QueueIsLinear
  <2> QED BY <2>1, <2>2
<1>15. QueueIsLinear'
  BY <1>13, <1>14 DEF QueueIsLinear
<1>16. \A d \in Calls, k \in Keys : Queued(d, k) => Queued(d, k)'
  BY <1>3, <1>5
<1>17. TailsAreQueued'
  <2>1. Queued(c, j)'
    BY <1>1 DEF Queued
  <2> QED BY <1>1, <1>16, <2>1 DEF KeyedInv, KeyedTypeOK, TailsAreQueued
<1>18. ASSUME NEW k \in Keys, NEW d \in Calls, Waits(d, k)', NEW b \in Calls, behind'[d] = b
       PROVE  <<b, k>> \in resolved \/ Queued(b, k)'
  <2>1. CASE d = c
    BY <1>1, <1>4, <1>16, <1>18, <2>1, CallsAssumption DEF KeyedInv, TailsAreQueued
  <2>2. CASE d # c
    <3>1. Waits(d, k) /\ behind[d] = b /\ b # None
      BY <1>1, <1>3, <1>18, <2>2, CallsAssumption
    <3> QED BY <1>16, <3>1 DEF KeyedInv, BehindIsQueued
  <2> QED BY <2>1, <2>2
<1>19. BehindIsQueued'
  <2>1. behind' \in [Calls -> Calls \cup {None}]
    BY DEF KeyedTypeOK
  <2> QED BY <1>18, <2>1 DEF BehindIsQueued
<1> QED BY <1>9, <1>10, <1>11, <1>15, <1>17, <1>19 DEF KeyedInv

\* A call that waits for no key has its turn at the keys where it was free.
LEMMA RunPreserves ==
    ASSUME KeyedInv, KeyedTypeOK', NEW c \in Calls,
           pc[c] \in {"new", "waiting"},
           \A k \in Keys : Free(c, k) <=> k \in held'[c],
           \A k \in Keys : Waits(c, k) => k \in held'[c],
           \A d \in Calls \ {c} : held'[d] = held[d],
           pc' = [pc EXCEPT ![c] = "running"],
           at' = [at EXCEPT ![c] = None],
           behind' = [behind EXCEPT ![c] = None],
           UNCHANGED <<tails, resolved>>
    PROVE  KeyedInv'
<1>1. /\ pc'[c] = "running"
      /\ \A d \in Calls \ {c} : pc'[d] = pc[d] /\ at'[d] = at[d] /\ behind'[d] = behind[d]
  BY DEF KeyedInv, KeyedTypeOK
<1>2. \A d \in Calls, k \in Keys : Waits(d, k)' <=> d # c /\ Waits(d, k)
  BY <1>1 DEF Waits
<1>3. \A d \in Calls, k \in Keys : Free(d, k)' <=> Free(d, k)
  BY <1>1 DEF Waits, Free
<1>4. \A d \in Calls, k \in Keys : Queued(d, k)' <=> Queued(d, k)
  BY <1>1 DEF Queued, Waits, Free
<1>5. ProgressInv'
  BY <1>1 DEF KeyedInv, ProgressInv, KeyedTypeOK
<1>6. OneFree' /\ MissingIsIdle' /\ TailsAreQueued'
  BY <1>3, <1>4 DEF KeyedInv, KeyedTypeOK, OneFree, MissingIsIdle, TailsAreQueued
<1>7. QueueIsLinear'
  BY <1>1, <1>2 DEF KeyedInv, QueueIsLinear
<1>8. BehindIsQueued'
  BY <1>1, <1>2, <1>4 DEF KeyedInv, KeyedTypeOK, BehindIsQueued
<1> QED BY <1>5, <1>6, <1>7, <1>8 DEF KeyedInv

\* What Call and Proceed have in common.
LEMMA RunFromPreserves ==
    ASSUME KeyedInv, KeyedTypeOK', NEW c \in Calls, RunFrom(c, held'[c]),
           pc[c] \in {"new", "waiting"},
           \A k \in Keys : Free(c, k) <=> k \in held'[c],
           \A k \in Keys : Waits(c, k) => k \in held'[c],
           \A d \in Calls \ {c} : held'[d] = held[d],
           UNCHANGED resolved
    PROVE  KeyedInv'
<1>1. CASE KeysOf[c] \subseteq held'[c]
  <2>1. Following(c, held'[c]) = {}
    BY <1>1 DEF Following
  <2> QED BY <2>1, RunPreserves DEF RunFrom
<1>2. CASE ~(KeysOf[c] \subseteq held'[c])
  <2>1. PICK k \in Following(c, held'[c]) :
           /\ pc' = [pc EXCEPT ![c] = "waiting"]
           /\ at' = [at EXCEPT ![c] = k]
           /\ behind' = [behind EXCEPT ![c] = tails[k]]
           /\ tails' = [tails EXCEPT ![k] = c]
    BY <1>2 DEF RunFrom
  <2>2. k \in Keys \ held'[c]
    BY KeysAssumption DEF Following
  <2> QED BY <2>1, <2>2, AskPreserves
<1> QED BY <1>1, <1>2

LEMMA CallPreserves ==
    ASSUME KeyedInv, KeyedTypeOK', NEW c \in Calls, Call(c)
    PROVE  KeyedInv'
<1>1. pc[c] = "new" /\ held' = held /\ held[c] = {} /\ RunFrom(c, held'[c]) /\ UNCHANGED resolved
  BY DEF Call, KeyedInv, ProgressInv
<1>2. \A k \in Keys : ~Waits(c, k) /\ ~Free(c, k)
  BY <1>1 DEF Waits, Free
<1> QED BY <1>1, <1>2, RunFromPreserves

LEMMA ProceedPreserves ==
    ASSUME KeyedInv, KeyedTypeOK', NEW c \in Calls, Proceed(c)
    PROVE  KeyedInv'
<1>1. /\ pc[c] = "waiting" /\ at[c] \in Keys
      /\ behind[c] = None \/ <<behind[c], at[c]>> \in resolved
      /\ held'[c] = held[c] \cup {at[c]} /\ RunFrom(c, held'[c])
      /\ \A d \in Calls \ {c} : held'[d] = held[d]
      /\ UNCHANGED resolved
  BY DEF Proceed, KeyedInv, ProgressInv, KeyedTypeOK
<1>2. \A k \in Keys : Waits(c, k) <=> k = at[c]
  BY <1>1 DEF Waits
<1>3. \A k \in Keys : Free(c, k) <=> k \in held'[c]
  BY <1>1, <1>2 DEF Free
<1> QED BY <1>1, <1>2, <1>3, RunFromPreserves

LEMMA FinishPreserves ==
    ASSUME KeyedInv, KeyedTypeOK', NEW c \in Calls, Finish(c)
    PROVE  KeyedInv'
<1>1. /\ pc[c] = "running" /\ pc'[c] \in {"done", "leaving"}
      /\ \A d \in Calls \ {c} : pc'[d] = pc[d]
      /\ UNCHANGED <<tails, at, behind, held, resolved>>
  BY DEF Finish, KeyedInv, KeyedTypeOK
<1>2. \A d \in Calls, k \in Keys : Waits(d, k)' <=> Waits(d, k)
  BY <1>1 DEF Waits
<1>3. \A d \in Calls, k \in Keys : (Free(d, k)' <=> Free(d, k)) /\ (Queued(d, k)' <=> Queued(d, k))
  BY <1>1, <1>2 DEF Free, Queued, Waits
<1>4. ProgressInv'
  BY <1>1 DEF KeyedInv, ProgressInv
<1>5. OneFree' /\ MissingIsIdle' /\ TailsAreQueued'
  BY <1>1, <1>3 DEF KeyedInv, KeyedTypeOK, OneFree, MissingIsIdle, TailsAreQueued
<1>6. QueueIsLinear'
  BY <1>1, <1>2 DEF KeyedInv, QueueIsLinear
<1>7. BehindIsQueued'
  BY <1>1, <1>2, <1>3 DEF KeyedInv, KeyedTypeOK, BehindIsQueued
<1> QED BY <1>4, <1>5, <1>6, <1>7 DEF KeyedInv

\* The one call that waits behind the promise resolved is now free at its key.
LEMMA ReleasePreserves ==
    ASSUME KeyedInv, KeyedTypeOK', NEW c \in Calls, Release(c)
    PROVE  KeyedInv'
<1>1. PICK k \in Keys :
         /\ pc[c] = "leaving" /\ k \in held[c]
         /\ resolved' = resolved \cup {<<c, k>>}
         /\ tails' = [tails EXCEPT ![k] = IF @ = c THEN None ELSE @]
         /\ held' = [held EXCEPT ![c] = @ \ {k}]
         /\ pc' = [pc EXCEPT ![c] = IF held[c] = {k} THEN "done" ELSE "leaving"]
         /\ UNCHANGED <<at, behind>>
  BY DEF Release, Innermost
<1>2. /\ pc'[c] \in {"done", "leaving"} /\ held'[c] = held[c] \ {k}
      /\ \A d \in Calls \ {c} : pc'[d] = pc[d] /\ held'[d] = held[d]
      /\ tails'[k] = IF tails[k] = c THEN None ELSE tails[k]
      /\ \A j \in Keys \ {k} : tails'[j] = tails[j]
  BY <1>1 DEF KeyedInv, KeyedTypeOK
<1>3. \A d \in Calls, j \in Keys : <<d, j>> \in resolved' <=> <<d, j>> \in resolved \/ (d = c /\ j = k)
  BY <1>1
<1>4. \A d \in Calls, j \in Keys : Waits(d, j)' <=> Waits(d, j)
  BY <1>1, <1>2 DEF Waits
<1>5. Free(c, k) /\ \A d \in Calls : Free(d, k) => d = c
  BY <1>1 DEF Free, KeyedInv, OneFree
<1>6. \A d \in Calls, j \in Keys : Queued(d, j)' <=> Queued(d, j) /\ ~(d = c /\ j = k)
  BY <1>1, <1>2 DEF Queued
<1>7. ASSUME NEW d \in Calls, NEW j \in Keys
      PROVE  Free(d, j)' <=> \/ Free(d, j) /\ ~(d = c /\ j = k)
                             \/ j = k /\ Waits(d, k) /\ behind[d] = c
  <2>1. ~Waits(c, j)
    BY <1>1 DEF Waits
  <2>2. behind[d] \in Calls \cup {None}
    BY DEF KeyedInv, KeyedTypeOK
  <2> QED BY <1>1, <1>2, <1>3, <1>4, <2>1, <2>2, CallsAssumption DEF Free
<1>8. ProgressInv'
  BY <1>1, <1>2, <1>3 DEF KeyedInv, ProgressInv, KeyedTypeOK
<1>9. OneFree'
  BY <1>5, <1>7 DEF KeyedInv, OneFree, QueueIsLinear
<1>10. MissingIsIdle'
  <2>1. tails[k] # None
    BY <1>5 DEF KeyedInv, MissingIsIdle
  <2> QED BY <1>2, <1>5, <1>7, <2>1 DEF KeyedInv, MissingIsIdle, QueueIsLinear
<1>11. TailsAreQueued'
  <2>1. \A j \in Keys : tails'[j] # None => tails'[j] = tails[j] /\ ~(tails[j] = c /\ j = k)
    BY <1>2
  <2> QED BY <1>6, <2>1 DEF KeyedInv, KeyedTypeOK, TailsAreQueued
<1>12. QueueIsLinear'
  <2>1. ASSUME NEW j \in Keys, NEW d \in Calls, Waits(d, j)
        PROVE  behind[d] # tails'[j]
    <3>1. CASE tails'[j] = tails[j]
      BY <2>1, <3>1 DEF KeyedInv, QueueIsLinear
    <3>2. CASE tails'[j] # tails[j]
      <4>1. j = k /\ tails'[j] = None /\ d # c
        BY <1>1, <1>2, <2>1, <3>2 DEF Waits
      <4> QED BY <1>5, <2>1, <4>1 DEF Free
    <3> QED BY <3>1, <3>2
  <2> QED BY <1>1, <1>4, <2>1 DEF KeyedInv, QueueIsLinear
<1>13. BehindIsQueued'
  BY <1>1, <1>3, <1>4, <1>6 DEF KeyedInv, KeyedTypeOK, BehindIsQueued
<1> QED BY <1>8, <1>9, <1>10, <1>11, <1>12, <1>13 DEF KeyedInv

LEMMA KeyedInvStep == KeyedInv /\ [KeyedNext]_keyedVars => KeyedInv'
<1> SUFFICES ASSUME KeyedInv, [KeyedNext]_keyedVars PROVE KeyedInv'
  OBVIOUS
<1>1. KeyedTypeOK'
  BY KeyedTypeStep DEF KeyedInv
<1>2. CASE KeyedNext
  BY <1>1, <1>2, CallPreserves, ProceedPreserves, FinishPreserves, ReleasePreserves
     DEF KeyedNext
<1>3. CASE UNCHANGED keyedVars
  <2>1. UNCHANGED <<tails, pc, at, behind, held, resolved>>
    BY <1>3 DEF keyedVars
  <2>2. \A d \in Calls, k \in Keys :
           /\ Waits(d, k)' <=> Waits(d, k)
           /\ Free(d, k)' <=> Free(d, k)
           /\ Queued(d, k)' <=> Queued(d, k)
    BY <2>1 DEF Waits, Free, Queued
  <2>3. ProgressInv'
    BY <2>1 DEF KeyedInv, ProgressInv
  <2> QED BY <1>1, <2>1, <2>2, <2>3 DEF KeyedInv, KeyedTypeOK, OneFree, MissingIsIdle,
             QueueIsLinear, TailsAreQueued, BehindIsQueued
<1> QED BY <1>2, <1>3

-----------------------------------------------------------------------------
(* Theorems *)

THEOREM KeyedInvariance == KeyedSpec => []KeyedInv
BY KeyedInvInit, KeyedInvStep, PTL DEF KeyedSpec

LEMMA OneFreeOneHolder == KeyedInv => OneHolderPerKey
BY DEF KeyedInv, KeyedTypeOK, OneFree, Free, OneHolderPerKey

(* withKeyedOperation serializes: no two calls have their turn at one key,
   whatever keys they name and however newcomers meet a release. *)
THEOREM MutualExclusion == KeyedSpec => []OneHolderPerKey
BY KeyedInvariance, OneFreeOneHolder, PTL

(* The map never names a call that has left its queue. *)
THEOREM MapHoldsTheQueued == KeyedSpec => []TailsAreQueued
<1>1. KeyedInv => TailsAreQueued
  BY DEF KeyedInv
<1> QED BY KeyedInvariance, <1>1, PTL

-----------------------------------------------------------------------------
(* The check-in *)

\* An operation is in progress only in its call's turn, at all its keys.
TurnInv ==
    \A c \in Calls :
        /\ op[c] \in {"loaded", "read", "known", "created"} => pc[c] = "running"
        /\ pc[c] = "running" => KeysOf[c] \subseteq held[c]

\* What the table, a copy of it, or a save about to enter it names is stored.
StoredInv ==
    /\ TableNamesStored
    /\ \A c \in Calls, s \in Stations : snap[c][s] # None => Exists(Entry(c, s))
    /\ \A c \in Calls : op[c] = "created" =>
          \A s \in Unknown(c) : Exists(<<c, s>>) \/ <<c, <<c, s>>, wanted[c]>> \in writes
    /\ \A v \in Visits : visit[v] = "saved" => Exists(<<v, StationOf[v]>>)

\* Call c has created an interaction of station s, or its save is under way.
Started(c, s) == Exists(<<c, s>>) \/ \E w \in writes : w[2] = <<c, s>>

\* A call that has created an interaction is the only one that could, and
\* from then on either still has its turn or has left it in the table.
OneStarted ==
    failures = 0 =>
        \A c \in Calls, s \in Stations : Started(c, s) =>
            /\ table[s] # None \/ (op[c] = "created" /\ s \in Unknown(c))
            /\ \A d \in Calls \ {c} :
                  /\ ~Started(d, s)
                  /\ op[d] \in {"loaded", "read", "known", "created"} => s \notin Unknown(d)

CheckInInv == TypeOK /\ KeyedInv /\ TurnInv /\ StoredInv /\ OneStarted

-----------------------------------------------------------------------------
(* The queues, below the check-in *)

LEMMA KeyedStep == [Next]_vars => [KeyedNext]_keyedVars
<1> SUFFICES ASSUME [Next]_vars PROVE [KeyedNext]_keyedVars
  OBVIOUS
<1>1. ASSUME NEW c \in Calls, Queueing(c) \/ Ended(c) PROVE KeyedNext
  BY <1>1 DEF Queueing, Ended, KeyedNext
<1> QED BY <1>1 DEF Next, vars, keyedVars

(* checkState uses its keys as withKeyedOperations gives them. *)
THEOREM KeyedRefinement == Spec => KeyedSpec
<1>1. Init => KeyedInit
  BY DEF Init
<1> QED BY <1>1, KeyedStep, PTL DEF Spec, KeyedSpec

-----------------------------------------------------------------------------
(* Typing *)

LEMMA TypeInit == Init => TypeOK
BY KeyedTypeInit DEF Init, TypeOK, CheckedStates, Stations

LEMMA EntryType ==
    ASSUME TypeOK, NEW c \in Calls, NEW s \in Known(c)
    PROVE  s \in Stations /\ snap[c][s] \in Creators /\ Entry(c, s) \in Creators \X Stations
<1>1. s \in Stations /\ snap[c][s] \in Creators
  BY KeysAssumption DEF Known, TypeOK, Stations
<1> QED BY <1>1 DEF Entry

LEMMA SavesType ==
    ASSUME TypeOK, NEW c \in Calls, NEW S \in SUBSET Known(c)
    PROVE  SavesOf(c, S) \subseteq Calls \X (Creators \X Stations) \X CheckedStates
BY EntryType DEF SavesOf, TypeOK

LEMMA OperationTypes ==
    ASSUME TypeOK, NEW c \in Calls, Operation(c), UNCHANGED keyedVars
    PROVE  TypeOK'
<1>1. KeyedTypeOK'
  BY DEF TypeOK, KeyedTypeOK, keyedVars
<1>2. CASE Load(c) \/ Refuse(c) \/ AnswerKnown(c)
  BY <1>1, <1>2 DEF TypeOK, Load, Refuse, AnswerKnown, Step
<1>3. CASE Read(c)
  <2>1. \A s \in Known(c) : Entry(c, s) \in Creators \X Stations
    BY EntryType
  <2>2. [s \in Stations |-> IF s \in Known(c) THEN docs[Entry(c, s)] ELSE "absent"]
          \in [Stations -> CheckedStates \cup {"absent"}]
    BY <2>1 DEF TypeOK
  <2> QED BY <1>1, <1>3, <2>2 DEF TypeOK, Read, Step
<1>4. CASE UpdateKnown(c)
  <2> DEFINE lurkers == {s \in Known(c) : wanted[c] = "out" /\ was[c][s] = "default"}
             changed == {s \in Known(c) : was[c][s] # wanted[c]}
  <2>1. SavesOf(c, changed \ lurkers) \subseteq Calls \X (Creators \X Stations) \X CheckedStates
    BY SavesType
  <2>2. writes' \subseteq Calls \X (Creators \X Stations) \X CheckedStates
    BY <1>4, <2>1 DEF TypeOK, UpdateKnown
  <2>3. op' \in [Calls -> {"start", "loaded", "read", "known", "created", "answered", "failed"}]
    BY <1>4 DEF TypeOK, UpdateKnown, Step
  <2> QED BY <1>1, <1>4, <2>2, <2>3 DEF TypeOK, UpdateKnown
<1>5. CASE CreateNew(c)
  <2>1. {<<c, <<c, s>>, wanted[c]>> : s \in Unknown(c)}
           \subseteq Calls \X (Creators \X Stations) \X CheckedStates
    BY KeysAssumption DEF TypeOK, Unknown, Creators, Stations
  <2> QED BY <1>1, <1>5, <2>1 DEF TypeOK, CreateNew, Step
<1>6. CASE Link(c)
  BY <1>1, <1>6 DEF TypeOK, Link, Step, Creators
<1>7. CASE WriteFails(c)
  BY <1>1, <1>7 DEF TypeOK, WriteFails
<1> QED BY <1>2, <1>3, <1>4, <1>5, <1>6, <1>7 DEF Operation

LEMMA TypeStep ==
    ASSUME TypeOK, ProgressInv, [Next]_vars
    PROVE  TypeOK'
<1>1. KeyedTypeOK'
  BY KeyedStep, KeyedTypeStep DEF TypeOK
<1>2. ASSUME NEW c \in Calls, Queueing(c) PROVE TypeOK'
  BY <1>1, <1>2 DEF TypeOK, Queueing, roomVars
<1>3. ASSUME NEW c \in Calls, Ended(c) PROVE TypeOK'
  BY <1>1, <1>3 DEF TypeOK, Ended
<1>4. ASSUME Land PROVE TypeOK'
  BY <1>1, <1>4 DEF TypeOK, Land
<1>5. ASSUME NEW v \in Visits, Arrival(v) PROVE TypeOK'
  <2>1. StationOf[v] \in Stations /\ v \in Creators
    BY VisitsAssumption DEF Stations, Creators
  <2> QED BY <1>1, <1>5, <2>1
          DEF TypeOK, Arrival, ArriveRead, ArriveSave, ArriveLink, CheckedStates
<1>6. CASE UNCHANGED vars
  BY <1>1, <1>6 DEF TypeOK, vars
<1> QED BY <1>2, <1>3, <1>4, <1>5, <1>6, OperationTypes DEF Next

-----------------------------------------------------------------------------
(* Turns *)

LEMMA TurnStep ==
    ASSUME TypeOK, KeyedInv, TurnInv, [Next]_vars
    PROVE  TurnInv'
<1>1. ASSUME NEW c \in Calls, Call(c) \/ Proceed(c)
      PROVE  /\ pc[c] \in {"new", "waiting"}
             /\ pc'[c] = "running" => KeysOf[c] \subseteq held'[c]
             /\ \A d \in Calls \ {c} : pc'[d] = pc[d] /\ held'[d] = held[d]
  <2>1. CASE Call(c)
    BY <2>1 DEF Call, RunFrom, TypeOK, KeyedTypeOK, KeyedInv, ProgressInv
  <2>2. CASE Proceed(c)
    BY <2>2 DEF Proceed, RunFrom, TypeOK, KeyedTypeOK
  <2> QED BY <1>1, <2>1, <2>2
<1>2. ASSUME NEW c \in Calls, Queueing(c) PROVE TurnInv'
  <2>1. CASE Call(c) \/ Proceed(c)
    BY <1>1, <1>2, <2>1 DEF TurnInv, Queueing, roomVars
  <2>2. CASE Release(c)
    BY <1>2, <2>2 DEF TurnInv, Queueing, Release, roomVars, TypeOK, KeyedTypeOK
  <2> QED BY <1>2, <2>1, <2>2 DEF Queueing
<1>3. ASSUME NEW c \in Calls, Ended(c) PROVE TurnInv'
  BY <1>3 DEF TurnInv, Ended, Finish, TypeOK, KeyedTypeOK
<1>4. ASSUME NEW c \in Calls, Operation(c), UNCHANGED keyedVars PROVE TurnInv'
  BY <1>4 DEF TurnInv, keyedVars, TypeOK, Operation, Load, Refuse, Read, UpdateKnown,
              CreateNew, Link, AnswerKnown, WriteFails, Step
<1>5. ASSUME Land \/ \E v \in Visits : Arrival(v), UNCHANGED keyedVars PROVE TurnInv'
  BY <1>5 DEF TurnInv, keyedVars, Land, Arrival, ArriveRead, ArriveSave, ArriveLink
<1>6. CASE UNCHANGED vars
  BY <1>6 DEF TurnInv, vars
<1> QED BY <1>2, <1>3, <1>4, <1>5, <1>6 DEF Next

-----------------------------------------------------------------------------
(* What is named is stored *)

\* An interaction is never deleted, and a save that lands stores one.
LEMMA StoredStays ==
    ASSUME TypeOK, [Next]_vars, NEW e \in Creators \X Stations, Exists(e)
    PROVE  Exists(e)'
<1>1. ASSUME Land PROVE Exists(e)'
  <2>1. PICK w \in writes : docs' = [docs EXCEPT ![w[2]] = w[3]]
    BY <1>1 DEF Land
  <2>2. w[2] \in Creators \X Stations /\ w[3] # "absent"
    BY DEF TypeOK, CheckedStates
  <2> QED BY <2>1, <2>2 DEF Exists, TypeOK
<1>2. ASSUME NEW v \in Visits, Arrival(v) PROVE Exists(e)'
  BY <1>2 DEF Exists, Arrival, ArriveRead, ArriveSave, ArriveLink, TypeOK
<1>3. ASSUME ~Land, \A v \in Visits : ~Arrival(v) PROVE docs' = docs
  BY <1>3 DEF Next, vars, Queueing, roomVars, Ended, Operation, Load, Refuse, Read, UpdateKnown,
              CreateNew, Link, AnswerKnown, WriteFails
<1> QED BY <1>1, <1>2, <1>3 DEF Exists

LEMMA NoneIsNoCreator == None \notin Creators
BY CallsAssumption, VisitsAssumption DEF Creators

LEMMA TableStep ==
    ASSUME TypeOK, TypeOK', StoredInv, [Next]_vars
    PROVE  TableNamesStored'
<1>1. ASSUME NEW s \in Stations, NEW x \in Creators, table'[s] = x
      PROVE  Exists(<<x, s>>)
  <2>1. CASE table[s] = x
    BY <2>1, NoneIsNoCreator DEF StoredInv, TableNamesStored
  <2>2. CASE table[s] # x
    <3>1. ASSUME NEW c \in Calls, Link(c) PROVE Exists(<<x, s>>)
      <4>1. s \in Unknown(c) /\ x = c /\ op[c] = "created" /\ Underway(c) = {}
        BY <1>1, <2>2, <3>1 DEF Link, Step
      <4>2. <<c, <<c, s>>, wanted[c]>> \notin writes
        BY <4>1 DEF Underway
      <4> QED BY <4>1, <4>2 DEF StoredInv
    <3>2. ASSUME NEW v \in Visits, ArriveLink(v) PROVE Exists(<<x, s>>)
      BY <1>1, <2>2, <3>2 DEF ArriveLink, TypeOK, StoredInv
    <3>3. ASSUME \A c \in Calls : ~Link(c), \A v \in Visits : ~ArriveLink(v)
          PROVE  table' = table
      BY <3>3 DEF Next, vars, Queueing, roomVars, Ended, Operation, Load, Refuse, Read,
                  UpdateKnown, CreateNew, AnswerKnown, WriteFails, Land, Arrival,
                  ArriveRead, ArriveSave
    <3> QED BY <1>1, <2>2, <3>1, <3>2, <3>3
  <2> QED BY <2>1, <2>2
<1>2. \A s \in Stations, x \in Creators : table'[s] = x => Exists(<<x, s>>)'
  BY <1>1, StoredStays
<1> QED BY <1>2 DEF TableNamesStored, TypeOK

\* Copies of the table are made of the table, and forgotten.
LEMMA CopyStep ==
    ASSUME TypeOK, TypeOK', StoredInv, [Next]_vars,
           NEW c \in Calls, NEW s \in Stations, NEW x \in Creators, snap'[c][s] = x
    PROVE  Exists(<<x, s>>)'
<1>1. snap[c][s] = x \/ table[s] = x
  <2>1. ASSUME NEW d \in Calls, Load(d) PROVE snap[c][s] = x \/ table[s] = x
    BY <2>1 DEF Load, TypeOK
  <2>2. ASSUME NEW d \in Calls, Ended(d) PROVE snap[c][s] = x
    BY <2>2, NoneIsNoCreator DEF Ended, TypeOK
  <2>3. ASSUME \A d \in Calls : ~Load(d) /\ ~Ended(d) PROVE snap' = snap
    BY <2>3 DEF Next, vars, Queueing, roomVars, Operation, Refuse, Read, UpdateKnown,
                CreateNew, Link, AnswerKnown, WriteFails, Land, Arrival, ArriveRead,
                ArriveSave, ArriveLink
  <2> QED BY <2>1, <2>2, <2>3
<1>2. Exists(<<x, s>>)
  BY <1>1, NoneIsNoCreator DEF StoredInv, TableNamesStored, Entry
<1> QED BY <1>2, StoredStays

\* A created interaction is stored or its save under way, until its call answers.
LEMMA CreatedStep ==
    ASSUME TypeOK, TypeOK', StoredInv, [Next]_vars,
           NEW c \in Calls, op'[c] = "created", NEW s \in Unknown(c)'
    PROVE  Exists(<<c, s>>)' \/ <<c, <<c, s>>, wanted'[c]>> \in writes'
<1>1. s \in Stations /\ c \in Creators
  BY KeysAssumption DEF Unknown, Stations, Creators
<1>2. snap'[c] = snap[c] /\ wanted' = wanted /\ (op[c] = "created" \/ CreateNew(c))
  <2>1. CASE \E d \in Calls : Operation(d)
    BY <2>1 DEF TypeOK, Operation, Load, Refuse, Read, UpdateKnown, CreateNew, Link, AnswerKnown,
                WriteFails, Step
  <2>2. CASE \E d \in Calls : Ended(d)
    BY <2>2 DEF TypeOK, Ended
  <2>3. CASE \A d \in Calls : ~Operation(d) /\ ~Ended(d)
    BY <2>3 DEF Next, vars, Queueing, roomVars, Land, Arrival, ArriveRead, ArriveSave, ArriveLink
  <2> QED BY <2>1, <2>2, <2>3
<1>3. s \in Unknown(c)
  BY <1>2 DEF Unknown, Known
<1>4. CASE CreateNew(c)
  BY <1>2, <1>3, <1>4 DEF CreateNew
<1>5. CASE op[c] = "created" /\ Exists(<<c, s>>)
  BY <1>1, <1>5, StoredStays
<1>6. CASE op[c] = "created" /\ <<c, <<c, s>>, wanted[c]>> \in writes
  <2>1. CASE Land
    <3> DEFINE mine == <<c, <<c, s>>, wanted[c]>>
    <3>1. PICK w \in writes : docs' = [docs EXCEPT ![w[2]] = w[3]] /\ writes' = writes \ {w}
      BY <2>1 DEF Land
    <3>2. CASE w = mine
      <4>1. docs' = [docs EXCEPT ![<<c, s>>] = wanted[c]]
        BY <3>1, <3>2
      <4>2. wanted[c] # "absent"
        BY DEF TypeOK, CheckedStates
      <4>3. docs'[<<c, s>>] = wanted[c]
        BY <1>1, <4>1 DEF TypeOK
      <4> QED BY <4>2, <4>3 DEF Exists
    <3>3. CASE w # mine
      BY <1>2, <1>6, <3>1, <3>3
    <3> QED BY <3>2, <3>3
  <2>2. ASSUME NEW d \in Calls, WriteFails(d)
        PROVE  <<c, <<c, s>>, wanted[c]>> \in writes'
    <3>1. d # c
      BY <2>2 DEF WriteFails, TypeOK
    <3> QED BY <1>6, <2>2, <3>1 DEF WriteFails, Underway
  <2>3. ASSUME ~Land, \A d \in Calls : ~WriteFails(d)
        PROVE  <<c, <<c, s>>, wanted[c]>> \in writes'
    BY <1>6, <2>3 DEF Next, vars, Queueing, roomVars, Ended, Operation, Load, Refuse, Read,
       UpdateKnown, CreateNew, Link, AnswerKnown, Arrival, ArriveRead, ArriveSave, ArriveLink
  <2> QED BY <1>2, <1>6, <2>1, <2>2, <2>3
<1> QED BY <1>2, <1>3, <1>4, <1>5, <1>6 DEF StoredInv

LEMMA ArrivedStep ==
    ASSUME TypeOK, TypeOK', StoredInv, [Next]_vars,
           NEW v \in Visits, visit'[v] = "saved"
    PROVE  Exists(<<v, StationOf[v]>>)'
<1>1. <<v, StationOf[v]>> \in Creators \X Stations
  BY VisitsAssumption DEF Creators, Stations
<1>2. CASE ArriveSave(v)
  BY <1>1, <1>2 DEF ArriveSave, TypeOK, Exists
<1>3. CASE ~ArriveSave(v)
  <2>1. visit[v] = "saved"
    <3>1. ASSUME NEW u \in Visits, Arrival(u) PROVE visit[v] = "saved"
      BY <1>3, <3>1 DEF Arrival, ArriveRead, ArriveSave, ArriveLink, TypeOK
    <3>2. ASSUME \A u \in Visits : ~Arrival(u) PROVE visit' = visit
      BY <3>2 DEF Next, vars, Queueing, roomVars, Ended, Operation, Load, Refuse, Read,
         UpdateKnown, CreateNew, Link, AnswerKnown, WriteFails, Land
    <3> QED BY <3>1, <3>2
  <2> QED BY <1>1, <2>1, StoredStays DEF StoredInv
<1> QED BY <1>2, <1>3

LEMMA StoredStep ==
    ASSUME TypeOK, TypeOK', StoredInv, [Next]_vars
    PROVE  StoredInv'
<1>1. ASSUME NEW c \in Calls, NEW s \in Stations, snap'[c][s] # None
      PROVE  Exists(Entry(c, s))'
  <2>1. PICK x \in Creators : snap'[c][s] = x
    BY <1>1 DEF TypeOK
  <2> QED BY <2>1, CopyStep DEF Entry
<1>2. \A c \in Calls : op'[c] = "created" =>
         \A s \in Unknown(c)' : Exists(<<c, s>>)' \/ <<c, <<c, s>>, wanted'[c]>> \in writes'
  BY CreatedStep
<1> QED BY <1>1, <1>2, TableStep, ArrivedStep DEF StoredInv

-----------------------------------------------------------------------------
(* One interaction per station *)

Active(c) == op[c] \in {"loaded", "read", "known", "created"}

\* Two calls never have a station in progress together.
LEMMA ActiveApart ==
    ASSUME TypeOK, KeyedInv, TurnInv, NEW c \in Calls, NEW d \in Calls, c # d, Active(c),
           pc[d] = "running", NEW s \in Unknown(c)
    PROVE  s \notin KeysOf[d]
<1>1. s \in held[c]
  BY DEF Active, TurnInv, Unknown
<1>2. KeysOf[d] \subseteq held[d]
  BY DEF TurnInv
<1> QED BY <1>1, <1>2, OneFreeOneHolder DEF OneHolderPerKey

\* Nothing is created for a station but by CreateNew.
LEMMA StartedSteps ==
    ASSUME TypeOK, StoredInv, [Next]_vars,
           NEW c \in Calls, NEW s \in Stations, Started(c, s)'
    PROVE  Started(c, s) \/ (CreateNew(c) /\ s \in Unknown(c))
<1> DEFINE e == <<c, s>>
<1>1. CASE Land
  <2>1. PICK w \in writes : docs' = [docs EXCEPT ![w[2]] = w[3]] /\ writes' = writes \ {w}
    BY <1>1 DEF Land
  <2>2. CASE w[2] = e
    BY <2>2 DEF Started
  <2>3. CASE w[2] # e
    <3>1. docs'[e] = docs[e]
      BY <2>1, <2>3 DEF TypeOK, Creators
    <3> QED BY <2>1, <3>1 DEF Started, Exists
  <2> QED BY <2>2, <2>3
<1>2. ASSUME NEW d \in Calls, UpdateKnown(d) PROVE Started(c, s)
  <2> DEFINE changed == {u \in Known(d) : was[d][u] # wanted[d]}
             lurkers == {u \in Known(d) : wanted[d] = "out" /\ was[d][u] = "default"}
  <2>1. docs' = docs /\ writes' = writes \cup SavesOf(d, changed \ lurkers)
    BY <1>2 DEF UpdateKnown
  <2>2. ASSUME NEW w \in SavesOf(d, changed \ lurkers), w[2] = e PROVE Exists(e)
    <3>1. PICK u \in Known(d) : w[2] = Entry(d, u)
      BY DEF SavesOf
    <3>2. u \in Stations /\ snap[d][u] # None
      BY EntryType DEF Known
    <3> QED BY <2>2, <3>1, <3>2 DEF StoredInv
  <2> QED BY <2>1, <2>2 DEF Started, Exists
<1>3. ASSUME NEW d \in Calls, CreateNew(d)
      PROVE  Started(c, s) \/ (CreateNew(c) /\ s \in Unknown(c))
  BY <1>3 DEF CreateNew, Started, Exists
<1>4. ASSUME NEW d \in Calls, WriteFails(d) PROVE Started(c, s)
  BY <1>4 DEF WriteFails, Started, Exists
<1>5. ASSUME NEW v \in Visits, ArriveSave(v) PROVE Started(c, s)
  <2>1. <<v, StationOf[v]>> # e
    BY VisitsAssumption
  <2>2. docs'[e] = docs[e] /\ writes' = writes
    BY <1>5, <2>1 DEF ArriveSave, TypeOK, Creators
  <2> QED BY <2>2 DEF Started, Exists
<1>6. ASSUME ~Land, \A d \in Calls : ~UpdateKnown(d) /\ ~CreateNew(d) /\ ~WriteFails(d),
             \A v \in Visits : ~ArriveSave(v)
      PROVE  docs' = docs /\ writes' = writes
  BY <1>6 DEF Next, vars, Queueing, roomVars, Ended, Operation, Load, Refuse, Read, Link,
              AnswerKnown, Arrival, ArriveRead, ArriveLink
<1> QED BY <1>1, <1>2, <1>3, <1>4, <1>5, <1>6 DEF Started, Exists

\* An operation works on the copy it loaded.
LEMMA ActiveSteps ==
    ASSUME TypeOK, [Next]_vars, NEW c \in Calls, Active(c)'
    PROVE  Load(c) \/ (Active(c) /\ snap'[c] = snap[c])
<1>1. ASSUME NEW d \in Calls, Operation(d)
      PROVE  Load(c) \/ (Active(c) /\ snap'[c] = snap[c])
  BY <1>1 DEF Active, TypeOK, Operation, Load, Refuse, Read, UpdateKnown, CreateNew, Link,
              AnswerKnown, WriteFails, Step
<1>2. ASSUME NEW d \in Calls, Ended(d) PROVE Active(c) /\ snap'[c] = snap[c]
  BY <1>2 DEF Active, Ended, TypeOK
<1>3. ASSUME \A d \in Calls : ~Operation(d) /\ ~Ended(d)
      PROVE  UNCHANGED <<op, snap>>
  BY <1>3 DEF Next, vars, Queueing, roomVars, Land, Arrival, ArriveRead, ArriveSave, ArriveLink
<1> QED BY <1>1, <1>2, <1>3 DEF Active

\* A call that has created its interactions enters them in the table or has failed.
LEMMA CreatedLeaves ==
    ASSUME TypeOK, [Next]_vars, NEW c \in Calls, op[c] = "created"
    PROVE  \/ op'[c] = "created" /\ snap'[c] = snap[c]
           \/ Link(c)
           \/ WriteFails(c)
<1>1. ASSUME NEW d \in Calls, Operation(d)
      PROVE  \/ op'[c] = "created" /\ snap'[c] = snap[c]
             \/ Link(c)
             \/ WriteFails(c)
  BY <1>1 DEF TypeOK, Operation, Load, Refuse, Read, UpdateKnown, CreateNew, Link,
              AnswerKnown, WriteFails, Step
<1>2. ASSUME NEW d \in Calls, Ended(d) PROVE op'[c] = "created" /\ snap'[c] = snap[c]
  BY <1>2 DEF Ended, TypeOK
<1>3. ASSUME \A d \in Calls : ~Operation(d) /\ ~Ended(d)
      PROVE  UNCHANGED <<op, snap>>
  BY <1>3 DEF Next, vars, Queueing, roomVars, Land, Arrival, ArriveRead, ArriveSave, ArriveLink
<1> QED BY <1>1, <1>2, <1>3

LEMMA TableStays ==
    ASSUME TypeOK, [Next]_vars, NEW s \in Stations, table[s] # None
    PROVE  table'[s] # None
<1>1. ASSUME NEW c \in Calls, Link(c) PROVE table'[s] # None
  BY <1>1, CallsAssumption DEF Link
<1>2. ASSUME NEW v \in Visits, ArriveLink(v) PROVE table'[s] # None
  BY <1>2, VisitsAssumption DEF ArriveLink, TypeOK
<1>3. ASSUME \A c \in Calls : ~Link(c), \A v \in Visits : ~ArriveLink(v)
      PROVE  table' = table
  BY <1>3 DEF Next, vars, Queueing, roomVars, Ended, Operation, Load, Refuse, Read, UpdateKnown,
              CreateNew, AnswerKnown, WriteFails, Land, Arrival, ArriveRead, ArriveSave
<1> QED BY <1>1, <1>2, <1>3

LEMMA NoFailure ==
    ASSUME TypeOK, [Next]_vars, failures' = 0
    PROVE  failures = 0 /\ \A c \in Calls : ~WriteFails(c)
<1>1. \A c \in Calls : ~WriteFails(c)
  BY DEF WriteFails, TypeOK
<1> QED BY <1>1 DEF Next, vars, Queueing, roomVars, Ended, Operation, Load, Refuse, Read,
           UpdateKnown, CreateNew, Link, AnswerKnown, Land, Arrival, ArriveRead, ArriveSave,
           ArriveLink

LEMMA OneStartedStep ==
    ASSUME TypeOK, KeyedInv, TurnInv, StoredInv, OneStarted, [Next]_vars
    PROVE  OneStarted'
<1> SUFFICES ASSUME failures' = 0, NEW c \in Calls, NEW s \in Stations, Started(c, s)'
             PROVE  /\ table'[s] # None \/ (op'[c] = "created" /\ s \in Unknown(c)')
                    /\ \A d \in Calls \ {c} : ~Started(d, s)' /\ (Active(d)' => s \notin Unknown(d)')
  BY DEF OneStarted, Active
<1>1. failures = 0 /\ \A d \in Calls : ~WriteFails(d)
  BY NoFailure
<1>2. Started(c, s) \/ (CreateNew(c) /\ s \in Unknown(c))
  BY StartedSteps
<1>3. table'[s] # None \/ (op'[c] = "created" /\ s \in Unknown(c)')
  <2>1. CASE CreateNew(c) /\ s \in Unknown(c)
    BY <2>1 DEF CreateNew, Step, Unknown, Known, TypeOK
  <2>2. CASE table[s] # None
    BY <2>2, TableStays
  <2>3. CASE op[c] = "created" /\ s \in Unknown(c)
    <3>1. CASE Link(c)
      BY <2>3, <3>1, CallsAssumption DEF Link
    <3>2. CASE op'[c] = "created" /\ snap'[c] = snap[c]
      BY <2>3, <3>2 DEF Unknown, Known
    <3> QED BY <1>1, <2>3, <3>1, <3>2, CreatedLeaves
  <2> QED BY <1>1, <1>2, <2>1, <2>2, <2>3 DEF OneStarted
<1>4. ASSUME NEW d \in Calls \ {c}
      PROVE  ~Started(d, s)' /\ (Active(d)' => s \notin Unknown(d)')
  <2>1. CASE CreateNew(c) /\ s \in Unknown(c)
    <3>1. op[c] = "known" /\ Active(c) /\ op'[d] = op[d] /\ snap' = snap /\ ~CreateNew(d) /\ ~Load(d)
      BY <2>1 DEF CreateNew, Load, Step, Active, TypeOK
    <3>2. ~Started(d, s)
      BY <1>1, <2>1, <3>1 DEF OneStarted
    <3>3. Active(d) => pc[d] = "running"
      BY DEF TurnInv, Active
    <3>4. Active(d) => s \notin KeysOf[d]
      BY <2>1, <3>1, <3>3, ActiveApart
    <3>5. Active(d)' => s \notin Unknown(d)'
      BY <3>1, <3>4 DEF Active, Unknown
    <3> QED BY <3>1, <3>2, <3>5, StartedSteps
  <2>2. CASE Started(c, s)
    <3>1. ~Started(d, s) /\ (Active(d) => s \notin Unknown(d))
      BY <1>1, <2>2 DEF OneStarted, Active
    <3>2. ~(CreateNew(d) /\ s \in Unknown(d))
      BY <3>1 DEF CreateNew, Step, Active
    <3>3. ASSUME Load(d), s \in Unknown(d)' PROVE FALSE
      <4>1. table[s] = None /\ s \in KeysOf[d] /\ pc[d] = "running"
        BY <3>3 DEF Load, Unknown, Known, TypeOK
      <4>2. Active(c) /\ s \in Unknown(c)
        BY <1>1, <2>2, <4>1 DEF OneStarted, Active
      <4> QED BY <4>1, <4>2, ActiveApart
    <3>4. ASSUME Active(d), snap'[d] = snap[d] PROVE s \notin Unknown(d)'
      BY <3>1, <3>4 DEF Unknown, Known
    <3> QED BY <3>1, <3>2, <3>3, <3>4, StartedSteps, ActiveSteps
  <2> QED BY <1>2, <2>1, <2>2
<1> QED BY <1>3, <1>4

-----------------------------------------------------------------------------
(* Theorems *)

LEMMA CheckInInvInit == Init => CheckInInv
<1> SUFFICES ASSUME Init PROVE CheckInInv
  OBVIOUS
<1>1. TypeOK /\ KeyedInv
  BY TypeInit, KeyedInvInit DEF Init
<1>2. TurnInv
  BY DEF Init, KeyedInit, TurnInv
<1>3. StoredInv
  BY DEF Init, StoredInv, TableNamesStored
<1>4. \A c \in Calls, s \in Stations : ~Started(c, s)
  BY DEF Init, Started, Exists, Creators
<1> QED BY <1>1, <1>2, <1>3, <1>4 DEF CheckInInv, OneStarted

LEMMA CheckInInvStep == CheckInInv /\ [Next]_vars => CheckInInv'
<1> SUFFICES ASSUME CheckInInv, [Next]_vars PROVE CheckInInv'
  OBVIOUS
<1>1. TypeOK /\ KeyedInv /\ ProgressInv /\ TurnInv /\ StoredInv /\ OneStarted
  BY DEF CheckInInv, KeyedInv
<1>2. KeyedInv'
  BY <1>1, KeyedStep, KeyedInvStep
<1>3. TypeOK'
  BY <1>1, TypeStep
<1> QED BY <1>1, <1>2, <1>3, TurnStep, StoredStep, OneStartedStep DEF CheckInInv

THEOREM CheckInInvariance == Spec => []CheckInInv
BY CheckInInvInit, CheckInInvStep, PTL DEF Spec

(* Every state of the check-in is well typed. *)
THEOREM TypeCorrect == Spec => []TypeOK
<1>1. CheckInInv => TypeOK
  BY DEF CheckInInv
<1> QED BY CheckInInvariance, <1>1, PTL

(* However check-ins and arrivals meet, fail and overtake one another, the lookup
   table names stored interactions only. *)
THEOREM TableIsSound == Spec => []TableNamesStored
<1>1. CheckInInv => TableNamesStored
  BY DEF CheckInInv, StoredInv
<1> QED BY CheckInInvariance, <1>1, PTL

(* Any number of parallel check-ins by net control of any stations create one
   interaction for each, as long as no save fails. *)
THEOREM OneEntryPerStation == Spec => []OneCheckInEntry
<1>1. CheckInInv => OneCheckInEntry
  BY DEF CheckInInv, OneStarted, Started, OneCheckInEntry
<1> QED BY CheckInInvariance, <1>1, PTL
=============================================================================
