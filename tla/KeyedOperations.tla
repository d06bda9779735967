--------------------------- MODULE KeyedOperations ---------------------------
(***************************************************************************)
(* keyedOperation.js: operations that name a key run one after the other.  *)
(*                                                                         *)
(* operationTails maps a key to the promise of the last call that asked    *)
(* for it; a newcomer puts its own promise there and awaits the one it     *)
(* found.  A call with several keys asks for them in sorted order, each    *)
(* when it has the one before, and gives them back from the last.          *)
(*                                                                         *)
(* A call asks for a key once, so the promise of call c for key k is       *)
(* written <<c, k>>, and a map entry, which has its key, just c.  What     *)
(* runs between two awaits is one action.                                  *)
(***************************************************************************)
EXTENDS Naturals

CONSTANTS
    Keys,       \* the keys, as numbers in their sort order
    Calls,      \* calls of withKeyedOperations, each made once
    KeysOf,     \* the keys of each call
    None

ASSUME KeysAssumption == Keys \subseteq Nat /\ KeysOf \in [Calls -> SUBSET Keys]
ASSUME CallsAssumption == None \notin Calls /\ None \notin Keys

VARIABLES
    tails,      \* operationTails
    pc,
    at,         \* the key whose turn a call awaits
    behind,     \* whose promise it found there
    held,       \* the keys whose turn it has
    resolved    \* the promises resolved

keyedVars == <<tails, pc, at, behind, held, resolved>>

KeyedTypeOK ==
    /\ tails \in [Keys -> Calls \cup {None}]
    /\ pc \in [Calls -> {"new", "waiting", "running", "leaving", "done"}]
    /\ at \in [Calls -> Keys \cup {None}]
    /\ behind \in [Calls -> Calls \cup {None}]
    /\ held \in [Calls -> SUBSET Keys]
    /\ resolved \in SUBSET (Calls \X Keys)

KeyedInit ==
    /\ tails = [k \in Keys |-> None]
    /\ pc = [c \in Calls |-> "new"]
    /\ at = [c \in Calls |-> None]
    /\ behind = [c \in Calls |-> None]
    /\ held = [c \in Calls |-> {}]
    /\ resolved = {}

-----------------------------------------------------------------------------
\* Mutation of Following: the keys are taken in the order the caller has them.
FollowingUnsorted(c, got) == KeysOf[c] \ got

\* The key that call c asks for when it has those in got: none at the end.
Following(c, got) ==
    {k \in KeysOf[c] \ got : \A j \in KeysOf[c] \ got : k <= j}

\* run(index): the operation if no key is left, else the next key's queue.
RunFrom(c, got) ==
    \/ /\ KeysOf[c] \subseteq got
       /\ pc' = [pc EXCEPT ![c] = "running"]
       /\ at' = [at EXCEPT ![c] = None]
       /\ behind' = [behind EXCEPT ![c] = None]
       /\ UNCHANGED tails
    \/ \E k \in Following(c, got) :
          /\ pc' = [pc EXCEPT ![c] = "waiting"]
          /\ at' = [at EXCEPT ![c] = k]
          /\ behind' = [behind EXCEPT ![c] = tails[k]]
          /\ tails' = [tails EXCEPT ![k] = c]

Call(c) ==
    /\ pc[c] = "new"
    /\ RunFrom(c, {})
    /\ UNCHANGED <<held, resolved>>

\* The promise awaited is resolved: the call has its turn.
Proceed(c) ==
    /\ pc[c] = "waiting"
    /\ behind[c] = None \/ <<behind[c], at[c]>> \in resolved
    /\ held' = [held EXCEPT ![c] = @ \cup {at[c]}]
    /\ RunFrom(c, held[c] \cup {at[c]})
    /\ UNCHANGED resolved

\* The operation has ended, with an answer or an error.
Finish(c) ==
    /\ pc[c] = "running"
    /\ pc' = [pc EXCEPT ![c] = IF held[c] = {} THEN "done" ELSE "leaving"]
    /\ UNCHANGED <<tails, at, behind, held, resolved>>

Innermost(c, k) == k \in held[c] /\ \A j \in held[c] : j <= k

\* Mutation of Release: the map's entry is deleted whoever's it is.
ReleaseAlwaysDeletes(c) ==
    \E k \in Keys :
        /\ pc[c] = "leaving" /\ Innermost(c, k)
        /\ resolved' = resolved \cup {<<c, k>>}
        /\ tails' = [tails EXCEPT ![k] = None]
        /\ held' = [held EXCEPT ![c] = @ \ {k}]
        /\ pc' = [pc EXCEPT ![c] = IF held[c] = {k} THEN "done" ELSE "leaving"]
        /\ UNCHANGED <<at, behind>>

\* Mutation of Release: the entry is left in the map.
ReleaseNeverDeletes(c) ==
    \E k \in Keys :
        /\ pc[c] = "leaving" /\ Innermost(c, k)
        /\ resolved' = resolved \cup {<<c, k>>}
        /\ held' = [held EXCEPT ![c] = @ \ {k}]
        /\ pc' = [pc EXCEPT ![c] = IF held[c] = {k} THEN "done" ELSE "leaving"]
        /\ UNCHANGED <<tails, at, behind>>

\* The finally block of the innermost withKeyedOperation still open.
Release(c) ==
    \E k \in Keys :
        /\ pc[c] = "leaving" /\ Innermost(c, k)
        /\ resolved' = resolved \cup {<<c, k>>}
        /\ tails' = [tails EXCEPT ![k] = IF @ = c THEN None ELSE @]
        /\ held' = [held EXCEPT ![c] = @ \ {k}]
        /\ pc' = [pc EXCEPT ![c] = IF held[c] = {k} THEN "done" ELSE "leaving"]
        /\ UNCHANGED <<at, behind>>

KeyedNext == \E c \in Calls : Call(c) \/ Proceed(c) \/ Finish(c) \/ Release(c)

KeyedSpec == KeyedInit /\ [][KeyedNext]_keyedVars

-----------------------------------------------------------------------------
(* No two calls have their turn at the same key: what withKeyedOperation is
   for, and what the chain of promises must give through every interleaving
   of newcomers with a release that empties the map. *)
OneHolderPerKey == \A c, d \in Calls : c # d => held[c] \cap held[d] = {}

\* Call c has a promise for k in the queue, not resolved yet.
Queued(c, k) == k \in held[c] \/ (pc[c] = "waiting" /\ at[c] = k)

(* The map names only calls still in a queue: it does not grow with the
   stations of every net ever run. *)
TailsAreQueued == \A k \in Keys : tails[k] # None => Queued(tails[k], k)

(* Every call that waits gets all its keys, runs and leaves: two calls with
   keys in common never wait for each other. *)
EveryCallServed == \A c \in Calls : pc[c] = "waiting" ~> pc[c] = "done"
=============================================================================
