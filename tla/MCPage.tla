------------------------------- MODULE MCPage -------------------------------
(* A small logger page.  Its parts share no state: a step of one changes nothing
   another one reads, so each is checked while the others stand still, and `part`
   says which one is at work. *)
EXTENDS LoggerPage

CONSTANTS m1, m2, p1

VARIABLE part

\* m1 is public, m2 private.
OfMessage == [m \in {m1, m2} |-> IF m = m1 THEN None ELSE p1]

MCInit ==
    /\ part \in {"modals", "overlays", "groups", "photos", "profiles"}
    /\ PageInit
    \* A part at rest is in one of its initial states; what the account says at first is as good as anything else.
    /\ part # "modals" => ~browser.watches /\ ~browser.touch
    /\ part # "overlays" => ~phone
    /\ part # "groups" => known
    /\ account = [f \in Fields |-> CHOOSE o \in Own : TRUE]
    /\ part # "profiles" => doc = Profiles!NewDoc(None, None) /\ room.shows # account /\ lookup = "none"

MCNext ==
    \/ part = "modals" /\ ModalStep /\ UNCHANGED part
    \/ part = "overlays" /\ OverlayStep /\ UNCHANGED part
    \/ part = "groups" /\ GroupStep /\ UNCHANGED part
    \/ part = "photos" /\ PhotoStep /\ UNCHANGED part
    \/ part = "profiles" /\ ProfileStep /\ UNCHANGED part

MCSpec == MCInit /\ [][MCNext]_<<part, pageVars>>
=============================================================================
