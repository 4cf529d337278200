--------------------------- MODULE RealmObservation ---------------------------
(***************************************************************************)
(* What the screens of the app may rely on when they observe a collection  *)
(* of the Realm: an observer that has not heard of a change is told of it  *)
(* in the end, changes made meanwhile are told together, and no write      *)
(* block runs while somebody still has something to hear.  Bookmarks       *)
(* assumes this; RealmNotifier shows how Realm keeps it.                   *)
(***************************************************************************)
CONSTANT Observers

VARIABLES
    observing,  \* who has a callback
    pending,    \* who has something to hear, its first notification included
    writing     \* a write block runs

vars == <<observing, pending, writing>>

Init ==
    /\ observing = {}
    /\ pending = {}
    /\ writing = FALSE

Observe(o) ==
    /\ ~writing
    /\ o \notin observing
    /\ observing' = observing \cup {o}
    /\ pending' = pending \cup {o}
    /\ UNCHANGED writing

\* A token was invalidated, or observers were told that notifying failed.
Leave(S) ==
    /\ observing' = observing \ S
    /\ pending' = pending \ S
    /\ UNCHANGED writing

Tell(o) ==
    /\ o \in pending
    /\ pending' = pending \ {o}
    /\ UNCHANGED <<observing, writing>>

Begin ==
    /\ ~writing
    /\ pending = {}
    /\ writing' = TRUE
    /\ UNCHANGED <<observing, pending>>

\* The write ends: it changed the collection, or it did not.
End ==
    /\ writing
    /\ writing' = FALSE
    /\ pending' \in {observing, pending}
    /\ UNCHANGED observing

\* Another thread or process changed the collection.
ChangedElsewhere ==
    /\ ~writing
    /\ pending' = observing
    /\ UNCHANGED <<observing, writing>>

Next ==
    \/ \E o \in Observers : Observe(o) \/ Tell(o)
    \/ \E S \in SUBSET Observers : Leave(S)
    \/ Begin
    \/ End
    \/ ChangedElsewhere

Safety == Init /\ [][Next]_vars

\* Whoever has something to hear does hear, or stops observing.
Heard ==
    \A o \in Observers : o \in pending ~> o \notin pending

Spec == Safety /\ Heard
=============================================================================
