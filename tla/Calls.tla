--------------------------------- MODULE Calls ---------------------------------
(***************************************************************************)
(* What the view models rely on when they call the API: the completion of  *)
(* every call runs, and runs once, unless the session answers with nothing *)
(* at all: such a call is lost.  HomeFeed, SearchNews and ImageCache are   *)
(* built on the rest; NewsAPI shows how it is kept.                        *)
(***************************************************************************)
CONSTANT Callers

VARIABLES
    open,      \* calls whose completion is still to run
    completed, \* calls whose completion has run
    lost       \* calls whose completion will never run

vars == <<open, completed, lost>>

Init == open = {} /\ completed = {} /\ lost = {}

Start(c) ==
    /\ c \notin open \cup completed \cup lost
    /\ open' = open \cup {c}
    /\ UNCHANGED <<completed, lost>>

Complete(c) ==
    /\ c \in open
    /\ open' = open \ {c}
    /\ completed' = completed \cup {c}
    /\ UNCHANGED lost

\* The completion runs within the call.
AtOnce(c) ==
    /\ c \notin open \cup completed \cup lost
    /\ completed' = completed \cup {c}
    /\ UNCHANGED <<open, lost>>

Lose(c) ==
    /\ c \in open
    /\ open' = open \ {c}
    /\ lost' = lost \cup {c}
    /\ UNCHANGED completed

Next == \E c \in Callers : Start(c) \/ Complete(c) \/ AtOnce(c) \/ Lose(c)

Safety == Init /\ [][Next]_vars

\* Every call is completed or lost in the end.
Spec == Safety /\ \A c \in Callers : c \in open ~> c \notin open
=============================================================================
