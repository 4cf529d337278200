-------------------------------- MODULE NewsAPI --------------------------------
(***************************************************************************)
(* API.request and its callers getTopHeadlines, getEverything and          *)
(* downloadImage.  The session ends a task on a queue of its own and the   *)
(* handler hops to the main queue, where the completion runs after what    *)
(* was queued before it.  An answer is known by what the handler is given: *)
(* data, an error, both or neither.                                        *)
(***************************************************************************)
EXTENDS Naturals, Sequences

CONSTANTS
    Callers,  \* the calls, one of each made at most
    Kind      \* per call: "headlines", "everything" or "image"

ASSUME NewsAPIAssumption ==
    Kind \in [Callers -> {"headlines", "everything", "image"}]

VARIABLES
    made,     \* the calls made
    tasks,    \* the URLSession tasks that have not ended
    queue,    \* the blocks on the main queue: a call and what it was given
    results,  \* per call: the results its completion was given, in order
    \* History, read by no action:
    silent    \* the calls whose handler was given neither data nor error

vars == <<made, tasks, queue, results, silent>>

\* An error may come with the data read before it.
Answers ==
    [data : {"page", "none"}, error : BOOLEAN]
    \cup {[data |-> "unreadable", error |-> FALSE]}

Init ==
    /\ made = {}
    /\ tasks = {}
    /\ queue = <<>>
    /\ results = [c \in Callers |-> <<>>]
    /\ silent = {}

-----------------------------------------------------------------------------
(* Calls.                                                                  *)

\* The category health is refused, and so is an image's text that is no URL;
\* percent encoding makes one of every query.
RefusedWithoutTask(c) ==
    /\ c \notin made
    /\ Kind[c] \in {"headlines", "image"}
    /\ made' = made \cup {c}
    /\ results' = [results EXCEPT ![c] = Append(@, "failure")]
    /\ UNCHANGED <<tasks, queue, silent>>

Resume(c) ==
    /\ c \notin made
    /\ made' = made \cup {c}
    /\ tasks' = tasks \cup {c}
    /\ UNCHANGED <<queue, results, silent>>

\* The session calls the handler, which only queues a block.
SessionEnds(c, a) ==
    /\ c \in tasks
    /\ tasks' = tasks \ {c}
    /\ queue' = Append(queue, [call |-> c, answer |-> a])
    /\ UNCHANGED <<made, results, silent>>

-----------------------------------------------------------------------------
(* The main queue.                                                         *)

\* Mutant: data that cannot be decoded is dropped.
DecodedSilently(c, data) ==
    IF data = "unreadable" THEN <<>> ELSE <<"success">>
\* Decoding throws on what is no answer of the service; an image that cannot be
\* read is nil.
Decoded(c, data) ==
    IF data = "unreadable" THEN <<"failure">> ELSE <<"success">>

\* Mutant: the data is looked at after an error, too.
CompletionsBoth(c, a) ==
    (IF a.error THEN <<"failure">> ELSE <<>>)
    \o (IF a.data # "none" THEN Decoded(c, a.data) ELSE <<>>)
\* What the completion is called with: nothing if there is neither.
Completions(c, a) ==
    IF a.error THEN <<"failure">>
    ELSE IF a.data # "none" THEN Decoded(c, a.data) ELSE <<>>

MainTurn ==
    /\ queue # <<>>
    /\ LET c == Head(queue).call
           a == Head(queue).answer
       IN  /\ results' = [results EXCEPT ![c] = @ \o Completions(c, a)]
           /\ silent' = silent \cup (IF a.data = "none" /\ ~a.error THEN {c} ELSE {})
    /\ queue' = Tail(queue)
    /\ UNCHANGED <<made, tasks>>

Next ==
    \/ \E c \in Callers : RefusedWithoutTask(c) \/ Resume(c)
    \/ \E c \in Callers, a \in Answers : SessionEnds(c, a)
    \/ MainTurn

Spec == Init /\ [][Next]_vars

\* Every task ends, by an answer, an error or its timeout, and the main queue is
\* served.
FairSpec ==
    /\ Spec
    /\ \A c \in Callers : WF_vars(\E a \in Answers : SessionEnds(c, a))
    /\ WF_vars(MainTurn)

-----------------------------------------------------------------------------
(* Properties.                                                             *)

Queued == {queue[k].call : k \in DOMAIN queue}
Completed == {c \in made : results[c] # <<>>}

\* No completion runs twice, whatever the session gives the handler, and none
\* runs for a call whose task has not ended.
CompletesOnce ==
    \A c \in Callers :
        /\ Len(results[c]) <= 1
        /\ c \in tasks \cup Queued => results[c] = <<>>

CallsOf == INSTANCE Calls WITH
    open <- made \ (Completed \cup silent),
    completed <- Completed,
    lost <- silent

\* What the view models rely on: every call completes, once, but for those the
\* session answers with nothing.
ImplementsCalls == CallsOf!Spec
=============================================================================
