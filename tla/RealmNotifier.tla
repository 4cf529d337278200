----------------------------- MODULE RealmNotifier -----------------------------
(***************************************************************************)
(* How Realm tells the app's screens of changes: the Realm of the main     *)
(* thread, its coordinator, and the worker thread that looks for changes.  *)
(* A commit wakes the worker; the worker runs the observed queries at the  *)
(* new version, hands the changes over and signals the run loop of the     *)
(* main thread, which calls the callbacks.  A write that begins earlier    *)
(* waits for the worker and calls them itself.  What m_notifier_mutex      *)
(* guards is one step; between such steps the threads interleave.          *)
(* A set of changes is the set of the versions that made them.             *)
(***************************************************************************)
EXTENDS Naturals

CONSTANTS
    Observers,    \* notifiers: each an observed query with its one callback
    MaxVersion,   \* bound: the versions of the file
    Elsewhere,    \* other threads or processes write the file
    OpenMayFail   \* opening the file for the worker may fail

ASSUME RealmNotifierAssumption ==
    /\ MaxVersion \in Nat \ {0}
    /\ Elsewhere \in BOOLEAN
    /\ OpenMayFail \in BOOLEAN

VARIABLES
    latest,       \* the newest version in the file
    touched,      \* the versions that changed the collection
    announced,    \* every commit made elsewhere has written to the pipe
    at,           \* the version the main thread's Realm reads
    main,         \* where the main thread is
    queue,        \* the notifiers it still has to deliver
    obs,          \* the notifiers
    sg,           \* m_notifier_sg: "closed", "ready" or "reading"
    advancer,     \* m_advancer_sg, and the version it pins while reading
    skipVersion,  \* m_notifier_skip_version, 0 for none
    asyncError,   \* m_async_error
    worker,       \* where the worker is, and the locals of its pass
    woken,        \* kqueue has an event for the worker
    signalled,    \* the main thread's run loop source is signalled
    \* History, read by no action:
    heard         \* per observer: the version first shown, the changes told since

file == <<latest, touched, announced>>
coordinator == <<sg, advancer, skipVersion, asyncError>>
vars == <<file, at, main, queue, obs, coordinator, worker, woken, signalled,
          heard>>

Versions == 0..MaxVersion

\* A notifier.  place: in no list, in m_new_notifiers or in m_notifiers; alive: m_realm is
\* set; callback: it has one; rows: the version of m_previous_rows; changes,
\* accumulated and deliver: m_changes and the callback's two sets.
NoNotifier ==
    [place |-> "none", alive |-> FALSE, callback |-> FALSE, hasRun |-> FALSE,
     version |-> 0, rows |-> 0, changes |-> {}, accumulated |-> {},
     deliver |-> {}, initialDelivered |-> FALSE]

Asleep == [pc |-> "asleep", target |-> 0, skip |-> 0, old |-> {}, fresh |-> {}]

Init ==
    /\ latest = 1
    /\ touched = {}
    /\ announced = TRUE
    /\ at = 1
    /\ main = "idle"
    /\ queue = {}
    /\ obs = [o \in Observers |-> NoNotifier]
    /\ sg = "closed"
    /\ advancer = [stage |-> "closed", version |-> 0]
    /\ skipVersion = 0
    /\ asyncError = FALSE
    /\ worker = Asleep
    /\ woken = FALSE
    /\ signalled = FALSE
    /\ heard = [o \in Observers |-> [since |-> 0, seen |-> {}]]

\* notifiers_for_realm.
Mine == {o \in Observers : obs[o].alive}
At(place) == {o \in Observers : obs[o].place = place}
Dead(place) == At(place) \ Mine
Live(place) == At(place) \cap Mine

\* What changed between two versions.
Between(v, w) == {x \in touched : v < x /\ x <= w}

\* The main thread holds the file's write lock.
Writer == main \in {"waiting", "telling", "writing"}

-----------------------------------------------------------------------------
(* Observing.                                                              *)

\* pin_version: the advancer reads the oldest version a new notifier needs.
Pinned ==
    IF At("new") = {} \/ at < advancer.version
    THEN [stage |-> "reading", version |-> at]
    ELSE advancer

\* prepare_async, register_notifier and add_callback.
Observe(o) ==
    /\ main = "idle"
    /\ obs[o].place = "none"
    /\ obs' = [obs EXCEPT ![o] = [NoNotifier EXCEPT
                  !.place = "new", !.alive = TRUE, !.callback = TRUE,
                  !.version = at]]
    /\ heard' = [heard EXCEPT ![o] = [since |-> 0, seen |-> {}]]
    /\ \/ /\ asyncError
          /\ UNCHANGED <<advancer, asyncError>>
       \/ /\ ~asyncError
          /\ advancer' = Pinned
          /\ UNCHANGED asyncError
       \/ /\ ~asyncError
          /\ OpenMayFail
          /\ advancer.stage = "closed"
          /\ asyncError' = TRUE
          /\ UNCHANGED advancer
    /\ woken' = TRUE
    /\ UNCHANGED <<file, at, main, queue, sg, skipVersion, worker, signalled>>

\* The token is invalidated: remove_callback frees the block, the block the
\* collection, and that unregisters the notifier.  The worker is not woken.
Invalidate(o) ==
    /\ main = "idle"
    /\ o \in Mine
    /\ obs' = [obs EXCEPT ![o].alive = FALSE, ![o].callback = FALSE]
    /\ UNCHANGED <<file, at, main, queue, coordinator, worker, woken, signalled,
                   heard>>

-----------------------------------------------------------------------------
(* Calling callbacks.                                                      *)

\* package_for_delivery.
Packaged(n) == [n EXCEPT !.deliver = n.accumulated, !.accumulated = {}]

Package(S) ==
    /\ obs' = [o \in Observers |-> IF o \in S THEN Packaged(obs[o]) ELSE obs[o]]
    /\ queue' = S

\* after_advance of one notifier: nothing to tell, or the callback is called.
Deliver(o) ==
    /\ main \in {"telling", "notifying"}
    /\ o \in queue
    /\ queue' = queue \ {o}
    /\ obs' = [obs EXCEPT ![o].initialDelivered = TRUE, ![o].deliver = {}]
    /\ heard' = [heard EXCEPT ![o].seen = @ \cup obs[o].deliver]
    /\ UNCHANGED <<file, at, main, coordinator, worker, woken, signalled>>

Delivered ==
    /\ main \in {"telling", "notifying"}
    /\ queue = {}
    /\ main' = IF main = "telling" THEN "writing" ELSE "idle"
    /\ UNCHANGED <<file, at, queue, obs, coordinator, worker, woken, signalled,
                   heard>>

\* deliver_error: every callback is told of the error and removed, which frees the
\* block and, as in Invalidate, unregisters the notifier.
DeliverErrors ==
    /\ obs' = [o \in Observers |->
                  [obs[o] EXCEPT !.callback = FALSE, !.alive = FALSE]]
    /\ at' = latest

-----------------------------------------------------------------------------
(* Realm::notify, in a turn of the main thread's run loop.                 *)

Turn ==
    /\ main = "idle"
    /\ signalled
    /\ signalled' = FALSE
    /\ UNCHANGED <<file, coordinator, worker, woken, heard>>

NotifyError ==
    /\ Turn
    /\ asyncError
    /\ DeliverErrors
    /\ UNCHANGED <<main, queue>>

\* Mutant: the version the changes lead to is not looked at.
Available == {o \in Mine : obs[o].hasRun}
\* process_available_async: the Realm is at the newest version.
Deliverable == {o \in Mine : obs[o].hasRun /\ obs[o].version = at}

NotifyAvailable ==
    /\ Turn
    /\ ~asyncError
    /\ at = latest
    /\ Package(Deliverable)
    /\ main' = IF Deliverable = {} THEN "idle" ELSE "notifying"
    /\ UNCHANGED at

\* advance_to_ready: to the version of the notifiers that have run.
NotifyAdvance ==
    /\ Turn
    /\ ~asyncError
    /\ at < latest
    /\ LET ready == {o \in Mine : obs[o].hasRun}
       IN  \/ /\ ready = {}
              /\ at' = latest
              /\ UNCHANGED <<main, queue, obs>>
           \/ \E o \in ready :
                 IF obs[o].version < at
                 THEN /\ obs' = [p \in Observers |->
                                    IF p \in ready THEN Packaged(obs[p])
                                    ELSE obs[p]]
                      /\ UNCHANGED <<at, main, queue>>
                 ELSE /\ Package(ready)
                      /\ at' = obs[o].version
                      /\ main' = "notifying"

-----------------------------------------------------------------------------
(* Writing on the main thread.                                             *)

\* Mutant: notifiers that never ran are not waited for.
CaughtUpOnceRun(o) == obs[o].hasRun => obs[o].version >= latest
\* What package_and_wait waits for.
CaughtUp(o) == obs[o].hasRun /\ obs[o].version >= latest
Ready == \A o \in Mine : obs[o].callback => CaughtUp(o)

\* promote_to_write, with the write lock: nobody to tell, or only an error.
BeginAtOnce ==
    /\ main = "idle"
    /\ Mine = {} \/ asyncError
    /\ DeliverErrors
    /\ main' = "telling"
    /\ UNCHANGED <<file, queue, coordinator, worker, woken, signalled, heard>>

\* The worker is woken if it is behind.
BeginWait ==
    /\ main = "idle"
    /\ Mine # {}
    /\ ~asyncError
    /\ main' = "waiting"
    /\ woken' = (woken \/ ~Ready)
    /\ UNCHANGED <<file, at, queue, obs, coordinator, worker, signalled, heard>>

\* The callbacks are called before the write block runs.
BeginTell ==
    /\ main = "waiting"
    /\ Ready
    /\ Package({o \in Mine : obs[o].hasRun})
    /\ at' = latest
    /\ main' = "telling"
    /\ UNCHANGED <<file, coordinator, worker, woken, signalled, heard>>

\* commit_write, up to the unlock of m_notifier_mutex.
Commit(changing) ==
    /\ main = "writing"
    /\ latest < MaxVersion
    /\ latest' = latest + 1
    /\ touched' = touched \cup (IF changing THEN {latest'} ELSE {})
    /\ at' = latest'
    /\ skipVersion' = IF Live("listed") # {} THEN latest' ELSE skipVersion
    /\ main' = "committed"
    /\ UNCHANGED <<announced, queue, obs, sg, advancer, asyncError, worker, woken,
                   signalled, heard>>

\* Mutant: the commit wakes nobody.
NoOthers == woken
NotifyOthers == TRUE

CommitNotifies ==
    /\ main = "committed"
    /\ main' = "idle"
    /\ woken' = NotifyOthers
    /\ UNCHANGED <<file, at, queue, obs, coordinator, worker, signalled, heard>>

Cancel ==
    /\ main = "writing"
    /\ main' = "idle"
    /\ UNCHANGED <<file, at, queue, obs, coordinator, worker, woken, signalled,
                   heard>>

-----------------------------------------------------------------------------
(* Other threads and processes that write the file.                        *)

CommitElsewhere(changing) ==
    /\ Elsewhere
    /\ ~Writer
    /\ latest < MaxVersion
    /\ latest' = latest + 1
    /\ touched' = touched \cup (IF changing THEN {latest'} ELSE {})
    /\ announced' = FALSE
    /\ UNCHANGED <<at, main, queue, obs, coordinator, worker, woken, signalled,
                   heard>>

Announce ==
    /\ ~announced
    /\ announced' = TRUE
    /\ woken' = TRUE
    /\ UNCHANGED <<latest, touched, at, main, queue, obs, coordinator, worker,
                   signalled, heard>>

-----------------------------------------------------------------------------
(* The worker: listen, on_change and run_async_notifiers.                  *)

Listen ==
    /\ worker.pc = "asleep"
    /\ woken
    /\ woken' = FALSE
    /\ worker' = [worker EXCEPT !.pc = "woken"]
    /\ UNCHANGED <<file, at, main, queue, obs, coordinator, signalled, heard>>

\* clean_up_dead_notifiers.
Cleaned ==
    [o \in Observers |-> IF obs[o].alive THEN obs[o] ELSE NoNotifier]
CleanEndsRead == Dead("listed") # {} /\ Live("listed") = {} /\ sg # "closed"
CleanSg == IF CleanEndsRead THEN "ready" ELSE sg
\* Mutant: the version to skip outlives the notifiers.
SkipKept == skipVersion
CleanSkip == IF CleanEndsRead THEN 0 ELSE skipVersion
CleanAdvancer ==
    IF Dead("new") # {} /\ Live("new") = {} /\ advancer.stage # "closed"
    THEN [stage |-> "ready", version |-> 0]
    ELSE advancer

\* The new notifiers join the others.
Joined == [o \in Observers |->
              IF Cleaned[o].place = "new"
              THEN [Cleaned[o] EXCEPT !.place = "listed"]
              ELSE Cleaned[o]]

PassEmpty ==
    /\ worker.pc = "woken"
    /\ Mine = {}
    /\ obs' = Cleaned
    /\ sg' = CleanSg
    /\ skipVersion' = CleanSkip
    /\ advancer' = CleanAdvancer
    /\ worker' = [worker EXCEPT !.pc = "signalling"]
    /\ UNCHANGED <<file, at, main, queue, asyncError, woken, signalled, heard>>

PassFails ==
    /\ worker.pc = "woken"
    /\ Mine # {}
    /\ asyncError \/ (OpenMayFail /\ sg = "closed")
    /\ asyncError' = TRUE
    /\ obs' = Joined
    /\ sg' = CleanSg
    /\ skipVersion' = CleanSkip
    /\ advancer' = CleanAdvancer
    /\ worker' = [worker EXCEPT !.pc = "signalling"]
    /\ UNCHANGED <<file, at, main, queue, woken, signalled, heard>>

PassStarts ==
    /\ worker.pc = "woken"
    /\ Mine # {}
    /\ ~asyncError
    /\ obs' = Joined
    /\ sg' = "reading"
    /\ skipVersion' = 0
    /\ advancer' = [stage |-> "ready", version |-> 0]
    /\ worker' = [pc |-> IF CleanSkip = 0 THEN "running" ELSE "skipping",
                  target |-> latest, skip |-> CleanSkip,
                  old |-> Live("listed"), fresh |-> Live("new")]
    /\ UNCHANGED <<file, at, main, queue, asyncError, woken, signalled, heard>>

\* ResultsNotifier::run: a first run has no changes, only rows.
Run(n, v) ==
    IF n.alive
    THEN [n EXCEPT !.rows = v,
                   !.changes = IF n.hasRun /\ n.callback
                               THEN Between(n.rows, v) ELSE @]
    ELSE n

\* Mutant: the changes handed over replace those not yet delivered.
HandedOverLast(n, v) ==
    [n EXCEPT !.version = v, !.hasRun = TRUE, !.changes = {},
              !.accumulated = IF n.callback THEN n.changes ELSE {}]
\* prepare_handover and add_changes.
HandedOver(n, v) ==
    [n EXCEPT !.version = v, !.hasRun = TRUE, !.changes = {},
              !.accumulated = IF n.callback THEN @ \cup n.changes ELSE {}]

RunSkipped ==
    /\ worker.pc = "skipping"
    /\ obs' = [o \in Observers |->
                  IF o \in worker.old THEN Run(obs[o], worker.skip) ELSE obs[o]]
    /\ worker' = [worker EXCEPT !.pc = "skipped"]
    /\ UNCHANGED <<file, at, main, queue, coordinator, woken, signalled, heard>>

HandOverSkipped ==
    /\ worker.pc = "skipped"
    /\ obs' = [o \in Observers |->
                  IF o \in worker.old THEN HandedOver(obs[o], worker.skip)
                  ELSE obs[o]]
    /\ worker' = [worker EXCEPT !.pc = "running"]
    /\ UNCHANGED <<file, at, main, queue, coordinator, woken, signalled, heard>>

RunNotifiers ==
    /\ worker.pc = "running"
    /\ obs' = [o \in Observers |->
                  IF o \in worker.old \cup worker.fresh
                  THEN Run(obs[o], worker.target) ELSE obs[o]]
    /\ heard' = [o \in Observers |->
                    IF o \in worker.fresh
                    THEN [heard[o] EXCEPT !.since = worker.target] ELSE heard[o]]
    /\ worker' = [worker EXCEPT !.pc = "ran"]
    /\ UNCHANGED <<file, at, main, queue, coordinator, woken, signalled>>

\* The notifiers that died meanwhile are cleaned up under the same lock.
HandOver ==
    /\ worker.pc = "ran"
    /\ obs' = [o \in Observers |->
                  IF o \in worker.old \cup worker.fresh /\ obs[o].alive
                  THEN HandedOver(obs[o], worker.target) ELSE Cleaned[o]]
    /\ sg' = CleanSg
    /\ skipVersion' = CleanSkip
    /\ advancer' = CleanAdvancer
    /\ worker' = [worker EXCEPT !.pc = "signalling"]
    /\ UNCHANGED <<file, at, main, queue, asyncError, woken, signalled, heard>>

Signal ==
    /\ worker.pc = "signalling"
    /\ worker' = Asleep
    /\ signalled' = TRUE
    /\ UNCHANGED <<file, at, main, queue, obs, coordinator, woken, heard>>

-----------------------------------------------------------------------------

Worker ==
    \/ Listen
    \/ PassEmpty
    \/ PassFails
    \/ PassStarts
    \/ RunSkipped
    \/ HandOverSkipped
    \/ RunNotifiers
    \/ HandOver
    \/ Signal

RunLoop ==
    \/ NotifyError
    \/ NotifyAvailable
    \/ NotifyAdvance

\* What the main thread does once it began.
Proceed ==
    \/ \E o \in Observers : Deliver(o)
    \/ Delivered
    \/ BeginTell
    \/ CommitNotifies

Next ==
    \/ \E o \in Observers : Observe(o) \/ Invalidate(o)
    \/ BeginAtOnce
    \/ BeginWait
    \/ \E changing \in BOOLEAN : Commit(changing) \/ CommitElsewhere(changing)
    \/ Cancel
    \/ Announce
    \/ Proceed
    \/ RunLoop
    \/ Worker

Spec == Init /\ [][Next]_vars

\* Both threads are scheduled, a write block ends, an idle run loop serves its
\* source, and whoever committed elsewhere writes to the pipe.
Fairness ==
    /\ WF_vars(Worker)
    /\ WF_vars(RunLoop)
    /\ WF_vars(Proceed)
    /\ WF_vars(Cancel \/ \E changing \in BOOLEAN : Commit(changing))
    /\ WF_vars(Announce)

FairSpec == Spec /\ Fairness

-----------------------------------------------------------------------------
(* Properties.                                                             *)

\* No change is lost and none is told twice: what the worker has seen since an
\* observer's first rows was told, or is in exactly one of the places a change
\* passes through.
ChangesKept ==
    \A o \in Mine :
        LET n == obs[o]
            parts == <<heard[o].seen, n.deliver, n.accumulated, n.changes>>
        IN  /\ n.callback /\ n.rows # 0 =>
                  UNION {parts[i] : i \in 1..4} = Between(heard[o].since, n.rows)
            /\ \A i, j \in 1..4 : i # j => parts[i] \cap parts[j] = {}

\* A callback runs while the Realm reads exactly the version its changes lead to.
CalledAtItsVersion ==
    \A o \in queue :
        heard[o].seen \cup obs[o].deliver = Between(heard[o].since, at)

\* The assertions of the coordinator about its two helpers: a read transaction
\* is ended only where one is open and begun only where none is, the advancer's
\* is no newer than a new notifier needs, and a version is skipped only for
\* somebody and never past the target.
AssertionsHold ==
    /\ worker.pc \in {"woken", "ran"} =>
          /\ CleanEndsRead => sg = "reading"
          /\ Dead("new") # {} /\ advancer.stage # "closed" =>
                advancer.stage = "reading"
    /\ worker.pc = "woken" /\ ~asyncError =>
          \A o \in Live("new") :
              advancer.stage = "reading" /\ advancer.version <= obs[o].version
    /\ worker.pc = "skipping" => worker.old # {} /\ worker.target >= worker.skip
    /\ main = "idle" /\ ~asyncError /\ advancer.stage # "closed" =>
          (advancer.stage = "reading" <=> At("new") # {})

-----------------------------------------------------------------------------
(* What it implements.                                                     *)

Observing == {o \in Mine : obs[o].callback}
Unheard(o) ==
    \/ ~obs[o].initialDelivered
    \/ heard[o].seen # Between(heard[o].since, latest)

Observation == INSTANCE RealmObservation WITH
    observing <- Observing,
    pending <- {o \in Observing : Unheard(o)},
    writing <- main = "writing"

\* Realm keeps what the screens rely on.
ImplementsObservation == Observation!Safety

\* Every observer hears of every change, or stops observing.
EveryoneHears == Observation!Heard

\* "If an error occurs, notification blocks are called one time with a .error
\* result" (RealmCollection.swift).
ErrorsAreTold ==
    \A o \in Observers :
        asyncError /\ o \in Observing ~> o \notin Observing
=============================================================================
