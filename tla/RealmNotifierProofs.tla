-------------------------- MODULE RealmNotifierProofs --------------------------
(***************************************************************************)
(* Realm's notifications for any number of observers and of versions: what *)
(* the worker has seen reaches every callback once and in time.            *)
(***************************************************************************)
EXTENDS RealmNotifier, TLAPS

-----------------------------------------------------------------------------
(* Types.                                                                  *)

Notifier ==
    [place : {"none", "new", "listed"}, alive : BOOLEAN, callback : BOOLEAN,
     hasRun : BOOLEAN, version : Nat, rows : Nat, changes : SUBSET Nat,
     accumulated : SUBSET Nat, deliver : SUBSET Nat, initialDelivered : BOOLEAN]

Hearing == [since : Nat, seen : SUBSET Nat]

Pass == {"skipping", "skipped", "running", "ran"}
InPass == worker.pc \in Pass

Typed ==
    /\ latest \in Nat /\ at \in Nat
    /\ \A x \in touched : x \in Nat /\ x <= latest
    /\ queue \subseteq Observers
    /\ obs \in [Observers -> Notifier]
    /\ skipVersion \in Nat
    /\ asyncError \in BOOLEAN
    /\ worker \in [pc : {"asleep", "woken", "signalling"} \cup Pass, target : Nat,
                   skip : Nat, old : SUBSET Observers, fresh : SUBSET Observers]
    /\ heard \in [Observers -> Hearing]

-----------------------------------------------------------------------------
(* Who is where.                                                           *)

\* A notifier and the lists it is in.  The pass of the worker is over those
\* listed; who joined with it has not run.
Placed(o) ==
    /\ obs[o].place = "none" => ~obs[o].alive
    /\ InPass /\ o \in worker.old \cup worker.fresh => obs[o].place = "listed"
    /\ obs[o].alive =>
          /\ obs[o].hasRun => obs[o].place = "listed"
          /\ obs[o].initialDelivered => obs[o].hasRun
          /\ obs[o].callback
          /\ obs[o].place = "listed" =>
                \/ obs[o].hasRun
                \/ InPass /\ o \in worker.fresh
                \/ asyncError
          /\ InPass /\ obs[o].place = "listed" => o \in worker.old \cup worker.fresh
          /\ InPass /\ o \in worker.old => obs[o].hasRun
          /\ InPass /\ o \in worker.fresh => ~obs[o].hasRun

\* Opening the file fails the first time or never: nothing has run then.
Opened ==
    /\ asyncError => sg = "closed"
    /\ advancer.stage = "closed" => sg = "closed"
    /\ sg = "closed" => ~InPass /\ \A o \in Mine : ~obs[o].hasRun

PlaceInv == Opened /\ \A o \in Observers : Placed(o)

-----------------------------------------------------------------------------
(* Versions.                                                               *)

Ran == {o \in Mine : obs[o].hasRun}

\* The changes of the versions up to obs[o].version were handed over, those
\* after it are on their way.
Versioned(o) ==
    /\ heard[o].since <= obs[o].version /\ 1 <= obs[o].version
    /\ obs[o].version <= obs[o].rows /\ obs[o].rows <= latest
    /\ worker.pc \notin {"skipped", "ran"} => obs[o].rows = obs[o].version
    /\ worker.pc = "skipped" => obs[o].rows = worker.skip
    /\ worker.pc = "ran" => obs[o].rows = worker.target
    /\ worker.pc = "skipping" => obs[o].rows <= worker.skip
    /\ InPass => obs[o].rows <= worker.target

\* The versions of a pass.
PassOrdered ==
    /\ InPass => 1 <= worker.target /\ worker.target <= latest
    /\ worker.pc \in {"skipping", "skipped"} =>
          1 <= worker.skip /\ worker.skip <= worker.target

\* A version to skip is one everybody had been told up to.
SkipOrdered ==
    skipVersion # 0 =>
        /\ skipVersion <= latest
        /\ \A o \in Ran : at <= skipVersion /\ obs[o].rows <= skipVersion
        /\ InPass => /\ worker.target <= skipVersion
                     /\ worker.fresh \cap Mine = {}

\* A pass that is behind the main thread brings nothing new.
Behind(o) ==
    /\ InPass /\ worker.target < at => obs[o].version = worker.target
    /\ worker.pc \in {"skipping", "skipped"} /\ worker.skip < at =>
          obs[o].version = worker.skip

VersionInv ==
    /\ 1 <= latest /\ at <= latest
    /\ PassOrdered
    /\ SkipOrdered
    /\ \A o \in Ran : Versioned(o) /\ Behind(o)
    /\ \A o, p \in Ran : obs[o].version = obs[p].version

-----------------------------------------------------------------------------
(* Changes.                                                                *)

\* Before its first run a notifier has nothing to tell.
Unrun(o) ==
    /\ obs[o].changes = {} /\ obs[o].accumulated = {} /\ obs[o].deliver = {}
    /\ heard[o].seen = {}
    /\ obs[o].rows = 0 \/ obs[o].rows = heard[o].since

\* Every change is in one place.
Told(o) ==
    /\ obs[o].changes = Between(obs[o].version, obs[o].rows)
    /\ heard[o].seen \cup obs[o].deliver \cup obs[o].accumulated
          = Between(heard[o].since, obs[o].version)
    /\ heard[o].seen \cap obs[o].deliver = {}
    /\ heard[o].seen \cap obs[o].accumulated = {}
    /\ obs[o].deliver \cap obs[o].accumulated = {}
    /\ obs[o].version < at => obs[o].accumulated = {}
    /\ obs[o].deliver # {} => o \in queue

Queued(o) ==
    /\ o \in Ran
    /\ heard[o].seen \cup obs[o].deliver = Between(heard[o].since, at)

\* While a write begins and runs, everybody is at the newest version.
WriteWaits ==
    main \in {"telling", "writing"} =>
        \A o \in Mine : obs[o].callback =>
            /\ o \in Ran
            /\ obs[o].version = latest
            /\ obs[o].accumulated = {}
            /\ o \in queue \/ obs[o].initialDelivered

FreshRan(o) ==
    worker.pc = "ran" /\ o \in worker.fresh => 
        obs[o].rows = worker.target /\ heard[o].since = worker.target

ToldInv ==
    /\ queue # {} => main \in {"telling", "notifying"}
    /\ \A o \in Mine : IF obs[o].hasRun THEN Told(o) ELSE Unrun(o) /\ FreshRan(o)
    /\ \A o \in queue : Queued(o)
    /\ WriteWaits

RealmInv == Typed /\ PlaceInv /\ VersionInv /\ ToldInv

-----------------------------------------------------------------------------
(* What happens to a notifier.                                             *)

LEMMA NoNotifierShape ==
    /\ NoNotifier \in Notifier /\ NoNotifier.place = "none"
    /\ ~NoNotifier.alive /\ ~NoNotifier.hasRun
  BY DEF NoNotifier, Notifier

LEMMA PackagedShape ==
    ASSUME NEW n \in Notifier
    PROVE  LET m == Packaged(n) IN
           /\ m \in Notifier /\ m.place = n.place /\ m.alive = n.alive
           /\ m.callback = n.callback /\ m.hasRun = n.hasRun
           /\ m.version = n.version /\ m.rows = n.rows /\ m.changes = n.changes
           /\ m.deliver = n.accumulated /\ m.accumulated = {}
           /\ m.initialDelivered = n.initialDelivered
  BY DEF Packaged, Notifier

LEMMA BetweenType ==
    ASSUME \A x \in touched : x \in Nat, NEW v, NEW w
    PROVE  Between(v, w) \in SUBSET Nat
  BY DEF Between

\* m is n after Run, after HandedOver.
IsRun(n, m, v) ==
    /\ m.place = n.place /\ m.alive = n.alive /\ m.callback = n.callback
    /\ m.hasRun = n.hasRun /\ m.version = n.version /\ m.deliver = n.deliver
    /\ m.accumulated = n.accumulated /\ m.initialDelivered = n.initialDelivered
    /\ n.alive =>
          /\ m.rows = v
          /\ m.changes = IF n.hasRun /\ n.callback THEN Between(n.rows, v)
                         ELSE n.changes

IsHandedOver(n, m, v) ==
    /\ m.place = n.place /\ m.alive = n.alive /\ m.callback = n.callback
    /\ m.hasRun /\ m.version = v /\ m.rows = n.rows /\ m.changes = {}
    /\ m.deliver = n.deliver
    /\ m.accumulated = IF n.callback THEN n.accumulated \cup n.changes ELSE {}
    /\ m.initialDelivered = n.initialDelivered

LEMMA RunShape ==
    ASSUME \A x \in touched : x \in Nat, NEW n \in Notifier, NEW v \in Nat
    PROVE  Run(n, v) \in Notifier /\ IsRun(n, Run(n, v), v)
<1>1. Between(n.rows, v) \in SUBSET Nat
  BY BetweenType
<1> QED
  BY <1>1 DEF Run, Notifier, IsRun

LEMMA HandedOverShape ==
    ASSUME NEW n \in Notifier, NEW v \in Nat
    PROVE  HandedOver(n, v) \in Notifier /\ IsHandedOver(n, HandedOver(n, v), v)
  BY DEF HandedOver, Notifier, IsHandedOver

LEMMA CleanedShape ==
    ASSUME Typed
    PROVE  /\ Cleaned \in [Observers -> Notifier]
           /\ \A o \in Observers :
                 IF obs[o].alive THEN Cleaned[o] = obs[o] ELSE Cleaned[o] = NoNotifier
  BY NoNotifierShape DEF Cleaned, Typed

\* Joining changes the place of a notifier that is alive and new.
LEMMA JoinedShape ==
    ASSUME Typed
    PROVE  /\ Joined \in [Observers -> Notifier]
           /\ \A o \in Observers :
                 /\ ~obs[o].alive => Joined[o] = NoNotifier
                 /\ obs[o].alive =>
                       /\ Joined[o].alive /\ Joined[o].callback = obs[o].callback
                       /\ Joined[o].hasRun = obs[o].hasRun
                       /\ Joined[o].version = obs[o].version
                       /\ Joined[o].rows = obs[o].rows
                       /\ Joined[o].changes = obs[o].changes
                       /\ Joined[o].deliver = obs[o].deliver
                       /\ Joined[o].accumulated = obs[o].accumulated
                       /\ Joined[o].initialDelivered = obs[o].initialDelivered
                       /\ obs[o].place = "new" => Joined[o].place = "listed"
                       /\ obs[o].place # "new" => Joined[o].place = obs[o].place
<1> SUFFICES ASSUME NEW o \in Observers
             PROVE  /\ Joined[o] \in Notifier
                    /\ ~obs[o].alive => Joined[o] = NoNotifier
                    /\ obs[o].alive =>
                       /\ Joined[o].alive /\ Joined[o].callback = obs[o].callback
                       /\ Joined[o].hasRun = obs[o].hasRun
                       /\ Joined[o].version = obs[o].version
                       /\ Joined[o].rows = obs[o].rows
                       /\ Joined[o].changes = obs[o].changes
                       /\ Joined[o].deliver = obs[o].deliver
                       /\ Joined[o].accumulated = obs[o].accumulated
                       /\ Joined[o].initialDelivered = obs[o].initialDelivered
                       /\ obs[o].place = "new" => Joined[o].place = "listed"
                       /\ obs[o].place # "new" => Joined[o].place = obs[o].place
  BY DEF Joined
<1>1. Joined[o] = IF Cleaned[o].place = "new"
                  THEN [Cleaned[o] EXCEPT !.place = "listed"] ELSE Cleaned[o]
  BY DEF Joined
<1>2. obs[o] \in Notifier
  BY DEF Typed
<1>3. CASE obs[o].alive
  BY <1>1, <1>2, <1>3, CleanedShape DEF Notifier
<1>4. CASE ~obs[o].alive
  BY <1>1, <1>4, CleanedShape, NoNotifierShape
<1> QED
  BY <1>3, <1>4

LEMMA ObserveShape ==
    ASSUME Typed, NEW o \in Observers, Observe(o)
    PROVE  /\ obs' \in [Observers -> Notifier] /\ heard' \in [Observers -> Hearing]
           /\ \A p \in Observers \ {o} : obs'[p] = obs[p] /\ heard'[p] = heard[p]
           /\ obs'[o].place = "new" /\ obs'[o].alive /\ obs'[o].callback
           /\ ~obs'[o].hasRun /\ obs'[o].version = at /\ obs'[o].rows = 0
           /\ obs'[o].changes = {} /\ obs'[o].accumulated = {}
           /\ obs'[o].deliver = {} /\ ~obs'[o].initialDelivered
           /\ heard'[o].since = 0 /\ heard'[o].seen = {}
<1> DEFINE n == [NoNotifier EXCEPT !.place = "new", !.alive = TRUE,
                                   !.callback = TRUE, !.version = at]
           h == [since |-> 0, seen |-> {}]
<1>1. /\ n \in Notifier /\ n.place = "new" /\ n.alive /\ n.callback /\ ~n.hasRun
      /\ n.version = at /\ n.rows = 0 /\ n.changes = {} /\ n.accumulated = {}
      /\ n.deliver = {} /\ ~n.initialDelivered
  BY DEF NoNotifier, Notifier, Typed
<1>2. h \in Hearing /\ h.since = 0 /\ h.seen = {}
  BY DEF Hearing
<1>3. obs' = [obs EXCEPT ![o] = n] /\ heard' = [heard EXCEPT ![o] = h]
  BY DEF Observe
<1> HIDE DEF n, h
<1>4. /\ obs' \in [Observers -> Notifier] /\ obs'[o] = n
      /\ \A p \in Observers \ {o} : obs'[p] = obs[p]
  BY <1>1, <1>3 DEF Typed
<1>5. /\ heard' \in [Observers -> Hearing] /\ heard'[o] = h
      /\ \A p \in Observers \ {o} : heard'[p] = heard[p]
  BY <1>2, <1>3 DEF Typed
<1> QED
  BY <1>1, <1>2, <1>4, <1>5

LEMMA InvalidateShape ==
    ASSUME Typed, NEW o \in Observers, Invalidate(o)
    PROVE  /\ obs' \in [Observers -> Notifier]
           /\ \A p \in Observers \ {o} : obs'[p] = obs[p]
           /\ obs'[o].place = obs[o].place /\ ~obs'[o].alive
           /\ heard' = heard
<1> DEFINE n == [obs[o] EXCEPT !.alive = FALSE, !.callback = FALSE]
<1>1. n \in Notifier /\ n.place = obs[o].place /\ ~n.alive
  <2>1. obs[o] \in Notifier
    BY DEF Typed
  <2> QED
    BY <2>1 DEF Notifier
<1>2. obs' = [obs EXCEPT ![o] = n]
  BY DEF Invalidate, Typed
<1> HIDE DEF n
<1> QED
  BY <1>1, <1>2 DEF Typed, Invalidate

LEMMA DeliverShape ==
    ASSUME Typed, NEW o \in Observers, Deliver(o)
    PROVE  /\ obs' \in [Observers -> Notifier] /\ heard' \in [Observers -> Hearing]
           /\ \A p \in Observers \ {o} : obs'[p] = obs[p] /\ heard'[p] = heard[p]
           /\ obs'[o].place = obs[o].place /\ obs'[o].alive = obs[o].alive
           /\ obs'[o].callback = obs[o].callback /\ obs'[o].hasRun = obs[o].hasRun
           /\ obs'[o].version = obs[o].version /\ obs'[o].rows = obs[o].rows
           /\ obs'[o].changes = obs[o].changes
           /\ obs'[o].accumulated = obs[o].accumulated
           /\ obs'[o].deliver = {} /\ obs'[o].initialDelivered
           /\ heard'[o].since = heard[o].since
           /\ heard'[o].seen = heard[o].seen \cup obs[o].deliver
<1> DEFINE n == [obs[o] EXCEPT !.initialDelivered = TRUE, !.deliver = {}]
           h == [heard[o] EXCEPT !.seen = @ \cup obs[o].deliver]
<1>0. obs[o] \in Notifier /\ heard[o] \in Hearing
  BY DEF Typed
<1>1. /\ n \in Notifier /\ n.place = obs[o].place /\ n.alive = obs[o].alive
      /\ n.callback = obs[o].callback /\ n.hasRun = obs[o].hasRun
      /\ n.version = obs[o].version /\ n.rows = obs[o].rows
      /\ n.changes = obs[o].changes /\ n.accumulated = obs[o].accumulated
      /\ n.deliver = {} /\ n.initialDelivered
  BY <1>0 DEF Notifier
<1>2. /\ h \in Hearing /\ h.since = heard[o].since
      /\ h.seen = heard[o].seen \cup obs[o].deliver
  BY <1>0 DEF Hearing, Notifier
<1>3. obs' = [obs EXCEPT ![o] = n] /\ heard' = [heard EXCEPT ![o] = h]
  BY DEF Deliver, Typed
<1> HIDE DEF n, h
<1>4. /\ obs' \in [Observers -> Notifier] /\ obs'[o] = n
      /\ \A p \in Observers \ {o} : obs'[p] = obs[p]
  BY <1>1, <1>3 DEF Typed
<1>5. /\ heard' \in [Observers -> Hearing] /\ heard'[o] = h
      /\ \A p \in Observers \ {o} : heard'[p] = heard[p]
  BY <1>2, <1>3 DEF Typed
<1> QED
  BY <1>1, <1>2, <1>4, <1>5

\* m is n once its callback was told of the error.
IsErrored(n, m) ==
    /\ m.place = n.place /\ m.alive = FALSE /\ m.callback = FALSE
    /\ m.hasRun = n.hasRun /\ m.version = n.version /\ m.rows = n.rows
    /\ m.changes = n.changes /\ m.deliver = n.deliver
    /\ m.accumulated = n.accumulated /\ m.initialDelivered = n.initialDelivered

LEMMA ErrorsShape ==
    ASSUME Typed, DeliverErrors
    PROVE  /\ obs' \in [Observers -> Notifier] /\ at' = latest
           /\ \A p \in Observers : IsErrored(obs[p], obs'[p])
<1>1. ASSUME NEW n \in Notifier
      PROVE  /\ [n EXCEPT !.callback = FALSE, !.alive = FALSE] \in Notifier
             /\ IsErrored(n, [n EXCEPT !.callback = FALSE, !.alive = FALSE])
  BY DEF IsErrored, Notifier
<1>2. /\ obs' = [p \in Observers |->
                    [obs[p] EXCEPT !.callback = FALSE, !.alive = FALSE]]
      /\ at' = latest
  BY DEF DeliverErrors
<1>3. \A p \in Observers : obs[p] \in Notifier
  BY DEF Typed
<1> QED
  BY <1>1, <1>2, <1>3

LEMMA RunSkippedShape ==
    ASSUME Typed, RunSkipped, NEW o \in Observers
    PROVE  /\ o \in worker.old => IsRun(obs[o], obs'[o], worker.skip)
           /\ o \notin worker.old => obs'[o] = obs[o]
<1>1. obs[o] \in Notifier /\ worker.skip \in Nat /\ \A x \in touched : x \in Nat
  BY DEF Typed
<1>2. IsRun(obs[o], Run(obs[o], worker.skip), worker.skip)
  BY <1>1, RunShape
<1> QED
  BY <1>2 DEF RunSkipped

LEMMA RunNotifiersShape ==
    ASSUME Typed, RunNotifiers, NEW o \in Observers
    PROVE  /\ o \in worker.old \cup worker.fresh =>
                 IsRun(obs[o], obs'[o], worker.target)
           /\ o \notin worker.old \cup worker.fresh => obs'[o] = obs[o]
           /\ heard'[o].seen = heard[o].seen
           /\ heard'[o].since = IF o \in worker.fresh THEN worker.target
                                ELSE heard[o].since
<1>1. /\ obs[o] \in Notifier /\ worker.target \in Nat /\ \A x \in touched : x \in Nat
      /\ heard[o] \in Hearing
  BY DEF Typed
<1>2. IsRun(obs[o], Run(obs[o], worker.target), worker.target)
  BY <1>1, RunShape
<1>3. heard'[o].seen = heard[o].seen /\ heard'[o].since =
         IF o \in worker.fresh THEN worker.target ELSE heard[o].since
  BY <1>1 DEF RunNotifiers, Hearing
<1> QED
  BY <1>2, <1>3 DEF RunNotifiers

LEMMA HandOverSkippedShape ==
    ASSUME Typed, HandOverSkipped, NEW o \in Observers
    PROVE  /\ o \in worker.old => IsHandedOver(obs[o], obs'[o], worker.skip)
           /\ o \notin worker.old => obs'[o] = obs[o]
<1>1. obs[o] \in Notifier /\ worker.skip \in Nat
  BY DEF Typed
<1>2. IsHandedOver(obs[o], HandedOver(obs[o], worker.skip), worker.skip)
  BY <1>1, HandedOverShape
<1> QED
  BY <1>2 DEF HandOverSkipped

LEMMA HandOverShape ==
    ASSUME Typed, HandOver, NEW o \in Observers
    PROVE  /\ ~obs[o].alive => obs'[o] = NoNotifier
           /\ obs[o].alive =>
                 IF o \in worker.old \cup worker.fresh
                 THEN IsHandedOver(obs[o], obs'[o], worker.target)
                 ELSE obs'[o] = obs[o]
<1>1. obs[o] \in Notifier /\ worker.target \in Nat
  BY DEF Typed
<1>2. IsHandedOver(obs[o], HandedOver(obs[o], worker.target), worker.target)
  BY <1>1, HandedOverShape
<1> QED
  BY <1>2, CleanedShape DEF HandOver

-----------------------------------------------------------------------------

LEMMA TypedStep == Typed /\ [Next]_vars => Typed'
<1> SUFFICES ASSUME Typed, [Next]_vars PROVE Typed'
  OBVIOUS
<1> USE DEF Typed
<1>1. ASSUME NEW S \in SUBSET Observers,
             obs' = [o \in Observers |-> IF o \in S THEN Packaged(obs[o]) ELSE obs[o]]
      PROVE  obs' \in [Observers -> Notifier]
  BY <1>1, PackagedShape
<1>2. ASSUME NEW S, NEW v \in Nat,
             obs' = [o \in Observers |-> IF o \in S THEN Run(obs[o], v) ELSE obs[o]]
      PROVE  obs' \in [Observers -> Notifier]
  BY <1>2, RunShape
<1>3. \A o \in Observers, v \in Nat : HandedOver(obs[o], v) \in Notifier
  BY HandedOverShape
<1>4. worker.target \in Nat /\ worker.skip \in Nat
  OBVIOUS
<1>5. Mine \subseteq Observers /\ \A p : Live(p) \subseteq Observers
  BY DEF Mine, Live, At
<1>6. ASSUME NEW p, worker' = [worker EXCEPT !.pc = p],
             p \in {"asleep", "woken", "signalling"} \cup Pass
      PROVE  worker' \in [pc : {"asleep", "woken", "signalling"} \cup Pass,
                          target : Nat, skip : Nat, old : SUBSET Observers,
                          fresh : SUBSET Observers]
  BY <1>6
<1>7. CASE UNCHANGED vars
  BY <1>7 DEF vars, file, coordinator
<1>8. ASSUME NEW o \in Observers, Observe(o) \/ Invalidate(o) PROVE Typed'
  <2>1. CASE Observe(o)
    <3>1. asyncError' \in BOOLEAN
      BY <2>1 DEF Observe
    <3> QED
      BY <2>1, <3>1, ObserveShape DEF Observe, file
  <2>2. CASE Invalidate(o)
    BY <2>2, InvalidateShape DEF Invalidate, coordinator, file
  <2> QED
    BY <1>8, <2>1, <2>2
<1>9. ASSUME DeliverErrors PROVE obs' \in [Observers -> Notifier] /\ at' = latest
  BY <1>9, ErrorsShape
<1>10. CASE BeginAtOnce
  BY <1>9, <1>10 DEF BeginAtOnce, file, coordinator
<1>11. CASE BeginWait \/ Cancel \/ CommitNotifies \/ Delivered
  BY <1>11 DEF BeginWait, Cancel, CommitNotifies, Delivered, file, coordinator
<1>12. CASE Announce
  BY <1>12 DEF Announce, coordinator
<1>13. ASSUME NEW c \in BOOLEAN, Commit(c) \/ CommitElsewhere(c) PROVE Typed'
  <2>1. latest' = latest + 1 /\ touched' \subseteq touched \cup {latest'}
    BY <1>13 DEF Commit, CommitElsewhere
  <2>2. latest' \in Nat /\ \A x \in touched' : x \in Nat /\ x <= latest'
    BY <2>1
  <2>3. at' \in Nat /\ skipVersion' \in Nat
    BY <1>13, <2>2 DEF Commit, CommitElsewhere, coordinator
  <2>4. UNCHANGED <<queue, obs, asyncError, worker, heard>>
    BY <1>13 DEF Commit, CommitElsewhere, coordinator
  <2> QED
    BY <2>2, <2>3, <2>4
<1>14. ASSUME NEW o \in Observers, Deliver(o) PROVE Typed'
  BY <1>14, DeliverShape DEF Deliver, file, coordinator
<1>15. CASE BeginTell
  <2>1. {o \in Mine : obs[o].hasRun} \in SUBSET Observers
    BY <1>5
  <2> QED
    BY <1>1, <1>15, <2>1 DEF BeginTell, Package, file, coordinator
<1>16. CASE NotifyError
  BY <1>9, <1>16 DEF NotifyError, Turn, file, coordinator
<1>17. CASE NotifyAvailable
  <2>1. Deliverable \in SUBSET Observers
    BY <1>5 DEF Deliverable
  <2> QED
    BY <1>1, <1>17, <2>1 DEF NotifyAvailable, Turn, Package, file, coordinator
<1>18. CASE NotifyAdvance
  <2> DEFINE ready == {o \in Mine : obs[o].hasRun}
  <2>1. ready \in SUBSET Observers
    BY <1>5
  <2>2. CASE UNCHANGED <<queue, obs>> /\ at' = latest
    BY <1>18, <2>2 DEF NotifyAdvance, Turn, file, coordinator
  <2>3. CASE /\ obs' = [p \in Observers |->
                           IF p \in ready THEN Packaged(obs[p]) ELSE obs[p]]
             /\ UNCHANGED <<at, queue>>
    BY <1>1, <1>18, <2>1, <2>3 DEF NotifyAdvance, Turn, file, coordinator
  <2>4. ASSUME NEW o \in ready, Package(ready), at' = obs[o].version
        PROVE  Typed'
    BY <1>1, <1>18, <2>1, <2>4 DEF NotifyAdvance, Turn, Package, file, coordinator, Notifier
  <2> QED
    BY <1>18, <2>2, <2>3, <2>4 DEF NotifyAdvance
<1>19. CASE Listen
  BY <1>6, <1>19 DEF Listen, file, coordinator
<1>20. CASE PassEmpty
  BY <1>6, <1>20, CleanedShape DEF PassEmpty, CleanSkip, file
<1>21. CASE PassFails
  BY <1>6, <1>21, JoinedShape DEF PassFails, CleanSkip, file
<1>22. CASE PassStarts
  BY <1>5, <1>22, JoinedShape DEF PassStarts, CleanSkip, Pass, file
<1>23. CASE RunSkipped
  BY <1>2, <1>4, <1>6, <1>23 DEF RunSkipped, Pass, file, coordinator
<1>24. CASE HandOverSkipped
  BY <1>3, <1>4, <1>6, <1>24 DEF HandOverSkipped, Pass, file, coordinator
<1>25. CASE RunNotifiers
  <2>1. heard' \in [Observers -> Hearing]
    <3>1. ASSUME NEW o \in Observers
          PROVE  [heard[o] EXCEPT !.since = worker.target] \in Hearing
      <4>1. heard[o] \in Hearing
        OBVIOUS
      <4> QED
        BY <1>4, <4>1 DEF Hearing
    <3> QED
      BY <1>25, <3>1 DEF RunNotifiers
  <2>2. obs' \in [Observers -> Notifier]
    <3>1. \A o \in Observers : obs[o] \in Notifier
      OBVIOUS
    <3>2. \A o \in Observers : Run(obs[o], worker.target) \in Notifier
      BY <1>4, <3>1, RunShape
    <3>3. obs' = [o \in Observers |->
                    IF o \in worker.old \cup worker.fresh
                    THEN Run(obs[o], worker.target) ELSE obs[o]]
      BY <1>25 DEF RunNotifiers
    <3> QED
      BY <3>1, <3>2, <3>3
  <2>3. worker' = [worker EXCEPT !.pc = "ran"]
    BY <1>25 DEF RunNotifiers
  <2>4. worker' \in [pc : {"asleep", "woken", "signalling"} \cup Pass, target : Nat,
                     skip : Nat, old : SUBSET Observers, fresh : SUBSET Observers]
    BY <1>6, <2>3 DEF Pass
  <2>5. UNCHANGED <<file, at, queue, coordinator>>
    BY <1>25 DEF RunNotifiers
  <2> QED
    BY <2>1, <2>2, <2>4, <2>5 DEF file, coordinator
<1>26. CASE HandOver
  BY <1>3, <1>4, <1>6, <1>26, CleanedShape DEF HandOver, CleanSkip, file
<1>27. CASE Signal
  BY <1>27 DEF Signal, Asleep, file, coordinator
<1> QED
  BY <1>7, <1>8, <1>10, <1>11, <1>12, <1>13, <1>14, <1>15, <1>16, <1>17, <1>18,
     <1>19, <1>20, <1>21, <1>22, <1>23, <1>24, <1>25, <1>26, <1>27
     DEF Next, Proceed, RunLoop, Worker

-----------------------------------------------------------------------------
(* Places.                                                                 *)

\* What Placed says of a notifier depends on this much of it.
Alike(n, m) ==
    /\ m.place = n.place /\ m.alive = n.alive /\ m.callback = n.callback
    /\ m.hasRun = n.hasRun /\ m.initialDelivered = n.initialDelivered

LEMMA PlacedAlike ==
    ASSUME PlaceInv, \A o \in Observers : Alike(obs[o], obs'[o]),
           InPass' <=> InPass, InPass => worker'.old = worker.old /\ worker'.fresh = worker.fresh,
           UNCHANGED <<asyncError, sg>>, advancer'.stage = "closed" => advancer.stage = "closed"
    PROVE  PlaceInv'
<1>1. Mine' = Mine
  BY DEF Mine, Alike
<1>2. Opened'
  BY <1>1 DEF Opened, PlaceInv, Alike, Mine
<1>3. \A o \in Observers : Placed(o)'
  BY DEF PlaceInv, Placed, Alike
<1> QED
  BY <1>2, <1>3 DEF PlaceInv

LEMMA WorkerPc ==
    ASSUME Typed, NEW p, worker' = [worker EXCEPT !.pc = p]
    PROVE  /\ worker'.pc = p /\ worker'.target = worker.target
           /\ worker'.skip = worker.skip /\ worker'.old = worker.old
           /\ worker'.fresh = worker.fresh
  BY DEF Typed

LEMMA CleanShape ==
    /\ CleanSg = "closed" <=> sg = "closed"
    /\ CleanAdvancer.stage = "closed" <=> advancer.stage = "closed"
  BY DEF CleanSg, CleanEndsRead, CleanAdvancer

LEMMA PlaceStep ==
    Typed /\ PlaceInv /\ ToldInv /\ [Next]_vars => PlaceInv'
<1> SUFFICES ASSUME Typed, PlaceInv, ToldInv, [Next]_vars PROVE PlaceInv'
  OBVIOUS
<1>0. Opened /\ \A o \in Observers : Placed(o)
  BY DEF PlaceInv
<1>t. /\ \A o \in Observers : obs[o] \in Notifier
      /\ obs \in [Observers -> Notifier] /\ queue \subseteq Observers
      /\ worker.target \in Nat /\ worker.skip \in Nat
      /\ \A x \in touched : x \in Nat
  BY DEF Typed
<1>1. ASSUME UNCHANGED <<obs, sg, advancer, asyncError, worker>> PROVE PlaceInv'
  BY <1>1, PlacedAlike DEF Alike, InPass
<1>2. CASE \/ UNCHANGED vars
           \/ BeginWait \/ Cancel \/ CommitNotifies \/ Delivered \/ Announce
           \/ \E c \in BOOLEAN : Commit(c) \/ CommitElsewhere(c)
  BY <1>1, <1>2
     DEF vars, coordinator, BeginWait, Cancel, CommitNotifies, Delivered, Announce,
         Commit, CommitElsewhere
<1>3. ASSUME NEW S,
             obs' = [o \in Observers |-> IF o \in S THEN Packaged(obs[o]) ELSE obs[o]],
             UNCHANGED <<sg, advancer, asyncError, worker>>
      PROVE  PlaceInv'
  <2>1. \A o \in Observers : Alike(obs[o], obs'[o])
    BY <1>t, <1>3, PackagedShape DEF Alike
  <2> QED
    BY <1>3, <2>1, PlacedAlike DEF InPass
<1>4. CASE BeginTell \/ NotifyAvailable \/ NotifyAdvance
  BY <1>1, <1>3, <1>4
     DEF BeginTell, NotifyAvailable, NotifyAdvance, Turn, Package, coordinator
<1>5. ASSUME NEW o \in Observers, Observe(o) PROVE PlaceInv'
  <2>1. /\ UNCHANGED <<sg, worker>>
        /\ asyncError => asyncError'
        /\ asyncError' => asyncError \/ advancer.stage = "closed"
        /\ advancer'.stage = "closed" => advancer.stage = "closed"
    BY <1>5 DEF Observe, Pinned
  <2>2. Opened'
    BY <1>0, <1>5, <2>1, ObserveShape DEF Opened, InPass, Mine
  <2>3. ~(InPass /\ o \in worker.old \cup worker.fresh)
    BY <1>0, <1>5 DEF Observe, Placed
  <2>4. ASSUME NEW p \in Observers PROVE Placed(p)'
    <3>1. CASE p = o
      BY <1>5, <2>1, <2>3, <3>1, ObserveShape DEF Placed, InPass
    <3>2. CASE p # o
      BY <1>0, <1>5, <2>1, <3>2, ObserveShape DEF Placed, InPass
    <3> QED
      BY <3>1, <3>2
  <2> QED
    BY <2>2, <2>4 DEF PlaceInv
<1>6. ASSUME NEW o \in Observers, Invalidate(o) PROVE PlaceInv'
  <2>1. UNCHANGED <<sg, worker, asyncError, advancer>>
    BY <1>6 DEF Invalidate, coordinator
  <2>2. Opened'
    BY <1>0, <1>6, <2>1, InvalidateShape DEF Opened, InPass, Mine
  <2>3. ASSUME NEW p \in Observers PROVE Placed(p)'
    <3>1. CASE p = o
      BY <1>0, <1>6, <2>1, <3>1, InvalidateShape DEF Placed, InPass
    <3>2. CASE p # o
      BY <1>0, <1>6, <2>1, <3>2, InvalidateShape DEF Placed, InPass
    <3> QED
      BY <3>1, <3>2
  <2> QED
    BY <2>2, <2>3 DEF PlaceInv
<1>7. ASSUME NEW o \in Observers, Deliver(o) PROVE PlaceInv'
  <2>1. UNCHANGED <<sg, worker, asyncError, advancer>> /\ o \in Mine /\ obs[o].hasRun
    BY <1>7 DEF Deliver, coordinator, ToldInv, Queued, Ran
  <2>2. Opened'
    BY <1>0, <1>7, <2>1, DeliverShape DEF Opened, InPass, Mine
  <2>3. ASSUME NEW p \in Observers PROVE Placed(p)'
    <3>1. CASE p = o
      BY <1>0, <1>7, <2>1, <3>1, DeliverShape DEF Placed, InPass
    <3>2. CASE p # o
      BY <1>0, <1>7, <2>1, <3>2, DeliverShape DEF Placed, InPass
    <3> QED
      BY <3>1, <3>2
  <2> QED
    BY <2>2, <2>3 DEF PlaceInv
<1>8. CASE BeginAtOnce \/ NotifyError
  <2>1. /\ DeliverErrors /\ UNCHANGED <<sg, worker, asyncError, advancer>>
        /\ Mine = {} \/ asyncError
    BY <1>8 DEF BeginAtOnce, NotifyError, Turn, coordinator
  <2>2. \A p \in Observers :
           /\ obs'[p].place = obs[p].place /\ ~obs'[p].alive
           /\ obs'[p].hasRun = obs[p].hasRun
    BY <2>1, ErrorsShape DEF IsErrored
  <2>3. Opened'
    BY <1>0, <2>1, <2>2 DEF Opened, InPass, Mine
  <2>4. ASSUME NEW p \in Observers PROVE Placed(p)'
    BY <1>0, <2>1, <2>2 DEF Placed, InPass
  <2> QED
    BY <2>3, <2>4 DEF PlaceInv
\* The worker.
<1>9. CASE Listen \/ Signal
  <2>1. ~InPass /\ ~InPass' /\ UNCHANGED <<obs, sg, advancer, asyncError>>
    BY <1>9, WorkerPc DEF Listen, Signal, Asleep, InPass, Pass, coordinator
  <2> QED
    BY <2>1, PlacedAlike DEF Alike
<1>10. ASSUME ~InPass', sg' = CleanSg, advancer' = CleanAdvancer,
              asyncError' => sg = "closed", asyncError => asyncError',
              \A o \in Observers :
                 /\ ~obs[o].alive => obs'[o] = NoNotifier
                 /\ obs[o].alive =>
                       /\ obs'[o].alive /\ obs'[o].callback = obs[o].callback
                       /\ obs'[o].hasRun = obs[o].hasRun
                       /\ obs'[o].initialDelivered = obs[o].initialDelivered
                       /\ obs'[o].place = obs[o].place \/ (asyncError' /\ obs'[o].place = "listed"),
              \A o \in Mine : ~(InPass /\ o \in worker.fresh)
       PROVE  PlaceInv'
  <2>1. Mine' = Mine
    BY <1>10, NoNotifierShape DEF Mine
  <2>2. Opened'
    BY <1>0, <1>10, <2>1, CleanShape DEF Opened, Mine
  <2>3. ASSUME NEW o \in Observers PROVE Placed(o)'
    <3>1. CASE ~obs[o].alive
      BY <1>10, <3>1, NoNotifierShape DEF Placed
    <3>2. CASE obs[o].alive
      BY <1>0, <1>10, <3>2 DEF Placed, Mine
    <3> QED
      BY <3>1, <3>2
  <2> QED
    BY <2>2, <2>3 DEF PlaceInv
<1>11. CASE PassEmpty
  <2>1. ~InPass /\ ~InPass'
    BY <1>11, WorkerPc DEF PassEmpty, InPass, Pass
  <2>2. obs' = Cleaned /\ sg' = CleanSg /\ advancer' = CleanAdvancer
    BY <1>11 DEF PassEmpty
  <2>3. \A o \in Observers : IF obs[o].alive THEN obs'[o] = obs[o]
                             ELSE obs'[o] = NoNotifier
    BY <2>2, CleanedShape
  <2>4. asyncError' = asyncError /\ (asyncError => sg = "closed")
    BY <1>0, <1>11 DEF PassEmpty, Opened
  <2>5. (asyncError' => sg = "closed") /\ (asyncError => asyncError')
    BY <2>4, Zenon
  <2>6. sg' = CleanSg /\ advancer' = CleanAdvancer
    BY <2>2
  <2>7. \A o \in Mine : ~(InPass /\ o \in worker.fresh)
    BY <2>1
  <2>8. \A o \in Observers :
           /\ ~obs[o].alive => obs'[o] = NoNotifier
           /\ obs[o].alive =>
                 /\ obs'[o].alive /\ obs'[o].callback = obs[o].callback
                 /\ obs'[o].hasRun = obs[o].hasRun
                 /\ obs'[o].initialDelivered = obs[o].initialDelivered
                 /\ obs'[o].place = obs[o].place \/ (asyncError' /\ obs'[o].place = "listed")
    BY <2>3
  <2> QED
    BY <1>10, <2>1, <2>5, <2>6, <2>7, <2>8
<1>12. CASE PassFails
  <2>1. ~InPass /\ ~InPass' /\ asyncError' /\ sg = "closed"
    BY <1>0, <1>12, WorkerPc DEF PassFails, InPass, Pass, Opened
  <2>2. \A o \in Observers : obs[o].alive => obs[o].place # "none"
    BY <1>0 DEF Placed
  <2>3. \A o \in Observers : obs[o].place \in {"none", "new", "listed"}
    BY <1>t DEF Notifier
  <2>4. obs' = Joined /\ sg' = CleanSg /\ advancer' = CleanAdvancer
    BY <1>12 DEF PassFails
  <2> QED
    BY <1>10, <2>1, <2>2, <2>3, <2>4, JoinedShape
<1>13. CASE PassStarts
  <2>1. /\ InPass' /\ ~InPass /\ obs' = Joined /\ sg' = "reading" /\ ~asyncError
        /\ asyncError' = asyncError /\ advancer'.stage = "ready"
        /\ worker'.old = Live("listed") /\ worker'.fresh = Live("new")
    BY <1>13 DEF PassStarts, InPass, Pass
  <2>2. Opened'
    BY <2>1 DEF Opened
  <2>3. ASSUME NEW o \in Observers PROVE Placed(o)'
    <3>1. CASE ~obs[o].alive
      BY <2>1, <3>1, JoinedShape, NoNotifierShape DEF Placed, Live, Mine
    <3>2. CASE obs[o].alive
      <4>1. obs[o].place = "new" \/ obs[o].place = "listed"
        BY <1>0, <1>t, <3>2 DEF Placed, Notifier
      <4>2. /\ o \in worker'.old <=> obs[o].place = "listed"
            /\ o \in worker'.fresh <=> obs[o].place = "new"
        BY <2>1, <3>2 DEF Live, At, Mine
      <4>3. /\ obs'[o].alive /\ obs'[o].callback = obs[o].callback
            /\ obs'[o].hasRun = obs[o].hasRun /\ obs'[o].place = "listed"
            /\ obs'[o].initialDelivered = obs[o].initialDelivered
        BY <2>1, <3>2, <4>1, JoinedShape
      <4> QED
        BY <1>0, <2>1, <3>2, <4>1, <4>2, <4>3 DEF Placed
    <3> QED
      BY <3>1, <3>2
  <2> QED
    BY <2>2, <2>3 DEF PlaceInv
<1>14. CASE RunSkipped \/ RunNotifiers
  <2>2. \A o \in Observers : Alike(obs[o], obs'[o])
    BY <1>14, RunSkippedShape, RunNotifiersShape DEF Alike, IsRun
  <2>3. /\ InPass /\ InPass' /\ worker'.old = worker.old
        /\ worker'.fresh = worker.fresh /\ UNCHANGED coordinator
    BY <1>14, WorkerPc DEF RunSkipped, RunNotifiers, InPass, Pass
  <2> QED
    BY <2>2, <2>3, PlacedAlike DEF coordinator
<1>15. CASE HandOverSkipped
  <2>1. /\ InPass /\ InPass' /\ worker'.old = worker.old
        /\ worker'.fresh = worker.fresh /\ UNCHANGED coordinator
    BY <1>15, WorkerPc DEF HandOverSkipped, InPass, Pass
  <2>2. sg # "closed"
    BY <1>0, <2>1 DEF Opened
  <2>3. ASSUME NEW o \in Observers
        PROVE  /\ obs'[o].place = obs[o].place /\ obs'[o].alive = obs[o].alive
               /\ obs'[o].callback = obs[o].callback
               /\ obs'[o].initialDelivered = obs[o].initialDelivered
               /\ o \in worker.old => obs'[o].hasRun
               /\ o \notin worker.old => obs'[o].hasRun = obs[o].hasRun
    BY <1>15, HandOverSkippedShape DEF IsHandedOver
  <2>4. Opened'
    BY <1>0, <2>1, <2>2 DEF Opened, coordinator
  <2>5. ASSUME NEW o \in Observers PROVE Placed(o)'
    BY <1>0, <2>1, <2>2, <2>3 DEF Placed, Opened, coordinator
  <2> QED
    BY <2>4, <2>5 DEF PlaceInv
<1>16. CASE HandOver
  <2>1. /\ InPass /\ ~InPass' /\ asyncError' = asyncError /\ sg' = CleanSg
        /\ advancer' = CleanAdvancer
    BY <1>16, WorkerPc DEF HandOver, InPass, Pass
  <2>2. sg # "closed" /\ ~asyncError
    BY <1>0, <2>1 DEF Opened
  <2>3. ASSUME NEW o \in Observers
        PROVE  /\ ~obs[o].alive => obs'[o] = NoNotifier
               /\ obs[o].alive =>
                     /\ obs'[o].place = obs[o].place /\ obs'[o].alive
                     /\ obs'[o].callback = obs[o].callback
                     /\ obs'[o].initialDelivered = obs[o].initialDelivered
                     /\ o \in worker.old \cup worker.fresh => obs'[o].hasRun
                     /\ o \notin worker.old \cup worker.fresh =>
                           obs'[o].hasRun = obs[o].hasRun
    BY <1>16, HandOverShape DEF IsHandedOver
  <2>4. Opened'
    BY <1>0, <2>1, <2>2, CleanShape DEF Opened
  <2>5. ASSUME NEW o \in Observers PROVE Placed(o)'
    <3>1. CASE ~obs[o].alive
      BY <2>1, <2>3, <3>1, NoNotifierShape DEF Placed
    <3>2. CASE obs[o].alive
      BY <1>0, <2>1, <2>2, <2>3, <3>2 DEF Placed
    <3> QED
      BY <3>1, <3>2
  <2> QED
    BY <2>4, <2>5 DEF PlaceInv
<1> QED
  BY <1>2, <1>4, <1>5, <1>6, <1>7, <1>8, <1>9, <1>11, <1>12, <1>13, <1>14, <1>15,
     <1>16 DEF Next, Proceed, RunLoop, Worker

-----------------------------------------------------------------------------
(* Versions.                                                               *)

LEMMA RanKnown ==
    ASSUME Typed, PlaceInv, NEW o \in Ran
    PROVE  /\ o \in Observers /\ obs[o].alive /\ obs[o].hasRun /\ obs[o].callback
           /\ obs[o].place = "listed" /\ sg # "closed" /\ ~asyncError
           /\ InPass => o \in worker.old /\ o \notin worker.fresh
  BY DEF Ran, Mine, PlaceInv, Placed, Opened

LEMMA RanTyped ==
    ASSUME Typed, NEW o \in Observers
    PROVE  /\ obs[o].version \in Nat /\ obs[o].rows \in Nat /\ heard[o].since \in Nat
           /\ worker.target \in Nat /\ worker.skip \in Nat
  BY DEF Typed, Notifier, Hearing

\* No version and no pass moves.
LEMMA VersionFrame ==
    ASSUME VersionInv, Ran' \subseteq Ran,
           \A o \in Ran' : /\ obs'[o].version = obs[o].version
                           /\ obs'[o].rows = obs[o].rows
                           /\ heard'[o].since = heard[o].since,
           worker' = worker \/ (~InPass /\ ~InPass'),
           InPass => worker.fresh \cap Mine' \subseteq Mine,
           skipVersion' \in {0, skipVersion},
           UNCHANGED <<latest, at>>
    PROVE  VersionInv'
<1>1. PassOrdered'
  BY DEF VersionInv, PassOrdered, InPass, Pass
<1>2. SkipOrdered'
  BY DEF VersionInv, SkipOrdered, InPass
<1>3. ASSUME NEW o \in Ran' PROVE Versioned(o)' /\ Behind(o)'
  <2>1. Versioned(o) /\ Behind(o)
    BY <1>3 DEF VersionInv
  <2> QED
    BY <1>3, <2>1 DEF Versioned, Behind, InPass, Pass
<1> QED
  BY <1>1, <1>2, <1>3 DEF VersionInv

\* The main thread's Realm moves to the version everybody has.
LEMMA AtMoves ==
    ASSUME Typed, Typed', VersionInv, Ran' \subseteq Ran, Mine' \subseteq Mine,
           \A o \in Ran' : /\ obs'[o].version = obs[o].version
                           /\ obs'[o].rows = obs[o].rows
                           /\ obs[o].version = at',
           at' <= latest,
           UNCHANGED <<heard, worker, latest, skipVersion>>
    PROVE  VersionInv'
<1>1. PassOrdered' /\ 1 <= latest' /\ at' <= latest'
  BY DEF VersionInv, PassOrdered, InPass, Pass
<1>2. ASSUME NEW o \in Ran'
      PROVE  /\ Versioned(o)'
             /\ obs[o].version <= obs[o].rows /\ obs[o].version = at'
             /\ obs[o].version \in Nat /\ obs[o].rows \in Nat
             /\ InPass => obs[o].rows <= worker.target
             /\ worker.pc \in {"skipping", "skipped"} => obs[o].rows <= worker.skip
  <2>1. Versioned(o) /\ o \in Observers
    BY <1>2 DEF VersionInv, Ran, Mine
  <2> QED
    BY <1>2, <2>1, RanTyped DEF Versioned, InPass, Pass
<1>3. SkipOrdered'
  <2> SUFFICES ASSUME skipVersion' # 0 PROVE SkipOrdered'
    BY DEF SkipOrdered
  <2>1. SkipOrdered /\ skipVersion # 0 /\ skipVersion \in Nat
    BY DEF VersionInv, Typed
  <2>2. \A o \in Ran' : at' <= skipVersion /\ obs'[o].rows <= skipVersion
    BY <1>2, <2>1 DEF SkipOrdered, Typed
  <2> QED
    BY <2>1, <2>2 DEF SkipOrdered, InPass
<1>4. ASSUME NEW o \in Ran' PROVE Behind(o)'
  BY <1>2, <1>4, RanTyped DEF Behind, InPass, Pass, Typed
<1> QED
  BY <1>1, <1>2, <1>3, <1>4 DEF VersionInv

\* A commit of the main thread: everybody alive had run up to the version before.
LEMMA CommitVersions ==
    ASSUME Typed, PlaceInv, VersionInv, ToldInv, NEW c \in BOOLEAN, Commit(c)
    PROVE  VersionInv'
<1>1. /\ latest' = latest + 1 /\ at' = latest' /\ latest \in Nat
      /\ UNCHANGED <<obs, heard, worker, sg, asyncError>>
      /\ skipVersion' = IF Live("listed") # {} THEN latest' ELSE skipVersion
      /\ main = "writing"
  BY DEF Commit, Typed
<1>2. Ran' = Ran /\ Mine' = Mine
  BY <1>1 DEF Ran, Mine
<1>3. ASSUME NEW o \in Ran
      PROVE  /\ Versioned(o) /\ obs[o].version = latest /\ obs[o].version \in Nat
             /\ obs[o].rows \in Nat /\ worker.target \in Nat /\ worker.skip \in Nat
             /\ heard[o].since \in Nat /\ o \in Live("listed")
  <2>1. o \in Mine /\ o \in Observers /\ obs[o].callback /\ obs[o].place = "listed"
    BY <1>3, RanKnown DEF Ran
  <2> QED
    BY <1>1, <1>3, <2>1, RanTyped DEF VersionInv, ToldInv, WriteWaits, Live, At
<1>4. PassOrdered'
  BY <1>1 DEF VersionInv, PassOrdered, InPass, Pass, Typed
<1>5. InPass => worker.fresh \cap Mine = {}
  <2> SUFFICES ASSUME InPass, NEW o \in worker.fresh \cap Mine PROVE FALSE
    OBVIOUS
  <2>1. o \in Observers /\ obs[o].alive /\ Placed(o) /\ ~asyncError
    BY DEF Mine, PlaceInv, Opened
  <2>2. obs[o].callback /\ ~obs[o].hasRun
    BY <2>1 DEF Placed
  <2> QED
    BY <1>1, <2>2 DEF ToldInv, WriteWaits, Ran
<1>6. SkipOrdered'
  <2>1. CASE Live("listed") # {}
    <3>1. \A o \in Ran : obs[o].rows <= latest'
      BY <1>1, <1>3 DEF Versioned
    <3>2. InPass => worker.target <= latest' /\ worker.target \in Nat
      BY <1>1 DEF VersionInv, PassOrdered, Typed
    <3> QED
      BY <1>1, <1>2, <1>5, <2>1, <3>1, <3>2 DEF SkipOrdered, InPass
  <2>2. CASE Live("listed") = {}
    <3>1. Ran = {}
      BY <1>3, <2>2
    <3> QED
      BY <1>1, <1>2, <1>5, <2>2, <3>1 DEF VersionInv, SkipOrdered, InPass, Typed
  <2> QED
    BY <2>1, <2>2
<1>7. ASSUME NEW o \in Ran PROVE Versioned(o)' /\ Behind(o)'
  <2>1. Versioned(o)'
    BY <1>1, <1>3, <1>7 DEF Versioned, InPass, Pass
  <2>2. Behind(o)'
    <3>1. InPass => worker.target = latest
      BY <1>1, <1>3, <1>7 DEF Versioned, VersionInv, PassOrdered
    <3>2. worker.pc \in {"skipping", "skipped"} => InPass /\ worker.skip = latest
      BY <1>1, <1>3, <1>7, <3>1 DEF Versioned, VersionInv, PassOrdered, InPass, Pass
    <3> QED
      BY <1>1, <1>3, <1>7, <3>1, <3>2 DEF Behind, InPass
  <2> QED
    BY <2>1, <2>2
<1> QED
  BY <1>1, <1>2, <1>4, <1>6, <1>7 DEF VersionInv

\* A pass begins where the file is.
LEMMA PassVersions ==
    ASSUME Typed, Typed', PlaceInv, VersionInv, PassStarts
    PROVE  VersionInv'
<1>1. /\ UNCHANGED <<latest, at, heard>> /\ skipVersion' = 0 /\ obs' = Joined
      /\ worker'.pc = (IF CleanSkip = 0 THEN "running" ELSE "skipping")
      /\ worker'.target = latest /\ worker'.skip = CleanSkip /\ ~InPass
  BY DEF PassStarts, file, InPass, Pass
<1>2. \A o \in Ran' : /\ o \in Ran /\ obs'[o].version = obs[o].version
                      /\ obs'[o].rows = obs[o].rows
  BY <1>1, JoinedShape, NoNotifierShape DEF Ran, Mine
<1>3. /\ CleanSkip # 0 => CleanSkip = skipVersion
      /\ latest \in Nat /\ at \in Nat /\ skipVersion \in Nat /\ CleanSkip \in Nat
  BY DEF CleanSkip, Typed
<1>4. PassOrdered' /\ 1 <= latest' /\ at' <= latest'
  BY <1>1, <1>3 DEF VersionInv, PassOrdered, SkipOrdered, InPass, Pass
<1>5. SkipOrdered'
  BY <1>1 DEF SkipOrdered
<1>6. ASSUME NEW o \in Ran' PROVE Versioned(o)' /\ Behind(o)'
  <2>1. /\ Versioned(o) /\ o \in Observers /\ obs[o].version \in Nat
        /\ obs[o].rows \in Nat
    BY <1>2, <1>6, RanTyped DEF VersionInv, Ran, Mine
  <2>2. CleanSkip # 0 => at <= CleanSkip /\ obs[o].rows <= CleanSkip
    BY <1>2, <1>3, <1>6 DEF VersionInv, SkipOrdered
  <2>3. obs[o].rows = obs[o].version
    BY <1>1, <2>1 DEF Versioned, InPass, Pass
  <2>4. Versioned(o)'
    BY <1>1, <1>2, <1>3, <1>6, <2>1, <2>2, <2>3 DEF Versioned, InPass, Pass
  <2>5. Behind(o)'
    BY <1>1, <1>2, <1>3, <1>6, <2>2 DEF Behind, InPass, Pass, VersionInv
  <2> QED
    BY <2>4, <2>5
<1>7. \A o, p \in Ran' : obs'[o].version = obs'[p].version
  BY <1>2 DEF VersionInv
<1> QED
  BY <1>4, <1>5, <1>6, <1>7 DEF VersionInv

\* What a pass does to the notifiers that had run.
LEMMA RunVersions ==
    ASSUME Typed, Typed', PlaceInv, VersionInv, ToldInv,
           RunSkipped \/ HandOverSkipped \/ RunNotifiers \/ HandOver
    PROVE  VersionInv'
<1>1. /\ UNCHANGED <<latest, at>> /\ InPass /\ skipVersion' \in {0, skipVersion}
      /\ latest \in Nat /\ at \in Nat /\ skipVersion \in Nat
      /\ worker.target \in Nat /\ worker.skip \in Nat
      /\ 1 <= latest /\ at <= latest
      /\ PassOrdered /\ SkipOrdered
  BY DEF RunSkipped, HandOverSkipped, RunNotifiers, HandOver, file, coordinator,
         InPass, Pass, CleanSkip, Typed, VersionInv
<1>2. /\ worker'.target = worker.target /\ worker'.skip = worker.skip
      /\ worker'.old = worker.old /\ worker'.fresh = worker.fresh
      /\ RunSkipped => worker.pc = "skipping" /\ worker'.pc = "skipped"
      /\ HandOverSkipped => worker.pc = "skipped" /\ worker'.pc = "running"
      /\ RunNotifiers => worker.pc = "running" /\ worker'.pc = "ran"
      /\ HandOver => worker.pc = "ran" /\ worker'.pc = "signalling"
  BY WorkerPc DEF RunSkipped, HandOverSkipped, RunNotifiers, HandOver
<1>3. ASSUME NEW o \in Ran
      PROVE  /\ o \in Observers /\ obs[o].alive /\ obs[o].hasRun
             /\ o \in worker.old /\ o \notin worker.fresh
             /\ obs[o].version \in Nat /\ obs[o].rows \in Nat
             /\ heard[o].since \in Nat
             /\ Versioned(o) /\ Behind(o)
  BY <1>1, <1>3, RanKnown, RanTyped DEF VersionInv
<1>4. PassOrdered'
  BY <1>1, <1>2 DEF PassOrdered, InPass, Pass
<1>5. Mine' = Mine
  <2>1. \A o \in Observers : obs'[o].alive <=> obs[o].alive
    BY RunSkippedShape, HandOverSkippedShape, RunNotifiersShape, HandOverShape,
       NoNotifierShape DEF IsRun, IsHandedOver
  <2> QED
    BY <2>1 DEF Mine
\* It is enough to know where everybody that has run is now.
<1>6. ASSUME \A o \in Ran' :
                /\ obs'[o].rows <= worker.target /\ Versioned(o)' /\ Behind(o)'
                /\ skipVersion # 0 => o \in Ran,
             \A o, p \in Ran' : obs'[o].version = obs'[p].version
      PROVE  VersionInv'
  <2>1. SkipOrdered'
    <3> SUFFICES ASSUME skipVersion' # 0 PROVE SkipOrdered'
      BY DEF SkipOrdered
    <3>1. skipVersion # 0 /\ skipVersion' = skipVersion
      BY <1>1
    <3>2. /\ skipVersion <= latest /\ worker.target <= skipVersion
          /\ worker.fresh \cap Mine = {}
          /\ \A o \in Ran : at <= skipVersion
      BY <1>1, <3>1 DEF SkipOrdered
    <3>3. \A o \in Ran' : obs'[o].rows <= skipVersion
      BY <1>1, <1>6, <3>2, RanTyped DEF Ran, Mine, Typed, Notifier
    <3> QED
      BY <1>1, <1>2, <1>5, <1>6, <3>1, <3>2, <3>3 DEF SkipOrdered
  <2> QED
    BY <1>1, <1>4, <1>6, <2>1 DEF VersionInv
<1>7. CASE RunSkipped
  <2>1. ASSUME NEW o \in Ran'
        PROVE  /\ o \in Ran /\ obs'[o].version = obs[o].version
               /\ obs'[o].rows = worker.skip /\ heard'[o] = heard[o]
    <3>1. o \in Ran
      BY <1>5, <1>7, <2>1, RunSkippedShape DEF Ran, Mine, IsRun
    <3> QED
      BY <1>3, <1>7, <3>1, RunSkippedShape DEF IsRun, RunSkipped
  <2>2. ASSUME NEW o \in Ran'
        PROVE  obs'[o].rows <= worker.target /\ Versioned(o)' /\ Behind(o)'
    <3>1. worker.skip <= worker.target /\ obs[o].rows <= worker.skip
      BY <1>1, <1>2, <1>3, <1>7, <2>1, <2>2 DEF PassOrdered, Versioned
    <3>2. Versioned(o)'
      BY <1>1, <1>2, <1>3, <1>7, <2>1, <2>2, <3>1
         DEF Versioned, PassOrdered, InPass, Pass
    <3>3. Behind(o)'
      BY <1>1, <1>2, <1>3, <1>7, <2>1, <2>2 DEF Behind, InPass, Pass
    <3> QED
      BY <2>1, <2>2, <3>1, <3>2, <3>3
  <2>3. \A o, p \in Ran' : obs'[o].version = obs'[p].version
    BY <2>1 DEF VersionInv
  <2> QED
    BY <1>1, <1>6, <2>1, <2>2, <2>3
<1>8. CASE HandOverSkipped
  <2>1. ASSUME NEW o \in Ran'
        PROVE  /\ o \in Ran /\ obs'[o].version = worker.skip
               /\ obs'[o].rows = obs[o].rows /\ heard'[o] = heard[o]
    <3>1. o \in Observers /\ obs[o].alive
      BY <1>5, <2>1 DEF Ran, Mine
    <3>2. o \in Ran
      BY <1>1, <1>8, <2>1, <3>1, HandOverSkippedShape DEF Ran, Mine, PlaceInv, Placed
    <3> QED
      BY <1>3, <1>8, <3>2, HandOverSkippedShape DEF IsHandedOver, HandOverSkipped
  <2>2. ASSUME NEW o \in Ran'
        PROVE  obs'[o].rows <= worker.target /\ Versioned(o)' /\ Behind(o)'
    <3>1. worker.skip <= worker.target /\ obs[o].rows = worker.skip
      BY <1>1, <1>2, <1>3, <1>8, <2>1, <2>2 DEF PassOrdered, Versioned
    <3>2. Versioned(o)'
      BY <1>1, <1>2, <1>3, <1>8, <2>1, <2>2, <3>1
         DEF Versioned, PassOrdered, InPass, Pass
    <3>3. Behind(o)'
      BY <1>1, <1>2, <1>3, <1>8, <2>1, <2>2, <3>1 DEF Behind, Versioned, InPass, Pass
    <3> QED
      BY <2>1, <2>2, <3>1, <3>2, <3>3
  <2>3. \A o, p \in Ran' : obs'[o].version = obs'[p].version
    BY <2>1
  <2> QED
    BY <1>1, <1>6, <1>8, <2>1, <2>2, <2>3
<1>9. CASE RunNotifiers
  <2>1. ASSUME NEW o \in Ran'
        PROVE  /\ o \in Ran /\ obs'[o].version = obs[o].version
               /\ obs'[o].rows = worker.target /\ heard'[o].since = heard[o].since
    <3>1. o \in Ran
      BY <1>5, <1>9, <2>1, RunNotifiersShape DEF Ran, Mine, IsRun
    <3> QED
      BY <1>3, <1>9, <3>1, RunNotifiersShape DEF IsRun
  <2>2. ASSUME NEW o \in Ran'
        PROVE  obs'[o].rows <= worker.target /\ Versioned(o)' /\ Behind(o)'
    <3>1. obs[o].rows <= worker.target
      BY <1>1, <1>3, <2>1, <2>2 DEF Versioned
    <3>2. Versioned(o)'
      BY <1>1, <1>2, <1>3, <1>9, <2>1, <2>2, <3>1
         DEF Versioned, PassOrdered, InPass, Pass
    <3>3. Behind(o)'
      BY <1>1, <1>2, <1>3, <1>9, <2>1, <2>2 DEF Behind, InPass, Pass
    <3> QED
      BY <1>1, <2>1, <2>2, <3>2, <3>3
  <2>3. \A o, p \in Ran' : obs'[o].version = obs'[p].version
    BY <2>1 DEF VersionInv
  <2> QED
    BY <1>1, <1>6, <2>1, <2>2, <2>3
<1>10. CASE HandOver
  <2>1. ASSUME NEW o \in Ran'
        PROVE  /\ obs'[o].version = worker.target /\ obs'[o].rows = worker.target
               /\ heard'[o].since \in Nat /\ heard'[o].since <= worker.target
               /\ skipVersion # 0 => o \in Ran
    <3>1. o \in Observers /\ o \in Mine /\ obs[o].alive
      BY <1>5, <2>1 DEF Ran, Mine
    <3>2. CASE o \in Ran
      <4>1. /\ obs[o].rows = worker.target /\ heard[o].since \in Nat
            /\ heard[o].since <= worker.target
        BY <1>2, <1>3, <1>10, <3>2 DEF Versioned
      <4>2. IsHandedOver(obs[o], obs'[o], worker.target) /\ heard' = heard
        BY <1>3, <1>10, <3>1, <3>2, HandOverShape DEF HandOver
      <4> QED
        BY <3>2, <4>1, <4>2 DEF IsHandedOver
    <3>3. CASE o \notin Ran
      <4>1. ~obs[o].hasRun
        BY <3>1, <3>3 DEF Ran
      <4>2. o \in worker.fresh
        BY <1>1, <1>10, <2>1, <3>1, <4>1, HandOverShape DEF Ran, PlaceInv, Placed
      <4>3. obs[o].rows = worker.target /\ heard[o].since = worker.target
        BY <1>2, <1>10, <3>1, <4>1, <4>2 DEF ToldInv, FreshRan
      <4>4. skipVersion = 0
        BY <1>1, <3>1, <4>2 DEF SkipOrdered
      <4>5. IsHandedOver(obs[o], obs'[o], worker.target) /\ heard' = heard
        BY <1>10, <3>1, <4>2, HandOverShape DEF HandOver
      <4> QED
        BY <1>1, <4>3, <4>4, <4>5 DEF IsHandedOver
    <3> QED
      BY <3>2, <3>3
  <2>2. ASSUME NEW o \in Ran'
        PROVE  obs'[o].rows <= worker.target /\ Versioned(o)' /\ Behind(o)'
    BY <1>1, <1>2, <1>10, <2>1, <2>2 DEF Versioned, Behind, PassOrdered, InPass, Pass
  <2> QED
    BY <1>1, <1>6, <2>1, <2>2
<1> QED
  BY <1>7, <1>8, <1>9, <1>10

LEMMA PackageShape ==
    ASSUME Typed, NEW S,
           obs' = [o \in Observers |-> IF o \in S THEN Packaged(obs[o]) ELSE obs[o]]
    PROVE  /\ \A o \in Observers :
                 /\ Alike(obs[o], obs'[o])
                 /\ obs'[o].version = obs[o].version /\ obs'[o].rows = obs[o].rows
                 /\ obs'[o].changes = obs[o].changes
                 /\ o \in S => /\ obs'[o].deliver = obs[o].accumulated
                               /\ obs'[o].accumulated = {}
                 /\ o \notin S => obs'[o] = obs[o]
           /\ Mine' = Mine /\ Ran' = Ran
<1>1. ASSUME NEW o \in Observers
      PROVE  /\ Alike(obs[o], obs'[o])
             /\ obs'[o].version = obs[o].version /\ obs'[o].rows = obs[o].rows
             /\ obs'[o].changes = obs[o].changes
             /\ o \in S => /\ obs'[o].deliver = obs[o].accumulated
                           /\ obs'[o].accumulated = {}
             /\ o \notin S => obs'[o] = obs[o]
  <2>1. obs[o] \in Notifier
    BY DEF Typed
  <2> QED
    BY <2>1, PackagedShape DEF Alike
<1>2. Mine' = Mine /\ Ran' = Ran
  BY <1>1 DEF Mine, Ran, Alike
<1> QED
  BY <1>1, <1>2

LEMMA VersionStep ==
    Typed /\ Typed' /\ PlaceInv /\ VersionInv /\ ToldInv /\ [Next]_vars => VersionInv'
<1> SUFFICES ASSUME Typed, Typed', PlaceInv, VersionInv, ToldInv, [Next]_vars
             PROVE  VersionInv'
  OBVIOUS
<1>0. latest \in Nat /\ at \in Nat /\ at <= latest
  BY DEF Typed, VersionInv
<1>1. ASSUME UNCHANGED <<obs, heard, worker, skipVersion, latest, at>> PROVE VersionInv'
  BY <1>1, VersionFrame DEF Ran, Mine
<1>2. CASE \/ UNCHANGED vars
           \/ BeginWait \/ Cancel \/ CommitNotifies \/ Delivered \/ Announce
  BY <1>1, <1>2
     DEF vars, file, coordinator, BeginWait, Cancel, CommitNotifies, Delivered,
         Announce
<1>3. ASSUME NEW o \in Observers, Observe(o) PROVE VersionInv'
  <2>1. Ran' \subseteq Ran \ {o}
    BY <1>3, ObserveShape DEF Ran, Mine
  <2>2. \A p \in Ran' : obs'[p] = obs[p] /\ heard'[p] = heard[p]
    BY <1>3, <2>1, ObserveShape DEF Ran, Mine
  <2>3. InPass => worker.fresh \cap Mine' \subseteq Mine
    BY <1>3, ObserveShape DEF Observe, PlaceInv, Placed, Mine
  <2>4. UNCHANGED <<latest, at, skipVersion, worker>>
    BY <1>3 DEF Observe, file
  <2> QED
    BY <2>1, <2>2, <2>3, <2>4, VersionFrame
<1>4. ASSUME NEW o \in Observers, Invalidate(o) PROVE VersionInv'
  <2>1. Ran' \subseteq Ran \ {o} /\ Mine' \subseteq Mine
    BY <1>4, InvalidateShape DEF Ran, Mine
  <2>2. \A p \in Ran' : obs'[p] = obs[p] /\ heard'[p] = heard[p]
    BY <1>4, <2>1, InvalidateShape DEF Ran, Mine
  <2>3. UNCHANGED <<latest, at, skipVersion, worker>>
    BY <1>4 DEF Invalidate, file, coordinator
  <2> QED
    BY <2>1, <2>2, <2>3, VersionFrame
<1>5. ASSUME NEW o \in Observers, Deliver(o) PROVE VersionInv'
  <2>1. Ran' = Ran /\ Mine' = Mine
    BY <1>5, DeliverShape DEF Ran, Mine
  <2>2. \A p \in Ran' : /\ obs'[p].version = obs[p].version
                        /\ obs'[p].rows = obs[p].rows
                        /\ heard'[p].since = heard[p].since
    BY <1>5, <2>1, DeliverShape DEF Ran, Mine
  <2>3. UNCHANGED <<latest, at, skipVersion, worker>>
    BY <1>5 DEF Deliver, file, coordinator
  <2> QED
    BY <2>1, <2>2, <2>3, VersionFrame
<1>6. CASE BeginAtOnce \/ NotifyError
  <2>1. /\ DeliverErrors /\ UNCHANGED <<heard, worker, latest, skipVersion>>
        /\ Mine = {} \/ asyncError
    BY <1>6 DEF BeginAtOnce, NotifyError, Turn, file, coordinator
  <2>2. Ran' = {} /\ Mine' \subseteq Mine /\ at' = latest
    <3>1. Ran = {}
      BY <2>1 DEF Ran, PlaceInv, Opened
    <3>2. at' = latest /\ \A p \in Observers : IsErrored(obs[p], obs'[p])
      BY <2>1, ErrorsShape
    <3> QED
      BY <3>1, <3>2 DEF Ran, Mine, IsErrored
  <2> QED
    BY <1>0, <2>1, <2>2, AtMoves
<1>7. ASSUME NEW S,
             obs' = [p \in Observers |-> IF p \in S THEN Packaged(obs[p]) ELSE obs[p]],
             UNCHANGED <<heard, worker, latest, skipVersion>>
      PROVE  /\ at' = at => VersionInv'
             /\ at' <= latest /\ (\A p \in Ran : obs[p].version = at') => VersionInv'
  <2>1. /\ Mine' = Mine /\ Ran' = Ran
        /\ \A p \in Ran : obs'[p].version = obs[p].version /\ obs'[p].rows = obs[p].rows
    BY <1>7, PackageShape DEF Ran, Mine
  <2>2. at' = at => VersionInv'
    BY <1>7, <2>1, VersionFrame
  <2>3. at' <= latest /\ (\A p \in Ran : obs[p].version = at') => VersionInv'
    BY <1>7, <2>1, AtMoves
  <2> QED
    BY <2>2, <2>3
<1>8. CASE NotifyAvailable
  BY <1>7, <1>8 DEF NotifyAvailable, Turn, Package, file, coordinator
<1>9. CASE BeginTell
  <2>1. UNCHANGED <<heard, worker, latest, skipVersion>> /\ at' = latest
    BY <1>9 DEF BeginTell, file, coordinator
  <2>2. ASSUME NEW p \in Ran PROVE obs[p].version = latest
    <3>1. p \in Mine /\ p \in Observers /\ obs[p].callback /\ Versioned(p)
      BY <2>2, RanKnown DEF Ran, VersionInv
    <3> QED
      BY <1>0, <1>9, <3>1, RanTyped DEF BeginTell, Ready, CaughtUp, Versioned
  <2> QED
    BY <1>0, <1>7, <1>9, <2>1, <2>2 DEF BeginTell, Package
<1>10. CASE NotifyAdvance
  <2>1. /\ UNCHANGED <<heard, worker, latest, skipVersion>>
        /\ \/ Ran = {} /\ at' = latest /\ obs' = obs
           \/ /\ obs' = [p \in Observers |->
                            IF p \in Ran THEN Packaged(obs[p]) ELSE obs[p]]
              /\ at' = at \/ \E o \in Ran : at' = obs[o].version
    BY <1>10 DEF NotifyAdvance, Turn, Package, Ran, file, coordinator
  <2>2. CASE Ran = {} /\ at' = latest /\ obs' = obs
    <3>1. Ran' = {} /\ Mine' = Mine
      BY <2>2 DEF Ran, Mine
    <3> QED
      BY <1>0, <2>1, <2>2, <3>1, AtMoves
  <2>3. ASSUME NEW o \in Ran, at' = obs[o].version
        PROVE  at' <= latest /\ \A p \in Ran : obs[p].version = at'
    <3>1. o \in Observers /\ Versioned(o)
      BY <2>3 DEF Ran, Mine, VersionInv
    <3> QED
      BY <1>0, <2>3, <3>1, RanTyped DEF VersionInv, Versioned
  <2> QED
    BY <1>7, <2>1, <2>2, <2>3
<1>11. ASSUME NEW c \in BOOLEAN, CommitElsewhere(c) PROVE VersionInv'
  <2>1. latest' = latest + 1 /\ UNCHANGED <<at, obs, heard, worker, skipVersion>>
    BY <1>11 DEF CommitElsewhere, coordinator
  <2>2. Ran' = Ran /\ Mine' = Mine
    BY <2>1 DEF Ran, Mine
  <2>3. PassOrdered' /\ 1 <= latest' /\ at' <= latest'
    BY <1>0, <2>1 DEF VersionInv, PassOrdered, InPass, Typed
  <2>4. SkipOrdered'
    BY <1>0, <2>1, <2>2 DEF VersionInv, SkipOrdered, InPass, Typed
  <2>5. ASSUME NEW o \in Ran PROVE Versioned(o)' /\ Behind(o)'
    <3>1. Versioned(o) /\ Behind(o) /\ o \in Observers
      BY <2>5 DEF VersionInv, Ran, Mine
    <3>2. obs[o].rows \in Nat
      BY <3>1, RanTyped
    <3> QED
      BY <1>0, <2>1, <3>1, <3>2 DEF Versioned, Behind, InPass
  <2> QED
    BY <2>1, <2>2, <2>3, <2>4, <2>5 DEF VersionInv
<1>12. ASSUME NEW c \in BOOLEAN, Commit(c) PROVE VersionInv'
  BY <1>12, CommitVersions
<1>13. CASE Listen \/ Signal
  <2>1. ~InPass /\ ~InPass' /\ UNCHANGED <<obs, heard, latest, at, skipVersion>>
    BY <1>13, WorkerPc DEF Listen, Signal, Asleep, InPass, Pass, file, coordinator
  <2>2. Ran' = Ran
    BY <2>1 DEF Ran, Mine
  <2> QED
    BY <2>1, <2>2, VersionFrame
<1>14. CASE PassEmpty \/ PassFails
  <2>1. /\ ~InPass /\ ~InPass' /\ UNCHANGED <<heard, latest, at>>
        /\ skipVersion' \in {0, skipVersion}
        /\ obs' = Cleaned \/ obs' = Joined
    BY <1>14, WorkerPc DEF PassEmpty, PassFails, CleanSkip, InPass, Pass, file
  <2>2. \A o \in Ran' : /\ o \in Ran /\ obs'[o].version = obs[o].version
                        /\ obs'[o].rows = obs[o].rows
    BY <2>1, CleanedShape, JoinedShape, NoNotifierShape DEF Ran, Mine
  <2>3. \A o \in Ran' : heard'[o].since = heard[o].since
    BY <2>1
  <2>4. UNCHANGED <<latest, at>> /\ Ran' \subseteq Ran
    BY <2>1, <2>2
  <2> QED
    BY <2>1, <2>2, <2>3, <2>4, VersionFrame
<1>15. CASE PassStarts
  BY <1>15, PassVersions
<1>16. CASE RunSkipped \/ HandOverSkipped \/ RunNotifiers \/ HandOver
  BY <1>16, RunVersions
<1> QED
  BY <1>2, <1>3, <1>4, <1>5, <1>6, <1>8, <1>9, <1>10, <1>11, <1>12, <1>13, <1>14,
     <1>15, <1>16 DEF Next, Proceed, RunLoop, Worker

-----------------------------------------------------------------------------
(* Changes.                                                                *)

LEMMA BetweenSplit ==
    ASSUME \A x \in touched : x \in Nat, NEW a \in Nat, NEW v \in Nat, NEW w \in Nat,
           a <= v, v <= w
    PROVE  /\ Between(a, v) \cup Between(v, w) = Between(a, w)
           /\ Between(a, v) \cap Between(v, w) = {}
           /\ Between(v, v) = {}
  BY DEF Between

\* A commit adds nothing to what changed up to a version there was.
LEMMA BetweenCommit ==
    ASSUME Typed, touched \subseteq touched', touched' \subseteq touched \cup {latest + 1},
           NEW a, NEW v \in Nat, v <= latest
    PROVE  {x \in touched' : a < x /\ x <= v} = Between(a, v)
  BY DEF Between, Typed

\* What ToldInv says of a notifier that is alive depends on all but its place.
Same(n, m) ==
    /\ m.alive = n.alive /\ m.callback = n.callback /\ m.hasRun = n.hasRun
    /\ m.version = n.version /\ m.rows = n.rows /\ m.changes = n.changes
    /\ m.accumulated = n.accumulated /\ m.deliver = n.deliver
    /\ m.initialDelivered = n.initialDelivered

\* No change moves.
LEMMA ToldFrame ==
    ASSUME ToldInv, Mine' = Mine, \A o \in Mine : Same(obs[o], obs'[o]),
           UNCHANGED <<heard, queue, touched, at, latest>>,
           worker' = worker \/ worker'.pc # "ran",
           main' \in {"telling", "writing"} => main \in {"telling", "writing"},
           queue # {} => main' \in {"telling", "notifying"}
    PROVE  ToldInv'
<1>1. Ran' = Ran
  BY DEF Ran, Same
<1>2. ASSUME NEW o \in Mine
      PROVE  IF obs'[o].hasRun THEN Told(o)' ELSE Unrun(o)' /\ FreshRan(o)'
  <2>1. Same(obs[o], obs'[o])
    BY <1>2
  <2>2. CASE obs[o].hasRun
    <3>1. Told(o)
      BY <1>2, <2>2 DEF ToldInv
    <3> QED
      BY <2>1, <2>2, <3>1 DEF Told, Same, Between
  <2>3. CASE ~obs[o].hasRun
    <3>1. Unrun(o) /\ FreshRan(o)
      BY <1>2, <2>3 DEF ToldInv
    <3> QED
      BY <2>1, <2>3, <3>1 DEF Unrun, FreshRan, Same
  <2> QED
    BY <2>2, <2>3
<1>3. \A o \in queue' : Queued(o)'
  <2> SUFFICES ASSUME NEW o \in queue PROVE Queued(o)'
    OBVIOUS
  <2>1. Queued(o) /\ o \in Mine
    BY DEF ToldInv, Queued, Ran
  <2> QED
    BY <1>1, <2>1 DEF Queued, Same, Between
<1>4. WriteWaits'
  BY <1>1 DEF ToldInv, WriteWaits, Same
<1> QED
  BY <1>2, <1>3, <1>4 DEF ToldInv

\* The worker runs a notifier again: the new changes are on their way.
LEMMA RunTold ==
    ASSUME Typed, NEW o \in Observers, Told(o), obs[o].alive, obs[o].hasRun,
           obs[o].callback, NEW v \in Nat, IsRun(obs[o], obs'[o], v),
           obs[o].rows = obs[o].version,
           heard'[o].seen = heard[o].seen, heard'[o].since = heard[o].since,
           UNCHANGED <<touched, at, queue>>
    PROVE  Told(o)'
  BY DEF Told, IsRun, Between

\* They are handed over: added to what is not yet delivered.
LEMMA HandTold ==
    ASSUME Typed, NEW o \in Observers, Told(o), obs[o].alive, obs[o].hasRun,
           obs[o].callback, NEW v \in Nat, IsHandedOver(obs[o], obs'[o], v),
           obs[o].rows = v, heard[o].since <= obs[o].version,
           obs[o].version <= v, v < at => obs[o].version = v,
           heard'[o] = heard[o], UNCHANGED <<touched, at, queue>>
    PROVE  Told(o)'
<1> DEFINE n == obs[o]
           m == obs'[o]
           h == heard[o]
<1>1. /\ n.version \in Nat /\ h.since \in Nat /\ \A x \in touched : x \in Nat
      /\ at \in Nat
  BY RanTyped DEF Typed
<1>2. /\ Between(h.since, n.version) \cup Between(n.version, v) = Between(h.since, v)
      /\ Between(h.since, n.version) \cap Between(n.version, v) = {}
      /\ Between(v, v) = {}
  BY <1>1, BetweenSplit
<1>3. /\ m.version = v /\ m.rows = v /\ m.changes = {} /\ m.deliver = n.deliver
      /\ m.accumulated = n.accumulated \cup n.changes
  BY DEF IsHandedOver
<1>4. /\ n.changes = Between(n.version, v)
      /\ h.seen \cup n.deliver \cup n.accumulated = Between(h.since, n.version)
      /\ h.seen \cap n.deliver = {} /\ h.seen \cap n.accumulated = {}
      /\ n.deliver \cap n.accumulated = {}
      /\ n.version < at => n.accumulated = {}
      /\ n.deliver # {} => o \in queue
  BY DEF Told
<1> HIDE DEF n, m, h
<1>6. h.seen \cup m.deliver \cup m.accumulated = Between(h.since, v)
  BY <1>2, <1>3, <1>4
<1>7. /\ h.seen \cap m.deliver = {} /\ h.seen \cap m.accumulated = {}
      /\ m.deliver \cap m.accumulated = {}
  BY <1>2, <1>3, <1>4
<1>8. m.version < at => m.accumulated = {}
  BY <1>1, <1>2, <1>3, <1>4 DEF n
<1> QED
  BY <1>2, <1>3, <1>4, <1>6, <1>7, <1>8 DEF Told, Between, m, h

\* Changes are packaged for some notifiers, all at the version the main thread
\* then reads; nothing was waiting to be delivered.
LEMMA PackageTold ==
    ASSUME Typed, ToldInv, queue = {}, NEW S \in SUBSET Ran, Package(S),
           \A o \in S : obs[o].version = at',
           at' = at \/ S = Ran,
           UNCHANGED <<heard, worker, touched>>,
           S # {} => main' \in {"telling", "notifying"}, WriteWaits'
    PROVE  ToldInv'
<1>1. /\ \A o \in Observers :
            /\ Alike(obs[o], obs'[o])
            /\ obs'[o].version = obs[o].version /\ obs'[o].rows = obs[o].rows
            /\ obs'[o].changes = obs[o].changes
            /\ o \in S => /\ obs'[o].deliver = obs[o].accumulated
                          /\ obs'[o].accumulated = {}
            /\ o \notin S => obs'[o] = obs[o]
      /\ Mine' = Mine /\ Ran' = Ran
  BY PackageShape DEF Package
<1>2. queue' = S
  BY DEF Package
<1>3. ASSUME NEW o \in Mine
      PROVE  IF obs'[o].hasRun THEN Told(o)' ELSE Unrun(o)' /\ FreshRan(o)'
  <2>0. o \in Observers
    BY <1>3 DEF Mine
  <2>1. CASE ~obs[o].hasRun
    <3>1. Unrun(o) /\ FreshRan(o) /\ o \notin S
      BY <1>3, <2>1 DEF ToldInv, Ran
    <3> QED
      BY <1>1, <2>0, <2>1, <3>1 DEF Unrun, FreshRan
  <2>2. CASE obs[o].hasRun
    <3>1. Told(o) /\ obs[o].deliver = {} /\ obs'[o].hasRun /\ o \in Ran
      BY <1>1, <1>3, <2>0, <2>2 DEF ToldInv, Told, Alike, Ran
    <3>2. CASE o \in S
      BY <1>1, <1>2, <2>0, <3>1, <3>2 DEF Told, Between
    <3>3. CASE o \notin S
      BY <1>1, <1>2, <2>0, <3>1, <3>3 DEF Told, Between
    <3> QED
      BY <3>1, <3>2, <3>3
  <2> QED
    BY <2>1, <2>2
<1>4. ASSUME NEW o \in S PROVE Queued(o)'
  <2>1. o \in Ran /\ o \in Mine /\ o \in Observers
    BY <1>4 DEF Ran, Mine
  <2>2. Told(o) /\ obs[o].deliver = {}
    BY <2>1 DEF ToldInv, Ran, Told
  <2>3. heard[o].seen \cup obs[o].accumulated = Between(heard[o].since, at')
    BY <1>4, <2>2 DEF Told
  <2> QED
    BY <1>1, <1>4, <2>1, <2>3 DEF Queued, Between
<1> QED
  BY <1>1, <1>2, <1>3, <1>4 DEF ToldInv

LEMMA CommitTold ==
    ASSUME Typed, PlaceInv, VersionInv, ToldInv, NEW c \in BOOLEAN,
           Commit(c) \/ CommitElsewhere(c)
    PROVE  ToldInv'
<1>1. /\ latest \in Nat /\ at \in Nat /\ at <= latest
      /\ touched \subseteq touched' /\ touched' \subseteq touched \cup {latest + 1}
      /\ UNCHANGED <<obs, heard, worker, queue>>
  BY DEF Commit, CommitElsewhere, Typed, VersionInv
<1>2. Mine' = Mine /\ Ran' = Ran
  BY <1>1 DEF Mine, Ran
<1>3. ASSUME NEW v \in Nat, v <= latest, NEW a
      PROVE  {x \in touched' : a < x /\ x <= v} = Between(a, v)
  BY <1>1, <1>3, BetweenCommit
<1>4. ASSUME NEW o \in Ran
      PROVE  /\ o \in Observers /\ o \in Mine /\ obs[o].callback /\ Told(o)
             /\ obs[o].version \in Nat /\ obs[o].version <= latest
             /\ obs[o].rows \in Nat /\ obs[o].rows <= latest
  <2>1. o \in Observers /\ o \in Mine /\ obs[o].callback /\ Told(o) /\ Versioned(o)
    BY <1>4, RanKnown DEF Ran, ToldInv, VersionInv
  <2> QED
    BY <1>1, <2>1, RanTyped DEF Versioned
<1>5. ASSUME NEW o \in Ran PROVE Told(o)'
  <2>1. /\ {x \in touched' : obs[o].version < x /\ x <= obs[o].rows}
              = Between(obs[o].version, obs[o].rows)
        /\ {x \in touched' : heard[o].since < x /\ x <= obs[o].version}
              = Between(heard[o].since, obs[o].version)
    BY <1>3, <1>4, <1>5
  <2>2. at' = at \/ obs[o].accumulated = {}
    BY <1>4, <1>5 DEF Commit, CommitElsewhere, ToldInv, WriteWaits
  <2>3. (Between(obs[o].version, obs[o].rows))'
              = Between(obs[o].version, obs[o].rows)
        /\ (Between(heard[o].since, obs[o].version))'
              = Between(heard[o].since, obs[o].version)
    BY <1>1, <2>1 DEF Between
  <2> QED
    BY <1>1, <1>4, <1>5, <2>2, <2>3 DEF Told
<1>6. ASSUME NEW o \in queue PROVE Queued(o)'
  <2>1. Queued(o) /\ main # "writing"
    BY <1>6 DEF ToldInv
  <2>2. at' = at
    BY <2>1 DEF Commit, CommitElsewhere
  <2>3. {x \in touched' : heard[o].since < x /\ x <= at} = Between(heard[o].since, at)
    BY <1>1, <1>3
  <2>4. (Between(heard[o].since, at))' = Between(heard[o].since, at)
    BY <1>1, <2>2, <2>3 DEF Between
  <2> QED
    BY <1>1, <1>2, <2>1, <2>4 DEF Queued
<1>7. WriteWaits' /\ (queue' # {} => main' \in {"telling", "notifying"})
  BY <1>1 DEF Commit, CommitElsewhere, Writer, WriteWaits, ToldInv
<1>8. ASSUME NEW o \in Mine, ~obs[o].hasRun PROVE Unrun(o)' /\ FreshRan(o)'
  <2>1. Unrun(o) /\ FreshRan(o)
    BY <1>8 DEF ToldInv
  <2> QED
    BY <1>1, <2>1 DEF Unrun, FreshRan
<1>9. \A o \in Mine : obs[o].hasRun => o \in Ran
  BY DEF Ran
<1> QED
  BY <1>1, <1>2, <1>5, <1>6, <1>7, <1>8, <1>9 DEF ToldInv

\* What a pass does to the changes.
LEMMA RunStepTold ==
    ASSUME Typed, Typed', PlaceInv, VersionInv, ToldInv,
           RunSkipped \/ HandOverSkipped \/ RunNotifiers \/ HandOver
    PROVE  ToldInv'
<1>1. /\ UNCHANGED <<latest, at, touched, queue, main>> /\ InPass
      /\ latest \in Nat /\ at \in Nat
      /\ worker.target \in Nat /\ worker.skip \in Nat
      /\ PassOrdered /\ 1 <= latest
  BY DEF RunSkipped, HandOverSkipped, RunNotifiers, HandOver, file, coordinator,
         InPass, Pass, Typed, VersionInv
<1>2. /\ worker'.target = worker.target /\ worker'.fresh = worker.fresh
      /\ RunSkipped => worker.pc = "skipping" /\ worker'.pc = "skipped"
      /\ HandOverSkipped => worker.pc = "skipped" /\ worker'.pc = "running"
      /\ RunNotifiers => worker.pc = "running" /\ worker'.pc = "ran"
      /\ HandOver => worker.pc = "ran" /\ worker'.pc = "signalling"
  BY WorkerPc DEF RunSkipped, HandOverSkipped, RunNotifiers, HandOver
<1>3. ASSUME NEW o \in Ran
      PROVE  /\ o \in Observers /\ o \in Mine /\ obs[o].alive /\ obs[o].hasRun
             /\ obs[o].callback /\ o \in worker.old /\ o \notin worker.fresh
             /\ obs[o].version \in Nat /\ obs[o].rows \in Nat
             /\ heard[o].since \in Nat
             /\ Versioned(o) /\ Behind(o) /\ Told(o)
  BY <1>1, <1>3, RanKnown, RanTyped DEF VersionInv, ToldInv, Ran
<1>4. Mine' = Mine
  <2>1. \A o \in Observers : obs'[o].alive <=> obs[o].alive
    BY RunSkippedShape, HandOverSkippedShape, RunNotifiersShape, HandOverShape,
       NoNotifierShape DEF IsRun, IsHandedOver
  <2> QED
    BY <2>1 DEF Mine
<1>5. ASSUME NEW o \in Mine, o \notin Ran
      PROVE  /\ o \in Observers /\ obs[o].alive /\ ~obs[o].hasRun
             /\ o \notin worker.old /\ Unrun(o) /\ FreshRan(o)
  <2>1. o \in Observers /\ obs[o].alive /\ ~obs[o].hasRun
    BY <1>5 DEF Mine, Ran
  <2> QED
    BY <1>1, <1>5, <2>1 DEF PlaceInv, Placed, ToldInv
\* Whoever had run has what is to be delivered, and was told, as before.
<1>6. ASSUME NEW o \in Ran
      PROVE  /\ o \in Ran' /\ Told(o)' /\ heard'[o].seen = heard[o].seen
             /\ heard'[o].since = heard[o].since /\ obs'[o].deliver = obs[o].deliver
             /\ obs'[o].initialDelivered = obs[o].initialDelivered
             /\ obs'[o].callback = obs[o].callback
  <2>0. /\ o \in Observers /\ o \in Mine /\ obs[o].alive /\ obs[o].hasRun
        /\ obs[o].callback /\ o \in worker.old /\ o \notin worker.fresh
        /\ Versioned(o) /\ Behind(o) /\ Told(o)
    BY <1>3, <1>6
  <2>1. CASE RunSkipped
    <3>1. IsRun(obs[o], obs'[o], worker.skip) /\ heard' = heard
      BY <2>0, <2>1, RunSkippedShape DEF RunSkipped
    <3>2. obs[o].rows = obs[o].version
      BY <1>2, <2>0, <2>1 DEF Versioned
    <3>3. Told(o)'
      BY <1>1, <2>0, <3>1, <3>2, RunTold
    <3> QED
      BY <1>4, <2>0, <3>1, <3>3 DEF IsRun, Ran
  <2>2. CASE RunNotifiers
    <3>1. /\ IsRun(obs[o], obs'[o], worker.target)
          /\ heard'[o].seen = heard[o].seen /\ heard'[o].since = heard[o].since
      BY <2>0, <2>2, RunNotifiersShape
    <3>2. obs[o].rows = obs[o].version
      BY <1>2, <2>0, <2>2 DEF Versioned
    <3>3. Told(o)'
      BY <1>1, <2>0, <3>1, <3>2, RunTold
    <3> QED
      BY <1>4, <2>0, <3>1, <3>3 DEF IsRun, Ran
  <2>3. CASE HandOverSkipped
    <3>1. IsHandedOver(obs[o], obs'[o], worker.skip) /\ heard' = heard
      BY <2>0, <2>3, HandOverSkippedShape DEF HandOverSkipped
    <3>2. /\ obs[o].rows = worker.skip /\ heard[o].since <= obs[o].version
          /\ obs[o].version <= worker.skip
          /\ worker.skip < at => obs[o].version = worker.skip
      BY <1>2, <2>0, <2>3 DEF Versioned, Behind
    <3>3. Told(o)'
      BY <1>1, <2>0, <3>1, <3>2, HandTold
    <3> QED
      BY <1>4, <2>0, <3>1, <3>3 DEF IsHandedOver, Ran
  <2>4. CASE HandOver
    <3>1. IsHandedOver(obs[o], obs'[o], worker.target) /\ heard' = heard
      BY <2>0, <2>4, HandOverShape DEF HandOver
    <3>2. /\ obs[o].rows = worker.target /\ heard[o].since <= obs[o].version
          /\ obs[o].version <= worker.target
          /\ worker.target < at => obs[o].version = worker.target
      BY <1>1, <1>2, <2>0, <2>4 DEF Versioned, Behind
    <3>3. Told(o)'
      BY <1>1, <2>0, <3>1, <3>2, HandTold
    <3> QED
      BY <1>4, <2>0, <3>1, <3>3 DEF IsHandedOver, Ran
  <2> QED
    BY <2>1, <2>2, <2>3, <2>4
<1>7. \A o \in queue' : Queued(o)'
  <2> SUFFICES ASSUME NEW o \in queue PROVE Queued(o)'
    BY <1>1
  <2>1. o \in Ran /\ Queued(o)
    BY DEF ToldInv, Queued
  <2> QED
    BY <1>1, <1>6, <2>1 DEF Queued, Between
<1>8. ASSUME NEW o \in Mine, o \notin Ran
      PROVE  IF obs'[o].hasRun THEN Told(o)' ELSE Unrun(o)' /\ FreshRan(o)'
  <2>0. /\ o \in Observers /\ obs[o].alive /\ ~obs[o].hasRun
        /\ o \notin worker.old /\ Unrun(o) /\ FreshRan(o)
    BY <1>5, <1>8
  <2>1. CASE RunSkipped \/ HandOverSkipped
    <3>1. obs'[o] = obs[o] /\ heard' = heard /\ worker'.pc # "ran"
      BY <1>2, <2>0, <2>1, RunSkippedShape, HandOverSkippedShape
         DEF RunSkipped, HandOverSkipped
    <3> QED
      BY <2>0, <3>1 DEF Unrun, FreshRan
  <2>2. CASE RunNotifiers
    <3>1. CASE o \in worker.fresh
      <4>1. /\ IsRun(obs[o], obs'[o], worker.target)
            /\ heard'[o].seen = heard[o].seen /\ heard'[o].since = worker.target
        BY <2>0, <2>2, <3>1, RunNotifiersShape
      <4> QED
        BY <1>2, <2>0, <4>1 DEF IsRun, Unrun, FreshRan
    <3>2. CASE o \notin worker.fresh
      <4>1. /\ obs'[o] = obs[o]
            /\ heard'[o].seen = heard[o].seen /\ heard'[o].since = heard[o].since
        BY <2>0, <2>2, <3>2, RunNotifiersShape
      <4> QED
        BY <1>2, <2>0, <3>2, <4>1 DEF Unrun, FreshRan
    <3> QED
      BY <3>1, <3>2
  <2>3. CASE HandOver
    <3>1. CASE o \in worker.fresh
      <4>1. IsHandedOver(obs[o], obs'[o], worker.target) /\ heard' = heard
        BY <2>0, <2>3, <3>1, HandOverShape DEF HandOver
      <4>2. obs[o].rows = worker.target /\ heard[o].since = worker.target
        BY <1>2, <2>0, <2>3, <3>1 DEF FreshRan
      <4>3. Between(worker.target, worker.target) = {}
        BY <1>1, BetweenSplit DEF Typed
      <4>4. /\ obs'[o].version = worker.target /\ obs'[o].rows = worker.target
            /\ obs'[o].changes = {} /\ obs'[o].accumulated = {}
            /\ obs'[o].deliver = {} /\ obs'[o].hasRun
            /\ heard'[o].seen = {} /\ heard'[o].since = worker.target
        BY <2>0, <4>1, <4>2 DEF IsHandedOver, Unrun
      <4> QED
        BY <1>1, <4>3, <4>4 DEF Told, Between
    <3>2. CASE o \notin worker.fresh
      <4>1. obs'[o] = obs[o] /\ heard' = heard /\ worker'.pc # "ran"
        BY <1>2, <2>0, <2>3, <3>2, HandOverShape DEF HandOver
      <4> QED
        BY <2>0, <4>1 DEF Unrun, FreshRan
    <3> QED
      BY <3>1, <3>2
  <2> QED
    BY <2>1, <2>2, <2>3
\* While a write begins and runs, a pass finds nothing.
<1>9. WriteWaits'
  <2> SUFFICES ASSUME main \in {"telling", "writing"}, NEW o \in Mine, obs'[o].callback
               PROVE  /\ o \in Ran' /\ obs'[o].version = latest
                      /\ obs'[o].accumulated = {}
                      /\ o \in queue \/ obs'[o].initialDelivered
    BY <1>1, <1>4 DEF WriteWaits
  <2>1. o \in Observers /\ obs[o].callback
    BY RunSkippedShape, HandOverSkippedShape, RunNotifiersShape, HandOverShape
       DEF IsRun, IsHandedOver, Mine
  <2>2. /\ o \in Ran /\ obs[o].version = latest /\ obs[o].accumulated = {}
        /\ o \in queue \/ obs[o].initialDelivered
    BY <2>1 DEF ToldInv, WriteWaits
  <2>3. /\ Versioned(o) /\ Told(o) /\ o \in worker.old /\ obs[o].alive
        /\ obs[o].rows \in Nat /\ obs[o].version \in Nat
    BY <1>3, <2>2
  <2>4. obs[o].rows = latest /\ worker.target = latest
    BY <1>1, <2>2, <2>3 DEF Versioned, PassOrdered
  <2>5. obs[o].changes = {}
    BY <1>1, <2>2, <2>3, <2>4 DEF Told, Between, Typed
  <2>6. CASE RunSkipped \/ RunNotifiers
    <3>1. \E v : IsRun(obs[o], obs'[o], v)
      BY <2>1, <2>3, <2>6, RunSkippedShape, RunNotifiersShape
    <3> QED
      BY <1>6, <2>2, <3>1 DEF IsRun
  <2>7. CASE HandOverSkipped \/ HandOver
    <3>1. IsHandedOver(obs[o], obs'[o], latest)
      <4>1. HandOverSkipped => worker.skip = latest
        BY <1>2, <2>3, <2>4 DEF Versioned
      <4> QED
        BY <2>1, <2>3, <2>4, <2>7, <4>1, HandOverSkippedShape, HandOverShape
    <3> QED
      BY <1>6, <2>2, <2>5, <3>1 DEF IsHandedOver
  <2> QED
    BY <2>6, <2>7
<1>10. \A o \in Mine' : IF obs'[o].hasRun THEN Told(o)' ELSE Unrun(o)' /\ FreshRan(o)'
  <2> SUFFICES ASSUME NEW o \in Mine
               PROVE  IF obs'[o].hasRun THEN Told(o)' ELSE Unrun(o)' /\ FreshRan(o)'
    BY <1>4
  <2>1. CASE o \in Ran
    BY <1>6, <2>1 DEF Ran
  <2> QED
    BY <1>8, <2>1
<1> QED
  BY <1>1, <1>7, <1>9, <1>10 DEF ToldInv

LEMMA ToldStep ==
    Typed /\ Typed' /\ PlaceInv /\ VersionInv /\ ToldInv /\ [Next]_vars => ToldInv'
<1> SUFFICES ASSUME Typed, Typed', PlaceInv, VersionInv, ToldInv, [Next]_vars
             PROVE  ToldInv'
  OBVIOUS
<1>0. /\ latest \in Nat /\ at \in Nat /\ at <= latest
      /\ queue # {} => main \in {"telling", "notifying"}
  BY DEF Typed, VersionInv, ToldInv
\* Steps that leave the notifiers alone.
<1>1. ASSUME UNCHANGED <<obs, heard, queue, touched, at, latest>>,
             worker' = worker \/ worker'.pc # "ran",
             main' \in {"telling", "writing"} => main \in {"telling", "writing"},
             queue # {} => main' \in {"telling", "notifying"}
      PROVE  ToldInv'
  BY <1>1, ToldFrame DEF Mine, Same
<1>2. CASE UNCHANGED vars
  BY <1>0, <1>1, <1>2 DEF vars, file
<1>3. CASE BeginWait \/ Cancel \/ CommitNotifies \/ Delivered \/ Announce
  BY <1>0, <1>1, <1>3
     DEF BeginWait, Cancel, CommitNotifies, Delivered, Announce, file
<1>4. CASE Listen \/ Signal
  <2>1. worker'.pc # "ran"
    BY <1>4, WorkerPc DEF Listen, Signal, Asleep
  <2> QED
    BY <1>0, <1>1, <1>4, <2>1 DEF Listen, Signal, file
<1>5. CASE PassEmpty \/ PassFails \/ PassStarts
  <2>1. /\ UNCHANGED <<heard, queue, touched, at, latest, main>>
        /\ worker'.pc # "ran"
        /\ obs' = Cleaned \/ obs' = Joined
    BY <1>5, WorkerPc DEF PassEmpty, PassFails, PassStarts, file
  <2>2. \A o \in Observers :
           /\ obs[o].alive => Same(obs[o], obs'[o])
           /\ ~obs[o].alive => ~obs'[o].alive
    <3> SUFFICES ASSUME NEW o \in Observers
                 PROVE  /\ obs[o].alive => Same(obs[o], obs'[o])
                        /\ ~obs[o].alive => ~obs'[o].alive
      OBVIOUS
    <3>1. CASE obs' = Cleaned
      <4>1. IF obs[o].alive THEN obs'[o] = obs[o] ELSE obs'[o] = NoNotifier
        BY <3>1, CleanedShape
      <4>2. ~NoNotifier.alive
        BY NoNotifierShape
      <4>3. obs[o].alive => Same(obs[o], obs'[o])
        BY <4>1, Zenon DEF Same
      <4> QED
        BY <4>1, <4>2, <4>3
    <3>2. CASE obs' = Joined
      <4>1. ~obs[o].alive => obs'[o] = NoNotifier
        BY <3>2, JoinedShape, Zenon
      <4>2. ~NoNotifier.alive
        BY NoNotifierShape
      <4>3. obs[o].alive => Same(obs[o], obs'[o])
        BY <3>2, JoinedShape, Zenon DEF Same
      <4> QED
        BY <4>1, <4>2, <4>3
    <3> QED
      BY <2>1, <3>1, <3>2
  <2>3. Mine' = Mine /\ \A o \in Mine : Same(obs[o], obs'[o])
    BY <2>2 DEF Mine, Same
  <2> QED
    BY <1>0, <2>1, <2>3, ToldFrame
<1>6. CASE RunSkipped \/ HandOverSkipped \/ RunNotifiers \/ HandOver
  BY <1>6, RunStepTold
<1>7. ASSUME NEW c \in BOOLEAN, Commit(c) \/ CommitElsewhere(c) PROVE ToldInv'
  BY <1>7, CommitTold
\* Steps of one notifier.
<1>8. ASSUME NEW o \in Observers,
             \A p \in Mine' \ {o} : p \in Mine /\ obs'[p] = obs[p] /\ heard'[p] = heard[p],
             UNCHANGED <<touched, at, latest, worker>>, queue' = queue \ {o},
             o \in Mine' => IF obs'[o].hasRun THEN Told(o)' ELSE Unrun(o)' /\ FreshRan(o)',
             \A p \in queue' : p \in Mine',
             queue' # {} => main' \in {"telling", "notifying"}, WriteWaits'
      PROVE  ToldInv'
  <2>1. ASSUME NEW p \in Mine', p # o
        PROVE  IF obs'[p].hasRun THEN Told(p)' ELSE Unrun(p)' /\ FreshRan(p)'
    <3>1. /\ p \in Mine /\ obs'[p] = obs[p] /\ heard'[p] = heard[p]
          /\ p \in queue => p \in queue'
      BY <1>8, <2>1
    <3>2. IF obs[p].hasRun THEN Told(p) ELSE Unrun(p) /\ FreshRan(p)
      BY <3>1 DEF ToldInv
    <3> QED
      BY <1>8, <3>1, <3>2 DEF Told, Unrun, FreshRan, Between
  <2>2. ASSUME NEW p \in queue' PROVE Queued(p)'
    <3>1. p \in queue /\ p # o /\ p \in Mine' /\ obs'[p] = obs[p] /\ heard'[p] = heard[p]
      BY <1>8, <2>2
    <3>2. Queued(p)
      BY <3>1 DEF ToldInv
    <3> QED
      BY <1>8, <3>1, <3>2 DEF Queued, Ran, Between
  <2> QED
    BY <1>8, <2>1, <2>2 DEF ToldInv
<1>9. ASSUME NEW o \in Observers, Observe(o) PROVE ToldInv'
  <2>1. /\ UNCHANGED <<touched, at, latest, worker, queue, main>> /\ main = "idle"
        /\ queue = {} /\ obs[o].place = "none"
    BY <1>0, <1>9 DEF Observe, file
  <2>2. \A p \in Mine' \ {o} : p \in Mine /\ obs'[p] = obs[p] /\ heard'[p] = heard[p]
    BY <1>9, ObserveShape DEF Mine
  <2>3. ~obs'[o].hasRun /\ Unrun(o)'
    BY <1>9, ObserveShape DEF Unrun
  <2>4. FreshRan(o)'
    BY <2>1 DEF FreshRan, PlaceInv, Placed, InPass, Pass
  <2>5. WriteWaits'
    BY <2>1 DEF WriteWaits
  <2> QED
    BY <1>8, <2>1, <2>2, <2>3, <2>4, <2>5
<1>10. ASSUME NEW o \in Observers, Invalidate(o) PROVE ToldInv'
  <2>1. /\ UNCHANGED <<touched, at, latest, worker, queue, main, heard>>
        /\ main = "idle" /\ queue = {}
    BY <1>0, <1>10 DEF Invalidate, file
  <2>2. o \notin Mine' /\ \A p \in Mine' \ {o} : p \in Mine /\ obs'[p] = obs[p]
    BY <1>10, InvalidateShape DEF Mine
  <2>3. WriteWaits'
    BY <2>1 DEF WriteWaits
  <2> QED
    BY <1>8, <2>1, <2>2, <2>3
<1>11. ASSUME NEW o \in Observers, Deliver(o) PROVE ToldInv'
  <2>1. /\ UNCHANGED <<touched, at, latest, worker, main>>
        /\ main \in {"telling", "notifying"} /\ o \in queue /\ queue' = queue \ {o}
    BY <1>11 DEF Deliver, file
  <2>2. o \in Ran /\ Queued(o) /\ Told(o)
    BY <2>1 DEF ToldInv, Queued, Ran
  <2>3. /\ Mine' = Mine /\ Ran' = Ran
        /\ \A p \in Mine' \ {o} : obs'[p] = obs[p] /\ heard'[p] = heard[p]
    BY <1>11, DeliverShape DEF Mine, Ran
  <2>4. Told(o)'
    <3>1. /\ obs'[o].version = obs[o].version /\ obs'[o].rows = obs[o].rows
          /\ obs'[o].changes = obs[o].changes
          /\ obs'[o].accumulated = obs[o].accumulated
          /\ obs'[o].deliver = {}
          /\ heard'[o].since = heard[o].since
          /\ heard'[o].seen = heard[o].seen \cup obs[o].deliver
      BY <1>11, DeliverShape
    <3> QED
      BY <2>1, <2>2, <3>1 DEF Told, Between
  <2>5. obs'[o].hasRun
    BY <1>11, <2>2, DeliverShape DEF Ran
  <2>6. WriteWaits'
    <3> SUFFICES ASSUME main \in {"telling", "writing"}, NEW p \in Mine, obs'[p].callback
                 PROVE  /\ p \in Ran /\ obs'[p].version = latest
                        /\ obs'[p].accumulated = {}
                        /\ p \in queue' \/ obs'[p].initialDelivered
      BY <2>1, <2>3 DEF WriteWaits
    <3>1. /\ p \in Observers /\ obs[p].callback
          /\ obs'[p].version = obs[p].version
          /\ obs'[p].accumulated = obs[p].accumulated
          /\ IF p = o THEN obs'[p].initialDelivered
             ELSE obs'[p].initialDelivered = obs[p].initialDelivered
      BY <1>11, DeliverShape DEF Mine
    <3>2. /\ p \in Ran /\ obs[p].version = latest /\ obs[p].accumulated = {}
          /\ p \in queue \/ obs[p].initialDelivered
      BY <3>1 DEF ToldInv, WriteWaits
    <3> QED
      BY <2>1, <3>1, <3>2
  <2>7. \A p \in queue' : p \in Mine'
    BY <2>1, <2>3 DEF ToldInv, Queued, Ran
  <2> QED
    BY <1>8, <2>1, <2>3, <2>4, <2>5, <2>6, <2>7
<1>12. CASE BeginAtOnce \/ NotifyError
  <2>1. /\ DeliverErrors /\ UNCHANGED <<heard, worker, latest, queue>>
        /\ main = "idle" /\ queue = {} /\ (Mine = {} \/ asyncError)
    BY <1>0, <1>12 DEF BeginAtOnce, NotifyError, Turn, file, coordinator
  <2>2. \A p \in Observers : IsErrored(obs[p], obs'[p])
    BY <2>1, ErrorsShape
  <2>3. Mine' = {}
    BY <2>2 DEF Mine, IsErrored
  <2> QED
    BY <2>1, <2>3 DEF ToldInv, WriteWaits
<1>13. CASE NotifyAvailable
  <2>1. /\ main = "idle" /\ queue = {} /\ Package(Deliverable)
        /\ UNCHANGED <<heard, worker, touched, at>>
        /\ main' = IF Deliverable = {} THEN "idle" ELSE "notifying"
    BY <1>0, <1>13 DEF NotifyAvailable, Turn, file
  <2>2. Deliverable \in SUBSET Ran /\ \A o \in Deliverable : obs[o].version = at'
    BY <2>1 DEF Deliverable, Ran
  <2>3. WriteWaits'
    BY <2>1 DEF WriteWaits
  <2> QED
    BY <2>1, <2>2, <2>3, PackageTold
<1>14. CASE BeginTell
  <2>1. /\ main = "waiting" /\ queue = {} /\ Package(Ran) /\ Ready
        /\ UNCHANGED <<heard, worker, touched, latest>> /\ at' = latest
        /\ main' = "telling" /\ queue' = Ran
    BY <1>0, <1>14 DEF BeginTell, Ran, Package, file
  <2>2. ASSUME NEW o \in Ran PROVE obs[o].version = latest
    <3>1. o \in Mine /\ o \in Observers /\ obs[o].callback /\ Versioned(o)
      BY <2>2, RanKnown DEF Ran, VersionInv
    <3> QED
      BY <1>0, <2>1, <3>1, RanTyped DEF Ready, CaughtUp, Versioned
  <2>3. WriteWaits'
    <3>1. /\ Mine' = Mine /\ Ran' = Ran
          /\ \A o \in Observers :
                /\ obs'[o].callback = obs[o].callback
                /\ obs'[o].version = obs[o].version
                /\ o \in Ran => obs'[o].accumulated = {}
      BY <2>1, PackageShape DEF Package, Alike
    <3>2. \A o \in Mine : obs[o].callback => o \in Ran
      BY <2>1 DEF Ready, CaughtUp, Ran
    <3> QED
      BY <2>1, <2>2, <3>1, <3>2 DEF WriteWaits, Mine
  <2> QED
    BY <2>1, <2>2, <2>3, PackageTold
<1>15. CASE NotifyAdvance
  <2>1. /\ main = "idle" /\ queue = {} /\ UNCHANGED <<heard, worker, touched, latest>>
        /\ \/ Ran = {} /\ at' = latest /\ UNCHANGED <<main, queue, obs>>
           \/ \E o \in Ran :
                 IF obs[o].version < at
                 THEN /\ obs' = [p \in Observers |->
                                    IF p \in Ran THEN Packaged(obs[p]) ELSE obs[p]]
                      /\ UNCHANGED <<at, main, queue>>
                 ELSE /\ Package(Ran)
                      /\ at' = obs[o].version
                      /\ main' = "notifying"
    BY <1>0, <1>15 DEF NotifyAdvance, Turn, Ran, file
  <2>2. CASE Ran = {} /\ at' = latest /\ UNCHANGED <<main, queue, obs>>
    <3>1. Mine' = Mine /\ \A p \in Mine : ~obs[p].hasRun
      BY <2>2 DEF Mine, Ran
    <3>2. ASSUME NEW p \in Mine PROVE ~obs'[p].hasRun /\ Unrun(p)' /\ FreshRan(p)'
      <4>1. ~obs[p].hasRun /\ Unrun(p) /\ FreshRan(p)
        BY <3>1, <3>2 DEF ToldInv
      <4> QED
        BY <2>1, <2>2, <4>1 DEF Unrun, FreshRan
    <3>3. WriteWaits'
      BY <2>1, <2>2 DEF WriteWaits
    <3> QED
      BY <2>1, <2>2, <3>1, <3>2, <3>3 DEF ToldInv
  \* The Realm is newer than what was handed over: there is nothing to tell.
  <2>3. ASSUME NEW o \in Ran, obs[o].version < at,
               obs' = [p \in Observers |->
                          IF p \in Ran THEN Packaged(obs[p]) ELSE obs[p]],
               UNCHANGED <<at, main, queue>>
        PROVE  ToldInv'
    <3>1. ASSUME NEW p \in Ran PROVE obs[p].accumulated = {} /\ obs[p].deliver = {}
      <4>1. Told(p) /\ obs[p].version < at
        BY <2>3, <3>1 DEF ToldInv, VersionInv, Ran
      <4> QED
        BY <2>1, <4>1 DEF Told
    <3>2. ASSUME NEW p \in Observers
          PROVE  /\ obs'[p].alive = obs[p].alive
                 /\ p \in Mine => Same(obs[p], obs'[p])
      <4>1. CASE p \in Ran
        <5>1. obs[p] \in Notifier /\ obs'[p] = Packaged(obs[p])
          BY <2>3, <4>1 DEF Typed
        <5> QED
          BY <3>1, <4>1, <5>1, PackagedShape DEF Same, Alike
      <4>2. CASE p \notin Ran
        <5>1. obs'[p] = obs[p]
          BY <2>3, <4>2
        <5> QED
          BY <5>1 DEF Same, Alike
      <4> QED
        BY <4>1, <4>2
    <3>3. Mine' = Mine /\ \A p \in Mine : Same(obs[p], obs'[p])
      BY <3>2 DEF Mine
    <3> QED
      BY <2>1, <2>3, <3>3, ToldFrame
  <2>4. ASSUME NEW o \in Ran, Package(Ran), at' = obs[o].version, main' = "notifying"
        PROVE  ToldInv'
    <3>1. \A p \in Ran : obs[p].version = at'
      BY <2>4 DEF VersionInv
    <3>2. WriteWaits'
      BY <2>4 DEF WriteWaits
    <3> QED
      BY <2>1, <2>4, <3>1, <3>2, PackageTold
  <2> QED
    BY <2>1, <2>2, <2>3, <2>4
<1> QED
  BY <1>2, <1>3, <1>4, <1>5, <1>6, <1>7, <1>9, <1>10, <1>11, <1>12, <1>13, <1>14,
     <1>15 DEF Next, Proceed, RunLoop, Worker

-----------------------------------------------------------------------------

LEMMA InitRealm == Init => RealmInv
<1> SUFFICES ASSUME Init PROVE RealmInv
  OBVIOUS
<1>1. Typed
  BY NoNotifierShape DEF Init, Typed, Asleep, Hearing
<1>2. \A o \in Observers : obs[o].place = "none" /\ ~obs[o].alive
  BY NoNotifierShape DEF Init
<1>3. Mine = {} /\ Ran = {} /\ ~InPass
  BY <1>2 DEF Mine, Ran, InPass, Pass, Init, Asleep
<1>4. PlaceInv
  BY <1>2, <1>3 DEF PlaceInv, Placed, Opened, Init
<1>5. VersionInv
  BY <1>3 DEF VersionInv, PassOrdered, SkipOrdered, Init, Asleep, InPass, Pass
<1>6. ToldInv
  BY <1>3 DEF ToldInv, WriteWaits, Init
<1> QED
  BY <1>1, <1>4, <1>5, <1>6 DEF RealmInv

LEMMA RealmAlways == Spec => []RealmInv
<1>1. RealmInv /\ [Next]_vars => RealmInv'
  BY TypedStep, PlaceStep, VersionStep, ToldStep DEF RealmInv
<1> QED
  BY InitRealm, <1>1, PTL DEF Spec

\* No change is lost and none is told twice: for every observer, what the worker
\* saw since its first rows was told, is being delivered, has accumulated or is
\* about to be handed over, and is in one of these places only.
THEOREM EveryChangeKept == Spec => []ChangesKept
<1>1. RealmInv => ChangesKept
  <2> SUFFICES ASSUME RealmInv, NEW o \in Mine
               PROVE  LET n == obs[o]
                          parts == <<heard[o].seen, n.deliver, n.accumulated, n.changes>>
                      IN  /\ n.callback /\ n.rows # 0 =>
                                UNION {parts[i] : i \in 1..4}
                                   = Between(heard[o].since, n.rows)
                          /\ \A i, j \in 1..4 : i # j => parts[i] \cap parts[j] = {}
    BY DEF ChangesKept
  <2> DEFINE n == obs[o]
             h == heard[o]
             parts == <<h.seen, n.deliver, n.accumulated, n.changes>>
  <2>1. UNION {parts[i] : i \in 1..4}
           = h.seen \cup n.deliver \cup n.accumulated \cup n.changes
    <3> HIDE DEF n, h
    <3>1. \A x : x \in UNION {parts[i] : i \in 1..4} <=>
             x \in parts[1] \/ x \in parts[2] \/ x \in parts[3] \/ x \in parts[4]
      OBVIOUS
    <3> QED
      BY <3>1
  <2>2. o \in Observers /\ \A x \in touched : x \in Nat
    BY DEF RealmInv, Typed, Mine
  <2>3. n.version \in Nat /\ n.rows \in Nat /\ h.since \in Nat
    BY <2>2, RanTyped DEF RealmInv
  <2>4. CASE n.hasRun
    <3>1. Told(o) /\ Versioned(o)
      BY <2>4 DEF RealmInv, ToldInv, VersionInv, Ran
    <3>2. /\ Between(h.since, n.version) \cup Between(n.version, n.rows)
                = Between(h.since, n.rows)
          /\ Between(h.since, n.version) \cap Between(n.version, n.rows) = {}
      BY <2>2, <2>3, <3>1, BetweenSplit DEF Versioned
    <3>3. /\ n.changes = Between(n.version, n.rows)
          /\ h.seen \cup n.deliver \cup n.accumulated = Between(h.since, n.version)
          /\ h.seen \cap n.deliver = {} /\ h.seen \cap n.accumulated = {}
          /\ n.deliver \cap n.accumulated = {}
      BY <3>1 DEF Told
    <3> HIDE DEF n, h
    <3>4. /\ h.seen \cap n.changes = {} /\ n.deliver \cap n.changes = {}
          /\ n.accumulated \cap n.changes = {}
      BY <3>2, <3>3
    <3>5. \A i, j \in 1..4 : i # j => parts[i] \cap parts[j] = {}
      BY <3>3, <3>4
    <3>6. h.seen \cup n.deliver \cup n.accumulated \cup n.changes = Between(h.since, n.rows)
      BY <3>2, <3>3
    <3> QED
      BY <2>1, <3>5, <3>6 DEF n, h
  <2>5. CASE ~n.hasRun
    <3>1. Unrun(o)
      BY <2>5 DEF RealmInv, ToldInv
    <3>2. /\ h.seen = {} /\ n.deliver = {} /\ n.accumulated = {} /\ n.changes = {}
          /\ n.rows # 0 => n.rows = h.since
      BY <3>1 DEF Unrun
    <3>3. Between(h.since, h.since) = {}
      BY <2>2, <2>3, BetweenSplit
    <3> HIDE DEF n, h
    <3>4. \A i, j \in 1..4 : i # j => parts[i] \cap parts[j] = {}
      BY <3>2
    <3> QED
      BY <2>1, <3>2, <3>3, <3>4 DEF n, h
  <2> QED
    BY <2>4, <2>5
<1> QED
  BY RealmAlways, <1>1, PTL

\* A callback runs while the main thread's Realm reads exactly the version its
\* changes lead to, whichever of the three ways of telling it led there.
THEOREM CallbacksInStep == Spec => []CalledAtItsVersion
<1>1. RealmInv => CalledAtItsVersion
  BY DEF RealmInv, ToldInv, Queued, CalledAtItsVersion
<1> QED
  BY RealmAlways, <1>1, PTL

-----------------------------------------------------------------------------
(* The two helpers of the coordinator.                                     *)

\* The first reads while anybody is listed, the second exactly while somebody
\* is new, at a version no newer than the new ones need; a version is skipped
\* for somebody.
Helpers ==
    /\ At("listed") # {} => sg = "reading"
    /\ At("new") # {} <=> advancer.stage = "reading"
    /\ \A o \in Live("new") : advancer.version <= obs[o].version
    /\ skipVersion # 0 => At("listed") # {}
    /\ worker.pc = "skipping" => worker.old # {}

HelpersInv ==
    /\ advancer.version \in Nat
    /\ asyncError => OpenMayFail
    /\ ~asyncError => Helpers

LEMMA HelpersFrame ==
    ASSUME Helpers, UNCHANGED <<sg, advancer>>,
           \A o \in Observers :
              /\ obs'[o].place = obs[o].place
              /\ obs'[o].alive => obs[o].alive
              /\ obs[o].place = "new" => obs'[o].version = obs[o].version,
           skipVersion' = 0 \/ skipVersion' = skipVersion \/ At("listed") # {},
           worker'.pc = "skipping" => worker.pc = "skipping" /\ worker'.old = worker.old
    PROVE  Helpers'
<1>1. /\ At("new")' = At("new") /\ At("listed")' = At("listed")
      /\ Live("new")' \subseteq Live("new")
      /\ \A o \in Live("new") : obs'[o].version = obs[o].version
  BY DEF At, Live, Mine
<1> QED
  BY <1>1 DEF Helpers

\* Cleaning up leaves those alive, and ends what was read for the others only.
LEMMA CleaningHelpers ==
    ASSUME Helpers, sg' = CleanSg, skipVersion' = CleanSkip, advancer' = CleanAdvancer,
           \A o \in Observers :
              /\ ~obs[o].alive => ~obs'[o].alive /\ obs'[o].place = "none"
              /\ obs[o].alive => obs'[o].alive /\ obs'[o].place = obs[o].place
              /\ obs[o].alive /\ obs[o].place = "new" => obs'[o].version = obs[o].version,
           worker'.pc # "skipping"
    PROVE  Helpers'
<1>1. /\ At("new")' = Live("new") /\ Live("new")' = Live("new")
      /\ At("listed")' = Live("listed")
      /\ \A o \in Live("new") : obs'[o].version = obs[o].version
  BY DEF At, Live, Mine
<1>2. \A p : At(p) = Live(p) \cup Dead(p)
  BY DEF Live, Dead
<1>3. At("listed")' # {} => sg' = "reading"
  BY <1>1, <1>2 DEF Helpers, CleanSg, CleanEndsRead
<1>4. /\ At("new")' # {} <=> advancer'.stage = "reading"
      /\ At("new")' # {} => advancer' = advancer
  BY <1>1, <1>2 DEF Helpers, CleanAdvancer
<1>5. skipVersion' # 0 => At("listed")' # {}
  BY <1>1, <1>2 DEF Helpers, CleanSkip, CleanEndsRead
<1> QED
  BY <1>1, <1>3, <1>4, <1>5 DEF Helpers

LEMMA HelpersStep ==
    RealmInv /\ HelpersInv /\ [Next]_vars => HelpersInv'
<1> SUFFICES ASSUME RealmInv, HelpersInv, [Next]_vars PROVE HelpersInv'
  OBVIOUS
<1>0. /\ Typed /\ \A o \in Observers : Placed(o)
      /\ at \in Nat /\ advancer.version \in Nat /\ asyncError \in BOOLEAN
      /\ queue # {} => main \in {"telling", "notifying"}
  BY DEF RealmInv, Typed, PlaceInv, ToldInv, HelpersInv
<1>1. advancer'.version \in Nat
  <2>1. advancer' \in {advancer, Pinned, CleanAdvancer, [stage |-> "ready", version |-> 0]}
    BY DEF Next, Observe, Invalidate, BeginAtOnce, BeginWait, Commit,
       CommitElsewhere, Cancel, Announce, Proceed, Deliver, Delivered, BeginTell,
       CommitNotifies, RunLoop, NotifyError, NotifyAvailable, NotifyAdvance, Turn,
       Worker, Listen, PassEmpty, PassFails, PassStarts, RunSkipped, HandOverSkipped,
       RunNotifiers, HandOver, Signal, vars, coordinator
  <2> QED
    BY <1>0, <2>1 DEF Pinned, CleanAdvancer
<1>2. asyncError' = asyncError \/ (OpenMayFail /\ asyncError') \/ (asyncError /\ asyncError')
  BY <1>0 DEF Next, Observe, Invalidate, BeginAtOnce, BeginWait, Commit,
     CommitElsewhere, Cancel, Announce, Proceed, Deliver, Delivered, BeginTell,
     CommitNotifies, RunLoop, NotifyError, NotifyAvailable, NotifyAdvance, Turn,
     Worker, Listen, PassEmpty, PassFails, PassStarts, RunSkipped, HandOverSkipped,
     RunNotifiers, HandOver, Signal, vars, coordinator
<1>3. (asyncError' => OpenMayFail) /\ (asyncError => asyncError')
  <2>1. asyncError => OpenMayFail
    BY DEF HelpersInv
  <2>2. CASE asyncError' = asyncError
    BY <2>1, <2>2, Zenon
  <2>3. CASE (OpenMayFail /\ asyncError') \/ (asyncError /\ asyncError')
    BY <2>1, <2>3
  <2> QED
    BY <1>2, <2>2, <2>3
<1> SUFFICES ASSUME ~asyncError, ~asyncError', Helpers PROVE Helpers'
  BY <1>1, <1>3 DEF HelpersInv
<1>4. CASE \/ UNCHANGED vars
           \/ BeginWait \/ Cancel \/ CommitNotifies \/ Delivered \/ Announce \/ Listen
           \/ Signal \/ \E c \in BOOLEAN : Commit(c) \/ CommitElsewhere(c)
  <2>1. /\ UNCHANGED <<obs, sg, advancer>>
        /\ skipVersion' = skipVersion \/ At("listed") # {}
        /\ worker' = worker \/ worker'.pc \in {"woken", "asleep"}
    BY <1>0, <1>4, WorkerPc
       DEF vars, coordinator, BeginWait, Cancel, CommitNotifies, Delivered, Announce,
           Commit, CommitElsewhere, Live, Listen, Signal, Asleep
  <2> QED
    BY <2>1, HelpersFrame
<1>5. CASE BeginTell \/ NotifyAvailable \/ NotifyAdvance
  <2>1. \/ obs' = obs
        \/ \E S : obs' = [o \in Observers |->
                             IF o \in S THEN Packaged(obs[o]) ELSE obs[o]]
    BY <1>5 DEF BeginTell, NotifyAvailable, NotifyAdvance, Package
  <2>2. ASSUME NEW o \in Observers
        PROVE  /\ obs'[o].place = obs[o].place /\ obs'[o].alive = obs[o].alive
               /\ obs'[o].version = obs[o].version
    BY <1>0, <2>1, PackageShape DEF Alike
  <2>3. UNCHANGED <<sg, advancer, skipVersion, worker>>
    BY <1>5 DEF BeginTell, NotifyAvailable, NotifyAdvance, Turn, coordinator
  <2> QED
    BY <2>2, <2>3, HelpersFrame
<1>6. ASSUME NEW o \in Observers, Observe(o) PROVE Helpers'
  <2>1. /\ UNCHANGED <<sg, skipVersion, worker>> /\ advancer' = Pinned
        /\ obs[o].place = "none" /\ obs[o].alive = FALSE
    BY <1>0, <1>6 DEF Observe, Placed, Typed, Notifier
  <2>2. /\ \A p \in Observers \ {o} : obs'[p] = obs[p]
        /\ obs'[o].place = "new" /\ obs'[o].version = at /\ obs'[o].alive
    BY <1>0, <1>6, ObserveShape
  <2>3. /\ At("new")' = At("new") \cup {o} /\ At("listed")' = At("listed")
        /\ Live("new")' = Live("new") \cup {o} /\ o \notin Live("new")
        /\ \A p \in Live("new") : obs'[p] = obs[p] /\ obs[p].version \in Nat
    BY <1>0, <2>1, <2>2 DEF At, Live, Mine, Typed, Notifier
  <2>4. /\ advancer'.stage = "reading" /\ advancer'.version <= at
        /\ At("new") # {} => advancer'.version <= advancer.version
    BY <1>0, <2>1 DEF Pinned, Helpers
  <2>5. \A p \in Live("new")' : advancer'.version <= obs'[p].version
    <3>1. ASSUME NEW p \in Live("new") PROVE advancer'.version <= obs'[p].version
      BY <1>0, <1>1, <2>3, <2>4, <3>1 DEF Helpers, Live
    <3> QED
      BY <2>2, <2>3, <2>4, <3>1
  <2> QED
    BY <2>1, <2>3, <2>4, <2>5 DEF Helpers
<1>7. ASSUME NEW o \in Observers, Invalidate(o) PROVE Helpers'
  <2>1. UNCHANGED <<sg, advancer, skipVersion, worker>>
    BY <1>7 DEF Invalidate, coordinator
  <2>2. obs[o] \in Notifier /\ o \in Mine
    BY <1>0, <1>7 DEF Typed, Invalidate
  <2>3. /\ obs'[o].version = obs[o].version /\ obs'[o].place = obs[o].place
        /\ ~obs'[o].alive
    BY <1>0, <1>7, <2>2 DEF Invalidate, Typed, Notifier
  <2>4. \A p \in Observers \ {o} : obs'[p] = obs[p]
    BY <1>0, <1>7, InvalidateShape
  <2> QED
    BY <2>1, <2>3, <2>4, HelpersFrame
<1>8. ASSUME NEW o \in Observers, Deliver(o) PROVE Helpers'
  <2>1. UNCHANGED <<sg, advancer, skipVersion, worker>>
    BY <1>8 DEF Deliver, coordinator
  <2> QED
    BY <1>0, <1>8, <2>1, DeliverShape, HelpersFrame
<1>9. CASE BeginAtOnce \/ NotifyError
  <2>1. DeliverErrors /\ UNCHANGED <<sg, advancer, skipVersion, worker>>
    BY <1>9 DEF BeginAtOnce, NotifyError, Turn, coordinator
  <2>2. \A p \in Observers : IsErrored(obs[p], obs'[p])
    BY <1>0, <2>1, ErrorsShape
  <2> QED
    BY <2>1, <2>2, HelpersFrame DEF IsErrored
<1>10. CASE RunSkipped \/ HandOverSkipped \/ RunNotifiers
  <2>1. /\ UNCHANGED <<sg, advancer, skipVersion>> /\ InPass
        /\ worker'.pc # "skipping"
    BY <1>0, <1>10, WorkerPc
       DEF RunSkipped, HandOverSkipped, RunNotifiers, coordinator, InPass, Pass
  <2>2. ASSUME NEW o \in Observers
        PROVE  /\ obs'[o].place = obs[o].place /\ obs'[o].alive = obs[o].alive
               /\ obs'[o].version = obs[o].version \/ o \in worker.old
    BY <1>0, <1>10, RunSkippedShape, HandOverSkippedShape, RunNotifiersShape
       DEF IsRun, IsHandedOver
  <2>3. \A o \in Observers : obs[o].place = "new" => o \notin worker.old
    BY <1>0, <2>1 DEF Placed
  <2> QED
    BY <2>1, <2>2, <2>3, HelpersFrame
<1>11. CASE PassEmpty \/ HandOver
  <2>1. /\ sg' = CleanSg /\ skipVersion' = CleanSkip /\ advancer' = CleanAdvancer
        /\ worker'.pc = "signalling"
    BY <1>0, <1>11, WorkerPc DEF PassEmpty, HandOver
  <2>2. ASSUME NEW o \in Observers
        PROVE  /\ ~obs[o].alive => ~obs'[o].alive /\ obs'[o].place = "none"
               /\ obs[o].alive => obs'[o].alive /\ obs'[o].place = obs[o].place
               /\ obs[o].alive /\ obs[o].place = "new" =>
                     obs'[o].version = obs[o].version
    <3>1. CASE PassEmpty
      <4>1. obs' = Cleaned
        BY <3>1 DEF PassEmpty
      <4> QED
        BY <1>0, <4>1, CleanedShape, NoNotifierShape
    <3>2. CASE HandOver
      <4>1. InPass
        BY <3>2 DEF HandOver, InPass, Pass
      <4>2. obs[o].place = "new" => o \notin worker.old \cup worker.fresh
        BY <1>0, <4>1 DEF Placed
      <4> QED
        BY <1>0, <3>2, <4>2, HandOverShape, NoNotifierShape DEF IsHandedOver
    <3> QED
      BY <1>11, <3>1, <3>2
  <2> QED
    BY <2>1, <2>2, CleaningHelpers
<1>12. CASE PassStarts
  <2>1. /\ obs' = Joined /\ sg' = "reading" /\ skipVersion' = 0
        /\ advancer'.stage = "ready" /\ worker'.old = Live("listed")
        /\ worker'.pc = "skipping" => CleanSkip # 0
    BY <1>12 DEF PassStarts
  <2>2. \A o \in Observers : obs'[o].place # "new"
    BY <1>0, <2>1, JoinedShape, NoNotifierShape
  <2>3. At("new")' = {} /\ Live("new")' = {}
    BY <2>2 DEF At, Live
  <2>4. CleanSkip # 0 => Live("listed") # {}
    BY DEF Helpers, CleanSkip, CleanEndsRead, Live, Dead
  <2> QED
    BY <2>1, <2>3, <2>4 DEF Helpers
<1>13. ~PassFails
  BY DEF PassFails
<1> QED
  BY <1>4, <1>5, <1>6, <1>7, <1>8, <1>9, <1>10, <1>11, <1>12, <1>13
     DEF Next, Proceed, RunLoop, Worker

LEMMA HelpersAlways == Spec => []HelpersInv
<1>1. Init => HelpersInv
  BY NoNotifierShape DEF Init, HelpersInv, Helpers, At, Live, Asleep
<1> QED
  BY <1>1, HelpersStep, RealmAlways, PTL DEF Spec

LEMMA AssertionsFollow ==
    RealmInv /\ HelpersInv /\ ~asyncError => AssertionsHold
  BY DEF RealmInv, VersionInv, PassOrdered, Typed, HelpersInv, Helpers, AssertionsHold,
         CleanEndsRead, Live, Dead

\* The assertions of the coordinator hold for as long as the worker has not
\* failed to open the file: whatever order observers come and go in, and
\* wherever the worker's pass is.
THEOREM AssertionsHoldUntilFailure == Spec => [](~asyncError => AssertionsHold)
<1>1. RealmInv /\ HelpersInv => (~asyncError => AssertionsHold)
  BY AssertionsFollow
<1> QED
  BY <1>1, RealmAlways, HelpersAlways, PTL

\* Where opening the file cannot fail, they always hold.
THEOREM AssertionsHoldIfOpened ==
    ASSUME ~OpenMayFail PROVE Spec => []AssertionsHold
<1>1. RealmInv /\ HelpersInv => AssertionsHold
  BY AssertionsFollow DEF HelpersInv
<1> QED
  BY <1>1, RealmAlways, HelpersAlways, PTL

-----------------------------------------------------------------------------
(* What the screens may rely on.                                           *)

Pending == {o \in Observing : Unheard(o)}

\* Who is alive with a callback, and whether it has something to hear, depends
\* on this much.
LEMMA PendingFrame ==
    ASSUME UNCHANGED <<touched, latest>>,
           \A o \in Observers :
              /\ obs'[o].alive = obs[o].alive
              /\ obs[o].alive =>
                    /\ obs'[o].callback = obs[o].callback
                    /\ obs'[o].initialDelivered = obs[o].initialDelivered
                    /\ obs[o].initialDelivered =>
                          /\ heard'[o].seen = heard[o].seen
                          /\ heard'[o].since = heard[o].since
    PROVE  Observing' = Observing /\ Pending' = Pending
<1>1. Mine' = Mine
  BY DEF Mine
<1>2. Observing' = Observing /\ Observing \subseteq Mine
  BY <1>1 DEF Observing, Mine
<1>3. ASSUME NEW o \in Observing PROVE Unheard(o)' <=> Unheard(o)
  <2>1. o \in Observers /\ obs[o].alive
    BY <1>2, <1>3 DEF Mine
  <2>2. CASE obs[o].initialDelivered
    BY <2>1, <2>2 DEF Unheard, Between
  <2>3. CASE ~obs[o].initialDelivered
    BY <2>1, <2>3 DEF Unheard
  <2> QED
    BY <2>2, <2>3
<1> QED
  BY <1>2, <1>3 DEF Pending

\* An observer that has run has been told changes of versions in the file.
LEMMA HeardOf ==
    ASSUME RealmInv, NEW o \in Observing
    PROVE  /\ o \in Observers /\ o \in Mine /\ obs[o].callback
           /\ ~obs[o].hasRun => ~obs[o].initialDelivered
           /\ obs[o].hasRun =>
                 /\ o \in Ran /\ Told(o)
                 /\ heard[o].since \in Nat /\ heard[o].since <= latest
                 /\ heard[o].seen \subseteq touched
<1>1. o \in Observers /\ o \in Mine /\ obs[o].callback /\ Placed(o) /\ obs[o].alive
  BY DEF Observing, Mine, RealmInv, PlaceInv
<1>2. ASSUME obs[o].hasRun
      PROVE  /\ o \in Ran /\ Told(o)
             /\ heard[o].since \in Nat /\ heard[o].since <= latest
             /\ heard[o].seen \subseteq touched
  <2>1. o \in Ran /\ Told(o) /\ Versioned(o)
    BY <1>1, <1>2 DEF Ran, RealmInv, ToldInv, VersionInv
  <2>2. heard[o].since \in Nat /\ latest \in Nat /\ obs[o].version \in Nat /\ obs[o].rows \in Nat
    BY <1>1, RanTyped DEF RealmInv, Typed
  <2>3. heard[o].seen \subseteq touched
    BY <2>1 DEF Told, Between
  <2> QED
    BY <2>1, <2>2, <2>3 DEF Versioned
<1> QED
  BY <1>1, <1>2 DEF Placed

\* A commit that changes the collection is news to everybody, another to nobody.
LEMMA CommitPending ==
    ASSUME RealmInv, NEW c \in BOOLEAN, latest' = latest + 1,
           touched' = touched \cup (IF c THEN {latest'} ELSE {}),
           UNCHANGED <<obs, heard>>
    PROVE  /\ Observing' = Observing
           /\ c => Pending' = Observing
           /\ ~c => Pending' = Pending
<1>1. Observing' = Observing
  BY DEF Observing, Mine
<1>2. latest \in Nat /\ \A x \in touched : x \in Nat /\ x <= latest
  BY DEF RealmInv, Typed
<1>3. ASSUME c, NEW o \in Observing PROVE Unheard(o)'
  <2>1. CASE ~obs[o].hasRun
    BY <1>3, <2>1, HeardOf DEF Unheard
  <2>2. CASE obs[o].hasRun
    <3>1. /\ heard[o].since \in Nat /\ heard[o].since <= latest
          /\ heard[o].seen \subseteq touched
      BY <1>3, <2>2, HeardOf
    <3>2. latest' \in Between(heard[o].since, latest)'
      BY <1>2, <1>3, <3>1 DEF Between
    <3>3. latest' \notin heard[o].seen
      BY <1>2, <3>1
    <3> QED
      BY <3>2, <3>3 DEF Unheard
  <2> QED
    BY <2>1, <2>2
<1>4. ASSUME ~c, NEW o \in Observing PROVE Unheard(o)' <=> Unheard(o)
  <2>1. Between(heard[o].since, latest)' = Between(heard[o].since, latest)
    BY <1>2, <1>4 DEF Between
  <2> QED
    BY <2>1 DEF Unheard
<1> QED
  BY <1>1, <1>3, <1>4 DEF Pending

\* When the block of a write may run, everybody has heard of everything.
LEMMA NobodyPending ==
    ASSUME RealmInv, main \in {"telling", "writing"}, queue = {}
    PROVE  Pending = {}
<1> SUFFICES ASSUME NEW o \in Observing PROVE ~Unheard(o)
  BY DEF Pending
<1>1. o \in Mine /\ obs[o].callback
  BY HeardOf
<1>2. /\ o \in Ran /\ obs[o].version = latest /\ obs[o].accumulated = {}
      /\ obs[o].initialDelivered
  BY <1>1 DEF RealmInv, ToldInv, WriteWaits
<1>3. Told(o)
  BY <1>2, HeardOf DEF Ran
<1>4. obs[o].deliver = {}
  BY <1>3 DEF Told
<1>5. heard[o].seen = Between(heard[o].since, latest)
  BY <1>2, <1>3, <1>4 DEF Told
<1> QED
  BY <1>2, <1>5 DEF Unheard

\* A callback that is called leaves its observer with nothing to hear, unless a
\* newer version is in the file already; it never gives it something to hear.
LEMMA DeliverPending ==
    ASSUME RealmInv, NEW o \in Observers, Deliver(o)
    PROVE  /\ Observing' = Observing /\ o \in Observing
           /\ Pending' = Pending \/ (o \in Pending /\ Pending' = Pending \ {o})
<1>0. Typed /\ o \in queue /\ UNCHANGED <<touched, latest>>
  BY DEF RealmInv, Deliver, file
<1>1. o \in Ran /\ heard[o].seen \cup obs[o].deliver = Between(heard[o].since, at)
  BY <1>0 DEF RealmInv, ToldInv, Queued
<1>2. o \in Observing /\ obs[o].alive
  BY <1>1, RanKnown DEF RealmInv, Observing, Mine
<1>3. /\ \A p \in Observers \ {o} : obs'[p] = obs[p] /\ heard'[p] = heard[p]
      /\ obs'[o].alive = obs[o].alive /\ obs'[o].callback = obs[o].callback
      /\ obs'[o].initialDelivered
      /\ heard'[o].since = heard[o].since
      /\ heard'[o].seen = heard[o].seen \cup obs[o].deliver
  BY <1>0, DeliverShape
<1>4. Observing' = Observing
  BY <1>3 DEF Observing, Mine
<1>5. \A p \in Observing \ {o} : Unheard(p)' <=> Unheard(p)
  BY <1>0, <1>3 DEF Unheard, Between, Observing, Mine
<1>6. ASSUME ~Unheard(o) PROVE ~Unheard(o)'
  <2>1. heard[o].seen = Between(heard[o].since, latest)
    BY <1>6 DEF Unheard
  <2>2. Between(heard[o].since, at) \subseteq Between(heard[o].since, latest)
    <3>1. at \in Nat /\ latest \in Nat /\ at <= latest /\ \A x \in touched : x \in Nat
      BY DEF RealmInv, Typed, VersionInv
    <3> QED
      BY <3>1 DEF Between
  <2>3. heard'[o].seen = Between(heard[o].since, latest)
    BY <1>1, <1>3, <2>1, <2>2
  <2> QED
    BY <1>0, <1>3, <2>3 DEF Unheard, Between
<1> QED
  BY <1>2, <1>4, <1>5, <1>6 DEF Pending

\* One step of Realm is one step of RealmObservation, or none.
LEMMA ObservationStep ==
    ASSUME RealmInv, [Next]_vars
    PROVE  [Observation!Next]_(Observation!vars)
<1> DEFINE writing == main = "writing"
           Stutter == Observing' = Observing /\ Pending' = Pending /\ (writing' <=> writing)
<1>0. Typed /\ \A o \in Observers : Placed(o)
  BY DEF RealmInv, PlaceInv
<1>s. ASSUME Stutter PROVE UNCHANGED Observation!vars
  BY <1>s DEF Observation!vars, Pending
<1>1. ASSUME UNCHANGED <<touched, latest>>, writing' <=> writing,
             \A o \in Observers :
                /\ obs'[o].alive = obs[o].alive
                /\ obs[o].alive =>
                      /\ obs'[o].callback = obs[o].callback
                      /\ obs'[o].initialDelivered = obs[o].initialDelivered
                      /\ obs[o].initialDelivered =>
                            /\ heard'[o].seen = heard[o].seen
                            /\ heard'[o].since = heard[o].since
      PROVE  UNCHANGED Observation!vars
  BY <1>1, <1>s, PendingFrame
<1>2. CASE UNCHANGED vars \/ BeginWait \/ CommitNotifies \/ Announce \/ Listen \/ Signal
  <2>1. UNCHANGED <<touched, latest, obs, heard>> /\ (writing' <=> writing)
    BY <1>2 DEF vars, file, BeginWait, CommitNotifies, Announce, Listen, Signal
  <2> QED
    BY <1>1, <2>1
<1>3. CASE BeginTell \/ NotifyAvailable \/ NotifyAdvance
  <2>1. \/ obs' = obs
        \/ \E S : obs' = [o \in Observers |->
                             IF o \in S THEN Packaged(obs[o]) ELSE obs[o]]
    BY <1>3 DEF BeginTell, NotifyAvailable, NotifyAdvance, Package
  <2>2. \A o \in Observers : Alike(obs[o], obs'[o])
    BY <1>0, <2>1, PackageShape DEF Alike
  <2>3. UNCHANGED <<touched, latest, heard>> /\ (writing' <=> writing)
    BY <1>3 DEF BeginTell, NotifyAvailable, NotifyAdvance, Turn, file
  <2> QED
    BY <1>1, <2>2, <2>3 DEF Alike
<1>4. CASE PassEmpty \/ PassFails \/ PassStarts
  <2>1. UNCHANGED <<touched, latest, heard, main>> /\ (obs' = Cleaned \/ obs' = Joined)
    BY <1>4 DEF PassEmpty, PassFails, PassStarts, file
  <2>2. ASSUME NEW o \in Observers
        PROVE  /\ obs'[o].alive = obs[o].alive
               /\ obs[o].alive =>
                     /\ obs'[o].callback = obs[o].callback
                     /\ obs'[o].initialDelivered = obs[o].initialDelivered
    <3>1. obs[o] \in Notifier /\ obs'[o] \in Notifier
      BY <1>0, <2>1, CleanedShape, JoinedShape DEF Typed
    <3>2. obs[o].alive \in BOOLEAN /\ obs'[o].alive \in BOOLEAN
      BY <3>1 DEF Notifier
    <3>3. /\ obs'[o].alive <=> obs[o].alive
          /\ obs[o].alive =>
                /\ obs'[o].callback = obs[o].callback
                /\ obs'[o].initialDelivered = obs[o].initialDelivered
      BY <1>0, <2>1, CleanedShape, JoinedShape, NoNotifierShape
    <3>4. obs'[o].alive = obs[o].alive
      BY <3>2, <3>3, Zenon
    <3> QED
      BY <3>3, <3>4
  <2> QED
    BY <1>1, <2>1, <2>2
<1>5. CASE RunSkipped \/ HandOverSkipped \/ RunNotifiers
  <2>1. UNCHANGED <<touched, latest, main>> /\ InPass
    BY <1>5 DEF RunSkipped, HandOverSkipped, RunNotifiers, file, InPass, Pass
  <2>2. ASSUME NEW o \in Observers
        PROVE  /\ obs'[o].alive = obs[o].alive /\ obs'[o].callback = obs[o].callback
               /\ obs'[o].initialDelivered = obs[o].initialDelivered
    BY <1>0, <1>5, RunSkippedShape, HandOverSkippedShape, RunNotifiersShape
       DEF IsRun, IsHandedOver
  <2>3. ASSUME NEW o \in Observers, obs[o].alive, obs[o].initialDelivered
        PROVE  heard'[o].seen = heard[o].seen /\ heard'[o].since = heard[o].since
    <3>1. CASE RunNotifiers
      <4>1. o \notin worker.fresh
        BY <1>0, <2>1, <2>3 DEF Placed
      <4> QED
        BY <1>0, <3>1, <4>1, RunNotifiersShape
    <3>2. CASE RunSkipped \/ HandOverSkipped
      BY <3>2 DEF RunSkipped, HandOverSkipped
    <3> QED
      BY <1>5, <3>1, <3>2
  <2> QED
    BY <1>1, <2>1, <2>2, <2>3
<1>6. CASE HandOver
  <2>1. UNCHANGED <<touched, latest, heard, main>>
    BY <1>6 DEF HandOver, file
  <2>2. ASSUME NEW o \in Observers
        PROVE  /\ obs'[o].alive = obs[o].alive
               /\ obs[o].alive =>
                     /\ obs'[o].callback = obs[o].callback
                     /\ obs'[o].initialDelivered = obs[o].initialDelivered
    <3>1. CASE obs[o].alive
      BY <1>0, <1>6, <3>1, HandOverShape DEF IsHandedOver
    <3>2. CASE ~obs[o].alive
      <4>1. obs[o].alive = FALSE /\ obs'[o].alive = FALSE
        BY <1>0, <1>6, <3>2, HandOverShape DEF Typed, Notifier, NoNotifier
      <4> QED
        BY <3>2, <4>1
    <3> QED
      BY <3>1, <3>2
  <2> QED
    BY <1>1, <2>1, <2>2
\* The steps that somebody notices.
<1>7. ASSUME NEW o \in Observers, Observe(o) PROVE Observation!Observe(o)
  <2>1. /\ obs[o].place = "none" /\ ~obs[o].alive /\ ~writing /\ ~writing'
        /\ UNCHANGED <<touched, latest>>
    BY <1>0, <1>7 DEF Observe, Placed, file
  <2>2. /\ \A p \in Observers \ {o} : obs'[p] = obs[p] /\ heard'[p] = heard[p]
        /\ obs'[o].alive /\ obs'[o].callback /\ ~obs'[o].initialDelivered
    BY <1>0, <1>7, ObserveShape
  <2>3. o \notin Observing /\ Observing' = Observing \cup {o}
    BY <2>1, <2>2 DEF Observing, Mine
  <2>4. Unheard(o)' /\ \A p \in Observing : Unheard(p)' <=> Unheard(p)
    BY <2>1, <2>2, <2>3 DEF Unheard, Between, Observing, Mine
  <2>5. Pending' = Pending \cup {o}
    BY <2>3, <2>4 DEF Pending
  <2> QED
    BY <2>1, <2>3, <2>5 DEF Observation!Observe, Pending
<1>8. ASSUME NEW o \in Observers, Invalidate(o) PROVE Observation!Leave({o})
  <2>1. UNCHANGED <<touched, latest, heard, main>>
    BY <1>8 DEF Invalidate, file
  <2>2. (\A p \in Observers \ {o} : obs'[p] = obs[p]) /\ ~obs'[o].alive
    BY <1>0, <1>8, InvalidateShape
  <2>3. Observing' = Observing \ {o}
    BY <2>2 DEF Observing, Mine
  <2>4. \A p \in Observing \ {o} : Unheard(p)' <=> Unheard(p)
    BY <2>1, <2>2 DEF Unheard, Between, Observing, Mine
  <2>5. Pending' = Pending \ {o}
    BY <2>3, <2>4 DEF Pending
  <2> QED
    BY <2>1, <2>3, <2>5 DEF Observation!Leave, Pending
<1>9. CASE BeginAtOnce \/ NotifyError
  <2>1. DeliverErrors /\ ~writing /\ ~writing'
    BY <1>9 DEF BeginAtOnce, NotifyError, Turn
  <2>2. \A p \in Observers : ~obs'[p].callback
    BY <1>0, <2>1, ErrorsShape DEF IsErrored
  <2>3. Observing' = {} /\ Pending' = {}
    BY <2>2 DEF Observing, Mine, Pending
  <2>4. Observing \in SUBSET Observers /\ Pending \subseteq Observing
    BY DEF Observing, Mine, Pending
  <2>5. Observation!Leave(Observing)
    BY <2>1, <2>3, <2>4 DEF Observation!Leave, Pending
  <2> QED
    BY <2>4, <2>5 DEF Observation!Next
<1>10. ASSUME NEW o \in Observers, Deliver(o)
       PROVE  Observation!Tell(o) \/ UNCHANGED Observation!vars
  <2>1. ~writing /\ ~writing'
    BY <1>10 DEF Deliver
  <2>2. /\ Observing' = Observing
        /\ Pending' = Pending \/ (o \in Pending /\ Pending' = Pending \ {o})
    BY <1>10, DeliverPending
  <2>3. CASE Pending' = Pending
    BY <1>s, <2>1, <2>2, <2>3
  <2>4. CASE o \in Pending /\ Pending' = Pending \ {o}
    BY <2>1, <2>2, <2>4 DEF Observation!Tell, Pending
  <2> QED
    BY <2>2, <2>3, <2>4
<1>11. CASE Delivered
  <2>1. UNCHANGED <<touched, latest, obs, heard>> /\ queue = {}
    BY <1>11 DEF Delivered, file
  <2>2. Observing' = Observing /\ Pending' = Pending
    BY <2>1, PendingFrame
  <2>3. CASE main = "telling"
    <3>1. ~writing /\ writing' /\ Pending = {}
      BY <1>11, <2>1, <2>3, NobodyPending DEF Delivered
    <3>2. Observation!Begin
      BY <2>2, <3>1 DEF Observation!Begin, Pending
    <3> QED
      BY <3>2 DEF Observation!Next
  <2>4. CASE main # "telling"
    <3>1. ~writing /\ ~writing'
      BY <1>11, <2>4 DEF Delivered
    <3> QED
      BY <1>s, <2>2, <3>1
  <2> QED
    BY <2>3, <2>4
<1>12. CASE Cancel
  <2>1. UNCHANGED <<touched, latest, obs, heard>> /\ writing /\ ~writing'
    BY <1>12 DEF Cancel, file
  <2>2. Observing' = Observing /\ Pending' = Pending
    BY <2>1, PendingFrame
  <2>3. Observation!End
    BY <2>1, <2>2 DEF Observation!End, Pending
  <2> QED
    BY <2>3 DEF Observation!Next
<1>13. ASSUME NEW c \in BOOLEAN, Commit(c) PROVE Observation!End
  <2>1. writing /\ ~writing'
    BY <1>13 DEF Commit
  <2>2. /\ latest' = latest + 1 /\ UNCHANGED <<obs, heard>>
        /\ touched' = touched \cup (IF c THEN {latest'} ELSE {})
    BY <1>13 DEF Commit
  <2>3. Observing' = Observing /\ Pending' \in {Observing, Pending}
    BY <2>2, CommitPending
  <2> QED
    BY <2>1, <2>3 DEF Observation!End, Pending
<1>14. ASSUME NEW c \in BOOLEAN, CommitElsewhere(c)
       PROVE  Observation!ChangedElsewhere \/ UNCHANGED Observation!vars
  <2>1. ~writing /\ ~writing'
    BY <1>14 DEF CommitElsewhere, Writer
  <2>2. /\ latest' = latest + 1 /\ UNCHANGED <<obs, heard>>
        /\ touched' = touched \cup (IF c THEN {latest'} ELSE {})
    BY <1>14 DEF CommitElsewhere
  <2>3. Observing' = Observing /\ (c => Pending' = Observing) /\ (~c => Pending' = Pending)
    BY <2>2, CommitPending
  <2>4. CASE c
    BY <2>1, <2>3, <2>4 DEF Observation!ChangedElsewhere, Pending
  <2>5. CASE ~c
    BY <1>s, <2>1, <2>3, <2>5
  <2> QED
    BY <2>4, <2>5
<1>15. ASSUME NEW o \in Observers PROVE {o} \in SUBSET Observers
  OBVIOUS
<1> HIDE DEF writing, Stutter
<1> QED
  BY <1>2, <1>3, <1>4, <1>5, <1>6, <1>7, <1>8, <1>9, <1>10, <1>11, <1>12, <1>13,
     <1>14, <1>15 DEF Next, Proceed, RunLoop, Worker, Observation!Next

\* Realm keeps what the screens rely on, for any number of observers, versions
\* and writers and with a worker that may fail: nobody is forgotten by a commit,
\* and a write block runs only when everybody has heard of what came before.
THEOREM RealmKeepsObservation == Spec => ImplementsObservation
<1>1. Init => Observation!Init
  <2> SUFFICES ASSUME Init PROVE Observation!Init
    OBVIOUS
  <2>1. Observing = {} /\ Pending = {} /\ main # "writing"
    BY NoNotifierShape DEF Init, Observing, Mine, Pending
  <2> QED
    BY <2>1 DEF Observation!Init, Pending
<1>2. RealmInv /\ [Next]_vars => [Observation!Next]_(Observation!vars)
  BY ObservationStep
<1> QED
  BY <1>1, <1>2, RealmAlways, PTL DEF Spec, ImplementsObservation, Observation!Safety

-----------------------------------------------------------------------------
(* No wake-up is lost.                                                     *)

\* The pass under way brings o to the newest version.
Coming(o) == InPass /\ worker.target = latest /\ o \in worker.old \cup worker.fresh

\* Everybody is at the newest version or about to be, or the worker is woken,
\* unless whoever committed has yet to wake it.
WokenInv ==
    ~asyncError /\ main # "committed" /\ (announced \/ main = "waiting") =>
        \/ woken \/ worker.pc = "woken"
        \/ \A o \in Observing : CaughtUp(o) \/ Coming(o)

\* What was handed over at the newest version is told or being told, or the run
\* loop is signalled or about to be.
SignalledInv ==
    \/ signalled \/ InPass \/ worker.pc = "signalling"
    \/ \A o \in Ran : obs[o].version = latest =>
           /\ obs[o].accumulated = {}
           /\ o \in queue \/ obs[o].initialDelivered

\* Neither thread has anything to do, and nothing has failed.
AllAsleep ==
    /\ main = "idle" /\ worker.pc = "asleep"
    /\ ~woken /\ ~signalled /\ announced /\ ~asyncError

\* A failure is never forgotten.
LEMMA ErrorStays == Typed /\ [Next]_vars => (asyncError => asyncError')
<1> SUFFICES ASSUME Typed, [Next]_vars PROVE asyncError => asyncError'
  OBVIOUS
<1>1. asyncError' = asyncError \/ asyncError'
  BY DEF Next, Observe, Invalidate, BeginAtOnce, BeginWait, Commit, CommitElsewhere,
     Cancel, Announce, Proceed, Deliver, Delivered, BeginTell, CommitNotifies, RunLoop,
     NotifyError, NotifyAvailable, NotifyAdvance, Turn, Worker, Listen, PassEmpty,
     PassFails, PassStarts, RunSkipped, HandOverSkipped, RunNotifiers, HandOver,
     Signal, vars, coordinator
<1> QED
  BY <1>1, Zenon

\* Whoever is at the newest version stays there with the pass under way.
LEMMA CaughtUpInPass ==
    ASSUME RealmInv, NEW o \in Observing, CaughtUp(o)
    PROVE  obs[o].version = latest /\ (InPass => Coming(o))
<1>1. o \in Ran /\ o \in Observers
  BY HeardOf DEF CaughtUp
<1>2. Versioned(o) /\ PassOrdered /\ (InPass => o \in worker.old)
  BY <1>1, RanKnown DEF RealmInv, VersionInv
<1>3. /\ obs[o].version \in Nat /\ obs[o].rows \in Nat /\ latest \in Nat
      /\ worker.target \in Nat
  BY <1>1, RanTyped DEF RealmInv, Typed
<1> QED
  BY <1>2, <1>3 DEF CaughtUp, Versioned, PassOrdered, Coming

LEMMA WokenStep == RealmInv /\ WokenInv /\ [Next]_vars => WokenInv'
<1> SUFFICES ASSUME RealmInv, WokenInv, [Next]_vars,
                    ~asyncError', main' # "committed", announced' \/ main' = "waiting",
                    ~woken', worker'.pc # "woken",
                    NEW o \in Observing'
             PROVE  CaughtUp(o)' \/ Coming(o)'
  BY DEF WokenInv
<1>0. /\ Typed /\ PlaceInv /\ ~asyncError /\ o \in Observers /\ obs'[o].alive
      /\ obs'[o].callback /\ \A p \in Observers : Placed(p)
  BY ErrorStays DEF RealmInv, PlaceInv, Observing, Mine
\* A step that changes nothing for o, the worker asleep or at its pass.
<1>1. ASSUME main # "committed", main' = "waiting" => main = "waiting",
             UNCHANGED <<announced, woken>>, worker.pc # "woken", o \in Observing
      PROVE  CaughtUp(o) \/ Coming(o)
  <2>1. announced \/ main = "waiting"
    <3>1. CASE main' = "waiting"
      BY <1>1, <3>1
    <3>2. CASE announced'
      <4>1. announced' = announced
        BY <1>1
      <4> QED
        BY <3>2, <4>1, Zenon
    <3> QED
      BY <3>1, <3>2
  <2>2. ~woken
    <3>1. woken' = woken
      BY <1>1
    <3> QED
      BY <3>1, Zenon
  <2> QED
    BY <1>0, <1>1, <2>1, <2>2 DEF WokenInv
<1>2. ASSUME main # "committed", main' = "waiting" => main = "waiting",
             UNCHANGED <<announced, woken, worker, latest>>, obs[o].alive,
             obs'[o].callback = obs[o].callback,
             obs'[o].hasRun = obs[o].hasRun, obs'[o].version = obs[o].version
      PROVE  CaughtUp(o)' \/ Coming(o)'
  <2>1. o \in Observing
    BY <1>0, <1>2 DEF Observing, Mine
  <2>2. CaughtUp(o) \/ Coming(o)
    BY <1>1, <1>2, <2>1
  <2> QED
    BY <1>2, <2>2 DEF CaughtUp, Coming, InPass
<1>3. CASE UNCHANGED vars \/ Delivered \/ Cancel
  BY <1>0, <1>2, <1>3 DEF vars, file, Delivered, Cancel
<1>4. CASE \/ CommitNotifies \/ Announce \/ Listen \/ PassFails \/ NotifyError
           \/ \E p \in Observers : Observe(p)
           \/ \E c \in BOOLEAN : Commit(c) \/ CommitElsewhere(c)
  BY <1>0, <1>4, WorkerPc
     DEF CommitNotifies, NotifyOthers, Announce, Listen, PassFails, NotifyError, Observe,
         Commit, CommitElsewhere, Writer
<1>5. CASE BeginTell \/ NotifyAvailable \/ NotifyAdvance
  <2>1. \/ obs' = obs
        \/ \E S : obs' = [p \in Observers |->
                             IF p \in S THEN Packaged(obs[p]) ELSE obs[p]]
    BY <1>5 DEF BeginTell, NotifyAvailable, NotifyAdvance, Package
  <2>2. ASSUME NEW p \in Observers
        PROVE  Alike(obs[p], obs'[p]) /\ obs'[p].version = obs[p].version
    BY <1>0, <2>1, PackageShape DEF Alike
  <2>3. /\ main # "committed" /\ (main' = "waiting" => main = "waiting")
        /\ UNCHANGED <<announced, woken, worker, latest>>
    BY <1>5 DEF BeginTell, NotifyAvailable, NotifyAdvance, Turn, file
  <2> QED
    BY <1>0, <1>2, <2>2, <2>3 DEF Alike
<1>6. ASSUME NEW p \in Observers, Invalidate(p) \/ Deliver(p)
      PROVE  CaughtUp(o)' \/ Coming(o)'
  <2>1. /\ main # "committed" /\ (main' = "waiting" => main = "waiting")
        /\ UNCHANGED <<announced, woken, worker, latest>>
    BY <1>6 DEF Invalidate, Deliver, file
  <2>2. /\ obs[o].alive /\ obs'[o].callback = obs[o].callback
        /\ obs'[o].hasRun = obs[o].hasRun /\ obs'[o].version = obs[o].version
    BY <1>0, <1>6, InvalidateShape, DeliverShape
  <2> QED
    BY <1>2, <2>1, <2>2
<1>7. CASE BeginAtOnce
  BY <1>0, <1>7, ErrorsShape DEF BeginAtOnce, IsErrored
<1>8. CASE BeginWait
  <2>1. UNCHANGED <<obs, latest>> /\ woken' = (woken \/ ~Ready)
    BY <1>8 DEF BeginWait, file
  <2>2. Ready
    BY <2>1, Zenon
  <2>3. CaughtUp(o)
    BY <1>0, <2>1, <2>2 DEF Ready, Mine
  <2> QED
    BY <2>1, <2>3 DEF CaughtUp
\* The worker.
<1>9. CASE PassEmpty
  <2>1. obs' = Cleaned /\ ~obs[o].alive
    BY <1>0, <1>9 DEF PassEmpty, Mine
  <2> QED
    BY <1>0, <2>1, CleanedShape, NoNotifierShape
<1>10. CASE PassStarts
  <2>1. /\ InPass' /\ worker'.target = latest /\ latest' = latest /\ obs' = Joined
        /\ worker'.old = Live("listed") /\ worker'.fresh = Live("new")
    BY <1>10 DEF PassStarts, InPass, Pass, file
  <2>2. obs[o].alive
    BY <1>0, <2>1, JoinedShape, NoNotifierShape
  <2>3. obs[o].place = "new" \/ obs[o].place = "listed"
    BY <1>0, <2>2 DEF Placed, Typed, Notifier
  <2> QED
    BY <1>0, <2>1, <2>2, <2>3 DEF Coming, Live, At, Mine
<1>11. CASE RunSkipped \/ HandOverSkipped \/ RunNotifiers \/ HandOver
  <2>1. /\ UNCHANGED <<announced, woken, main, latest>> /\ InPass
        /\ worker'.target = worker.target /\ worker'.old = worker.old
        /\ worker'.fresh = worker.fresh
        /\ InPass' \/ HandOver
    BY <1>0, <1>11, WorkerPc
       DEF RunSkipped, HandOverSkipped, RunNotifiers, HandOver, file, InPass, Pass
  <2>2. obs[o].alive /\ obs'[o].callback = obs[o].callback
    BY <1>0, <1>11, RunSkippedShape, HandOverSkippedShape, RunNotifiersShape,
       HandOverShape, NoNotifierShape DEF IsRun, IsHandedOver
  <2>3. o \in Observing /\ worker.pc # "woken"
    BY <1>0, <2>1, <2>2 DEF Observing, Mine, InPass, Pass
  <2>4. Coming(o)
    BY <1>1, <2>1, <2>3, CaughtUpInPass
  <2>5. CASE InPass'
    BY <2>1, <2>4, <2>5 DEF Coming
  <2>6. CASE HandOver
    <3>1. obs'[o].hasRun /\ obs'[o].version = latest
      BY <1>0, <2>2, <2>4, <2>6, HandOverShape DEF Coming, IsHandedOver
    <3> QED
      BY <2>1, <3>1 DEF CaughtUp, RealmInv, Typed
  <2> QED
    BY <2>1, <2>5, <2>6
<1>12. CASE Signal
  <2>1. UNCHANGED <<announced, woken, main, latest, obs>> /\ worker.pc = "signalling"
    BY <1>12 DEF Signal, file
  <2>2. o \in Observing
    BY <1>0, <2>1 DEF Observing, Mine
  <2>3. CaughtUp(o)
    BY <1>1, <2>1, <2>2 DEF Coming, InPass, Pass
  <2> QED
    BY <2>1, <2>3 DEF CaughtUp
<1> QED
  BY <1>3, <1>4, <1>5, <1>6, <1>7, <1>8, <1>9, <1>10, <1>11, <1>12
     DEF Next, Proceed, RunLoop, Worker

LEMMA SignalledStep == RealmInv /\ SignalledInv /\ [Next]_vars => SignalledInv'
<1> SUFFICES ASSUME RealmInv, SignalledInv, [Next]_vars,
                    ~signalled', ~InPass', worker'.pc # "signalling",
                    NEW o \in Ran', obs'[o].version = latest'
             PROVE  /\ obs'[o].accumulated = {}
                    /\ o \in queue' \/ obs'[o].initialDelivered
  BY DEF SignalledInv
<1>0. /\ Typed /\ o \in Observers /\ obs'[o].alive /\ obs'[o].hasRun
      /\ \A p \in Ran : Versioned(p)
  BY DEF RealmInv, VersionInv, Ran, Mine
\* A step that tells o nothing new.
<1>1. ASSUME UNCHANGED <<latest, signalled>>, worker' = worker \/ worker.pc = "asleep",
             obs[o].alive, obs[o].hasRun, obs'[o].version = obs[o].version,
             obs'[o].accumulated = obs[o].accumulated,
             o \in queue => o \in queue' \/ obs'[o].initialDelivered,
             obs[o].initialDelivered => obs'[o].initialDelivered
      PROVE  /\ obs'[o].accumulated = {}
             /\ o \in queue' \/ obs'[o].initialDelivered
  <2>1. ~signalled
    <3>1. signalled' = signalled
      BY <1>1
    <3> QED
      BY <3>1, Zenon
  <2>2. ~InPass /\ worker.pc # "signalling"
    BY <1>1 DEF InPass, Pass
  <2>3. o \in Ran
    BY <1>0, <1>1 DEF Ran, Mine
  <2> QED
    BY <1>1, <2>1, <2>2, <2>3 DEF SignalledInv
<1>2. CASE \/ UNCHANGED vars
           \/ BeginWait \/ Cancel \/ CommitNotifies \/ Delivered \/ Announce \/ Listen
  BY <1>0, <1>1, <1>2
     DEF vars, file, BeginWait, Cancel, CommitNotifies, Delivered, Announce, Listen
<1>3. CASE \E c \in BOOLEAN : Commit(c) \/ CommitElsewhere(c)
  <2>1. latest' = latest + 1 /\ obs' = obs
    BY <1>3 DEF Commit, CommitElsewhere
  <2>2. o \in Ran
    BY <1>0, <2>1 DEF Ran, Mine
  <2>3. obs[o].version \in Nat /\ obs[o].rows \in Nat /\ latest \in Nat
    BY <1>0, RanTyped DEF Typed
  <2> QED
    BY <1>0, <2>1, <2>2, <2>3 DEF Versioned
<1>4. ASSUME NEW p \in Observers, Observe(p) \/ Invalidate(p) \/ Deliver(p)
      PROVE  /\ obs'[o].accumulated = {}
             /\ o \in queue' \/ obs'[o].initialDelivered
  <2>1. UNCHANGED <<latest, signalled, worker>> /\ (o \in queue => o \in queue' \/ (o = p /\ Deliver(p)))
    BY <1>4 DEF Observe, Invalidate, Deliver, file
  <2>2. CASE o # p
    BY <1>0, <1>1, <1>4, <2>1, <2>2, ObserveShape, InvalidateShape, DeliverShape
  <2>3. CASE o = p
    <3>1. Deliver(o)
      BY <1>0, <1>4, <2>3, ObserveShape, InvalidateShape
    <3> QED
      BY <1>0, <1>1, <2>1, <3>1, DeliverShape
  <2> QED
    BY <2>2, <2>3
<1>5. CASE BeginAtOnce \/ NotifyError
  <2>1. DeliverErrors /\ (Mine = {} \/ asyncError)
    BY <1>5 DEF BeginAtOnce, NotifyError
  <2>2. obs[o].alive /\ obs[o].hasRun
    BY <1>0, <2>1, ErrorsShape DEF IsErrored
  <2> QED
    BY <1>0, <2>1, <2>2 DEF RealmInv, PlaceInv, Opened, Mine
\* Packaging what there is to tell.
<1>6. ASSUME NEW S, Package(S), o \in S
      PROVE  /\ obs'[o].accumulated = {}
             /\ o \in queue' \/ obs'[o].initialDelivered
  BY <1>0, <1>6, PackageShape DEF Package
<1>7. ASSUME NEW S, obs' = [p \in Observers |-> IF p \in S THEN Packaged(obs[p]) ELSE obs[p]]
      PROVE  o \in Ran /\ obs'[o].version = obs[o].version
  BY <1>0, <1>7, PackageShape
<1>8. CASE BeginTell
  BY <1>6, <1>7, <1>8 DEF BeginTell, Package, Ran
<1>9. CASE NotifyAvailable
  <2>1. Package(Deliverable) /\ at = latest /\ latest' = latest
    BY <1>9 DEF NotifyAvailable, Turn, file
  <2>2. o \in Deliverable
    BY <1>7, <2>1 DEF Package, Deliverable, Ran
  <2> QED
    BY <1>6, <2>1, <2>2
<1>10. CASE NotifyAdvance
  <2>1. /\ at < latest /\ latest' = latest
        /\ \/ Ran = {} /\ obs' = obs
           \/ \E q \in Ran :
                 /\ obs[q].version < at
                 /\ obs' = [p \in Observers |->
                               IF p \in Ran THEN Packaged(obs[p]) ELSE obs[p]]
           \/ Package(Ran)
    BY <1>10 DEF NotifyAdvance, Turn, file, Ran
  <2>2. CASE Ran = {} /\ obs' = obs
    BY <1>0, <2>2 DEF Ran, Mine
  <2>3. ASSUME NEW q \in Ran, obs[q].version < at,
               obs' = [p \in Observers |->
                          IF p \in Ran THEN Packaged(obs[p]) ELSE obs[p]]
        PROVE  FALSE
    <3>1. o \in Ran /\ obs[o].version = latest /\ obs[o].version = obs[q].version
      BY <1>7, <2>1, <2>3 DEF RealmInv, VersionInv
    <3>2. at \in Nat /\ latest \in Nat
      BY DEF RealmInv, Typed
    <3> QED
      BY <2>1, <2>3, <3>1, <3>2
  <2>4. CASE Package(Ran)
    BY <1>6, <1>7, <2>4 DEF Package
  <2> QED
    BY <2>1, <2>2, <2>3, <2>4
\* After these steps of the worker the run loop is signalled or about to be.
<1>11. ~(PassEmpty \/ PassFails \/ PassStarts \/ RunSkipped \/ HandOverSkipped
         \/ RunNotifiers \/ HandOver \/ Signal)
  BY <1>0, WorkerPc
     DEF PassEmpty, PassFails, PassStarts, RunSkipped, HandOverSkipped, RunNotifiers,
         HandOver, Signal, InPass, Pass
<1> QED
  BY <1>2, <1>3, <1>4, <1>5, <1>8, <1>9, <1>10, <1>11
     DEF Next, Proceed, RunLoop, Worker

LEMMA WakingAlways == Spec => [](WokenInv /\ SignalledInv)
<1>1. Init => WokenInv /\ SignalledInv
  BY NoNotifierShape DEF Init, WokenInv, SignalledInv, Observing, Ran, Mine
<1>2. RealmInv /\ (WokenInv /\ SignalledInv) /\ [Next]_vars => (WokenInv /\ SignalledInv)'
  BY WokenStep, SignalledStep
<1> QED
  BY <1>1, <1>2, RealmAlways, PTL DEF Spec

\* When both threads have nothing left to do, every observer has heard of every
\* change: no order of commits, passes and turns of the run loop loses a wake-up
\* or a signal.  It is the safety part of EveryoneHears.
THEOREM AsleepMeansHeard == Spec => [](AllAsleep => Pending = {})
<1>1. RealmInv /\ WokenInv /\ SignalledInv => (AllAsleep => Pending = {})
  <2> SUFFICES ASSUME RealmInv, WokenInv, SignalledInv, AllAsleep, NEW o \in Observing
               PROVE  ~Unheard(o)
    BY DEF Pending
  <2>1. /\ queue = {} /\ ~InPass /\ worker.pc = "asleep" /\ main = "idle"
        /\ ~woken /\ ~signalled /\ announced /\ ~asyncError
    BY DEF AllAsleep, RealmInv, ToldInv, InPass, Pass
  <2>2. CaughtUp(o)
    BY <2>1 DEF WokenInv, Coming
  <2>3. o \in Ran /\ Told(o) /\ obs[o].version = latest
    BY <2>2, HeardOf, CaughtUpInPass DEF CaughtUp
  <2>4. obs[o].accumulated = {} /\ obs[o].initialDelivered /\ obs[o].deliver = {}
    BY <2>1, <2>3 DEF SignalledInv, Told
  <2>5. heard[o].seen = Between(heard[o].since, latest)
    BY <2>3, <2>4 DEF Told
  <2> QED
    BY <2>4, <2>5 DEF Unheard
<1> QED
  BY <1>1, RealmAlways, WakingAlways, PTL

\* A write that waits on the main thread for the worker never waits for one that
\* sleeps, unless the worker failed.
THEOREM WriteWaitsForWorker ==
    Spec => [](main = "waiting" /\ ~asyncError => Ready \/ woken \/ worker.pc # "asleep")
<1>1. WokenInv =>
         (main = "waiting" /\ ~asyncError => Ready \/ woken \/ worker.pc # "asleep")
  BY DEF WokenInv, Coming, InPass, Pass, Ready, Observing
<1> QED
  BY <1>1, WakingAlways, PTL
=============================================================================
