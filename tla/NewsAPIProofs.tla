----------------------------- MODULE NewsAPIProofs -----------------------------
(***************************************************************************)
(* Theorems about NewsAPI, for every set of calls of every kind.  A call   *)
(* is in one place at a time: a task, one block of the main queue, or done *)
(* with.  The answer of a task may hold anything Answers allows.           *)
(***************************************************************************)
EXTENDS NewsAPI, TLAPS

Block == [call : Callers, answer : Answers]

TypeOK ==
    /\ made \subseteq Callers
    /\ tasks \subseteq made
    /\ queue \in Seq(Block)
    /\ results \in [Callers -> Seq({"success", "failure"})]
    /\ silent \subseteq made

\* A call has a single block on the main queue, and then its task has ended.
QueuedOnce ==
    /\ \A j, k \in DOMAIN queue : queue[j].call = queue[k].call => j = k
    /\ \A k \in DOMAIN queue : queue[k].call \in made \ tasks

\* The completion runs last: a call under way has neither run it nor lost it,
\* and a call not made has not run it.
Pending ==
    /\ \A c \in tasks : results[c] = <<>> /\ c \notin silent
    /\ \A k \in DOMAIN queue :
          results[queue[k].call] = <<>> /\ queue[k].call \notin silent
    /\ \A c \in Callers \ made : results[c] = <<>>
    /\ \A c \in silent : results[c] = <<>>

AtMostOne == \A c \in Callers : Len(results[c]) <= 1

\* No call is mislaid: one that was made is a task, a block, completed or lost.
Accounted ==
    \A c \in made : \/ c \in tasks \cup silent
                    \/ \E k \in DOMAIN queue : queue[k].call = c
                    \/ results[c] # <<>>

CallsInv == TypeOK /\ QueuedOnce /\ Pending /\ AtMostOne /\ Accounted

-----------------------------------------------------------------------------
(* What the operators of the model return.                                 *)

\* Whatever the handler is given, a block runs the completion once or, given
\* neither data nor error, not at all.
LEMMA CompletionsShape ==
    ASSUME NEW c, NEW a \in Answers
    PROVE  IF a.data = "none" /\ ~a.error
           THEN Completions(c, a) = <<>>
           ELSE \/ Completions(c, a) = <<"success">>
                \/ Completions(c, a) = <<"failure">>
    BY DEF Completions, Decoded, Answers

\* The queue without the block that runs.
LEMMA TailShape ==
    ASSUME TypeOK, queue # <<>>
    PROVE  /\ Head(queue) = queue[1] /\ Head(queue) \in Block
           /\ 1 \in DOMAIN queue
           /\ Tail(queue) \in Seq(Block)
           /\ Len(Tail(queue)) = Len(queue) - 1
           /\ \A k \in DOMAIN Tail(queue) :
                 Tail(queue)[k] = queue[k + 1] /\ k + 1 \in DOMAIN queue
           /\ \A k \in DOMAIN queue \ {1} :
                 queue[k] = Tail(queue)[k - 1] /\ k - 1 \in DOMAIN Tail(queue)
<1>1. queue \in Seq(Block) /\ Len(queue) \in Nat \ {0}
      /\ DOMAIN queue = 1..Len(queue)
    BY DEF TypeOK
<1> QED BY <1>1

-----------------------------------------------------------------------------
(* The invariant is inductive.                                             *)

LEMMA InitCalls == Init => CallsInv
<1> SUFFICES ASSUME Init PROVE CallsInv
    OBVIOUS
<1>1. DOMAIN queue = {} /\ queue \in Seq(Block)
    BY DEF Init
<1>2. \A c \in Callers : results[c] = <<>> /\ Len(results[c]) = 0
    BY DEF Init
<1> QED BY <1>1, <1>2 DEF Init, CallsInv, TypeOK, QueuedOnce, Pending, AtMostOne,
                          Accounted

LEMMA RefusedCalls ==
    ASSUME CallsInv, NEW c \in Callers, RefusedWithoutTask(c)
    PROVE  CallsInv'
<1>1. results[c] = <<>> /\ c \notin made /\ c \notin tasks /\ c \notin silent
      /\ \A k \in DOMAIN queue : queue[k].call # c
    BY DEF CallsInv, TypeOK, QueuedOnce, Pending, RefusedWithoutTask
<1>2. Append(results[c], "failure") = <<"failure">>
    BY <1>1
<1>3. /\ results' = [results EXCEPT ![c] = <<"failure">>]
      /\ made' = made \cup {c}
      /\ UNCHANGED <<tasks, queue, silent>>
    BY <1>2 DEF RefusedWithoutTask
<1>4. <<"failure">> \in Seq({"success", "failure"}) /\ Len(<<"failure">>) = 1
      /\ <<"failure">> # <<>>
    OBVIOUS
<1>5. TypeOK'
    BY <1>3, <1>4 DEF CallsInv, TypeOK
<1>6. QueuedOnce'
    BY <1>3 DEF CallsInv, QueuedOnce
<1>7. Pending'
    BY <1>1, <1>3 DEF CallsInv, TypeOK, QueuedOnce, Pending
<1>8. AtMostOne' /\ Accounted'
    BY <1>3, <1>4 DEF CallsInv, TypeOK, AtMostOne, Accounted
<1> QED BY <1>5, <1>6, <1>7, <1>8 DEF CallsInv

LEMMA ResumeCalls ==
    ASSUME CallsInv, NEW c \in Callers, Resume(c)
    PROVE  CallsInv'
<1>1. results[c] = <<>> /\ c \notin made /\ c \notin tasks /\ c \notin silent
      /\ \A k \in DOMAIN queue : queue[k].call # c
    BY DEF CallsInv, TypeOK, QueuedOnce, Pending, Resume
<1> QED BY <1>1 DEF Resume, CallsInv, TypeOK, QueuedOnce, Pending, AtMostOne,
                    Accounted

LEMMA SessionEndsCalls ==
    ASSUME CallsInv, NEW c \in Callers, NEW a \in Answers, SessionEnds(c, a)
    PROVE  CallsInv'
<1> DEFINE b == [call |-> c, answer |-> a]
<1>1. /\ c \in tasks /\ tasks' = tasks \ {c}
      /\ queue' = Append(queue, b)
      /\ UNCHANGED <<made, results, silent>>
    BY DEF SessionEnds
<1>2. queue \in Seq(Block) /\ Len(queue) \in Nat
    BY DEF CallsInv, TypeOK
<1>3. b \in Block /\ b.call = c
    BY DEF Block
<1> HIDE DEF b
<1>4. /\ queue' \in Seq(Block)
      /\ DOMAIN queue' = 1..(Len(queue) + 1)
      /\ DOMAIN queue = 1..Len(queue)
      /\ \A k \in 1..Len(queue) : queue'[k] = queue[k]
      /\ queue'[Len(queue) + 1] = b
    BY <1>1, <1>2, <1>3
<1>5. results[c] = <<>> /\ c \notin silent /\ c \in made
      /\ \A k \in 1..Len(queue) : queue[k].call # c
    <2>1. results[c] = <<>> /\ c \notin silent
        BY <1>1 DEF CallsInv, Pending
    <2>2. c \in made
        BY <1>1 DEF CallsInv, TypeOK
    <2>3. \A k \in DOMAIN queue : queue[k].call # c
        BY <1>1 DEF CallsInv, QueuedOnce
    <2> QED BY <1>4, <2>1, <2>2, <2>3
<1>6. \A k \in DOMAIN queue' :
         \/ k \in DOMAIN queue /\ queue'[k] = queue[k]
         \/ k = Len(queue) + 1 /\ queue'[k] = b
    BY <1>2, <1>4
<1>7. TypeOK'
    BY <1>1, <1>4 DEF CallsInv, TypeOK
<1>8. QueuedOnce'
    BY <1>1, <1>2, <1>3, <1>4, <1>5, <1>6 DEF CallsInv, QueuedOnce
<1>9. Pending'
    BY <1>1, <1>3, <1>5, <1>6 DEF CallsInv, Pending
<1>10. AtMostOne'
    BY <1>1 DEF CallsInv, AtMostOne
<1>11. Accounted'
    BY <1>1, <1>2, <1>3, <1>4 DEF CallsInv, Accounted
<1> QED BY <1>7, <1>8, <1>9, <1>10, <1>11 DEF CallsInv

\* What a turn of the main queue does to the call of its block.
LEMMA MainTurnShape ==
    ASSUME CallsInv, MainTurn
    PROVE  \E c \in made \ (tasks \cup silent) :
              /\ queue # <<>> /\ queue[1].call = c
              /\ results[c] = <<>>
              /\ queue' = Tail(queue) /\ made' = made /\ tasks' = tasks
              /\ \/ /\ silent' = silent \cup {c}
                    /\ results' = results
                 \/ /\ silent' = silent
                    /\ \E x \in {"success", "failure"} :
                          results' = [results EXCEPT ![c] = <<x>>]
<1> DEFINE c == Head(queue).call
           a == Head(queue).answer
<1>1. /\ queue # <<>> /\ queue' = Tail(queue) /\ made' = made /\ tasks' = tasks
      /\ results' = [results EXCEPT ![c] = @ \o Completions(c, a)]
      /\ silent' = silent \cup (IF a.data = "none" /\ ~a.error THEN {c} ELSE {})
    BY DEF MainTurn
<1>2. c = queue[1].call /\ 1 \in DOMAIN queue /\ a \in Answers /\ c \in Callers
    BY <1>1, TailShape DEF CallsInv, Block
<1> HIDE DEF c, a
<1>3. c \in made \ (tasks \cup silent) /\ results[c] = <<>>
      /\ results \in [Callers -> Seq({"success", "failure"})]
    BY <1>2 DEF CallsInv, QueuedOnce, Pending, TypeOK
<1>4. results' = [results EXCEPT ![c] = Completions(c, a)]
    <2>1. results[c] \o Completions(c, a) = Completions(c, a)
        BY <1>2, <1>3, CompletionsShape
    <2> QED BY <1>1, <2>1
<1>5. CASE a.data = "none" /\ ~a.error
    <2>1. Completions(c, a) = <<>> /\ silent' = silent \cup {c}
        BY <1>1, <1>2, <1>5, CompletionsShape
    <2>2. results' = results
        BY <1>2, <1>3, <1>4, <2>1
    <2> QED BY <1>1, <1>2, <1>3, <2>1, <2>2
<1>6. CASE ~(a.data = "none" /\ ~a.error)
    <2>1. silent' = silent
        BY <1>1, <1>6
    <2>2. PICK x \in {"success", "failure"} : Completions(c, a) = <<x>>
        BY <1>2, <1>6, CompletionsShape
    <2> QED BY <1>1, <1>2, <1>3, <1>4, <2>1, <2>2
<1> QED BY <1>5, <1>6

LEMMA MainTurnCalls ==
    ASSUME CallsInv, MainTurn
    PROVE  CallsInv'
<1>1. PICK c \in made \ (tasks \cup silent) :
              /\ queue # <<>> /\ queue[1].call = c
              /\ results[c] = <<>>
              /\ queue' = Tail(queue) /\ made' = made /\ tasks' = tasks
              /\ \/ /\ silent' = silent \cup {c}
                    /\ results' = results
                 \/ /\ silent' = silent
                    /\ \E x \in {"success", "failure"} :
                          results' = [results EXCEPT ![c] = <<x>>]
    BY MainTurnShape
<1>2. /\ 1 \in DOMAIN queue /\ queue' \in Seq(Block) /\ queue \in Seq(Block)
      /\ \A k \in DOMAIN queue' :
            queue'[k] = queue[k + 1] /\ k + 1 \in DOMAIN queue
      /\ \A k \in DOMAIN queue \ {1} :
            queue[k] = queue'[k - 1] /\ k - 1 \in DOMAIN queue'
    BY <1>1, TailShape DEF CallsInv, TypeOK
<1>3. \A j \in DOMAIN queue' : queue'[j].call # c /\ j \in Nat \ {0}
    <2>1. \A j \in DOMAIN queue' : j \in Nat \ {0} /\ j + 1 # 1
        BY <1>2
    <2> QED BY <1>1, <1>2, <2>1 DEF CallsInv, QueuedOnce
<1>4. c \in Callers /\ results \in [Callers -> Seq({"success", "failure"})]
    BY <1>1 DEF CallsInv, TypeOK
<1>5. \A d \in Callers \ {c} : results'[d] = results[d]
    BY <1>1, <1>4
<1>6. /\ results' \in [Callers -> Seq({"success", "failure"})]
      /\ Len(results'[c]) <= 1
      /\ results'[c] = <<>> <=> c \in silent'
    <2>1. \A x \in {"success", "failure"} :
             <<x>> \in Seq({"success", "failure"}) /\ Len(<<x>>) = 1 /\ <<x>> # <<>>
        OBVIOUS
    <2>2. CASE silent' = silent \cup {c} /\ results' = results
        <3>1. results'[c] = <<>> /\ Len(results'[c]) = 0
            BY <1>1, <2>2
        <3> QED BY <1>4, <2>2, <3>1
    <2>3. ASSUME NEW x \in {"success", "failure"}, silent' = silent,
                 results' = [results EXCEPT ![c] = <<x>>]
          PROVE  /\ results' \in [Callers -> Seq({"success", "failure"})]
                 /\ Len(results'[c]) <= 1
                 /\ results'[c] = <<>> <=> c \in silent'
        <3>1. results'[c] = <<x>>
            BY <1>4, <2>3
        <3>2. results' \in [Callers -> Seq({"success", "failure"})]
            BY <1>4, <2>1, <2>3
        <3> QED BY <1>1, <2>1, <2>3, <3>1, <3>2
    <2> QED BY <1>1, <2>2, <2>3
<1>7. \A d \in Callers \ {c} : d \in silent' <=> d \in silent
    BY <1>1
<1>8. TypeOK'
    BY <1>1, <1>2, <1>6 DEF CallsInv, TypeOK
<1>9. QueuedOnce'
    <2>1. ASSUME NEW j \in DOMAIN queue', NEW k \in DOMAIN queue',
                 queue'[j].call = queue'[k].call
          PROVE  j = k
        <3>1. j + 1 = k + 1
            BY <1>2, <2>1 DEF CallsInv, QueuedOnce
        <3> QED BY <1>3, <3>1
    <2>2. \A k \in DOMAIN queue' : queue'[k].call \in made \ tasks
        BY <1>2 DEF CallsInv, QueuedOnce
    <2> QED BY <1>1, <2>1, <2>2 DEF QueuedOnce
<1>10. Pending'
    <2>1. \A d \in tasks' : results'[d] = <<>> /\ d \notin silent'
        BY <1>1, <1>5, <1>7 DEF CallsInv, Pending, TypeOK
    <2>2. \A k \in DOMAIN queue' :
             results'[queue'[k].call] = <<>> /\ queue'[k].call \notin silent'
        <3> SUFFICES ASSUME NEW k \in DOMAIN queue'
                     PROVE  /\ results'[queue'[k].call] = <<>>
                            /\ queue'[k].call \notin silent'
            OBVIOUS
        <3> DEFINE d == queue'[k].call
        <3>1. queue'[k] = queue[k + 1] /\ k + 1 \in DOMAIN queue
            BY <1>2
        <3>2. results[d] = <<>> /\ d \notin silent
            BY <3>1 DEF CallsInv, Pending
        <3>3. d \in made /\ d # c
            BY <1>3, <3>1 DEF CallsInv, QueuedOnce
        <3>4. d \in Callers \ {c}
            BY <3>3 DEF CallsInv, TypeOK
        <3> QED BY <1>5, <1>7, <3>2, <3>4
    <2>3. \A d \in Callers \ made' : results'[d] = <<>>
        BY <1>1, <1>5 DEF CallsInv, Pending
    <2>4. \A d \in silent' : results'[d] = <<>>
        BY <1>1, <1>5, <1>6, <1>7 DEF CallsInv, Pending, TypeOK
    <2> QED BY <2>1, <2>2, <2>3, <2>4 DEF Pending
<1>11. AtMostOne'
    BY <1>5, <1>6 DEF CallsInv, AtMostOne
<1>12. Accounted'
    <2> SUFFICES ASSUME NEW d \in made
                 PROVE  \/ d \in tasks' \cup silent'
                        \/ \E k \in DOMAIN queue' : queue'[k].call = d
                        \/ results'[d] # <<>>
        BY <1>1 DEF Accounted
    <2>1. CASE d = c
        BY <1>6, <2>1
    <2>2. CASE d # c
        <3>1. d \in Callers
            BY DEF CallsInv, TypeOK
        <3>2. \A k \in DOMAIN queue : queue[k].call = d => k # 1
            BY <1>1, <2>2
        <3>3. ASSUME NEW k \in DOMAIN queue, queue[k].call = d
              PROVE  \E j \in DOMAIN queue' : queue'[j].call = d
            <4>1. k \in DOMAIN queue \ {1}
                BY <3>2, <3>3
            <4>2. k - 1 \in DOMAIN queue' /\ queue'[k - 1].call = d
                BY <1>2, <3>3, <4>1
            <4> QED BY <4>2
        <3>4. \/ d \in tasks \cup silent
              \/ \E k \in DOMAIN queue : queue[k].call = d
              \/ results[d] # <<>>
            BY DEF CallsInv, Accounted
        <3> QED BY <1>1, <1>5, <1>7, <2>2, <3>1, <3>3, <3>4
    <2> QED BY <2>1, <2>2
<1> QED BY <1>8, <1>9, <1>10, <1>11, <1>12 DEF CallsInv

LEMMA CallsStep == CallsInv /\ [Next]_vars => CallsInv'
<1> SUFFICES ASSUME CallsInv, [Next]_vars PROVE CallsInv'
    OBVIOUS
<1>1. CASE UNCHANGED vars
    BY <1>1 DEF vars, CallsInv, TypeOK, QueuedOnce, Pending, AtMostOne, Accounted
<1> QED BY <1>1, RefusedCalls, ResumeCalls, SessionEndsCalls, MainTurnCalls
        DEF Next

\* Where every call is at every moment: a task, one block of the main queue,
\* completed or lost, and never in two of them.
THEOREM EveryCallAccounted == Spec => []CallsInv
    BY InitCalls, CallsStep, PTL DEF Spec

\* No completion runs twice, and none before its task has ended.
THEOREM NoCompletionTwice == Spec => []CompletesOnce
<1>1. CallsInv => CompletesOnce
    BY DEF CallsInv, Pending, AtMostOne, CompletesOnce, Queued
<1> QED BY <1>1, EveryCallAccounted, PTL

-----------------------------------------------------------------------------
(* What the view models rely on, but for the promise that it happens.      *)

\* The calls the view models wait for: the tasks and the queued blocks.
LEMMA OpenShape ==
    ASSUME CallsInv
    PROVE  /\ Completed = {c \in Callers : results[c] # <<>>}
           /\ Completed \cap silent = {}
           /\ Completed \cup silent \subseteq made
           /\ \A c \in tasks \cup Queued : c \in made \ (Completed \cup silent)
    BY DEF CallsInv, TypeOK, Pending, QueuedOnce, Completed, Queued

LEMMA InitImplements == Init => CallsOf!Init
    BY DEF Init, CallsOf!Init, Completed

LEMMA NextImplements ==
    CallsInv /\ [Next]_vars => [CallsOf!Next]_CallsOf!vars
<1> SUFFICES ASSUME CallsInv, [Next]_vars
             PROVE  \/ \E c \in Callers : \/ CallsOf!Start(c) \/ CallsOf!Complete(c)
                                          \/ CallsOf!AtOnce(c) \/ CallsOf!Lose(c)
                    \/ UNCHANGED CallsOf!vars
    BY DEF CallsOf!Next
<1>1. results \in [Callers -> Seq({"success", "failure"})] /\ silent \subseteq made
    BY DEF CallsInv, TypeOK
<1>2. ASSUME NEW c \in Callers, RefusedWithoutTask(c)
      PROVE  CallsOf!AtOnce(c)
    <2>1. results[c] = <<>> /\ c \notin made
        BY <1>2 DEF CallsInv, Pending, RefusedWithoutTask
    <2>2. results'[c] # <<>> /\ \A d \in Callers \ {c} : results'[d] = results[d]
        BY <1>1, <1>2, <2>1 DEF RefusedWithoutTask
    <2>3. Completed' = Completed \cup {c}
        BY <1>2, <2>1, <2>2 DEF RefusedWithoutTask, Completed, CallsInv, TypeOK
    <2>4. made' \ (Completed' \cup silent') = made \ (Completed \cup silent)
        BY <1>2, <2>1, <2>3 DEF RefusedWithoutTask
    <2> QED BY <1>1, <1>2, <2>1, <2>3, <2>4
            DEF CallsOf!AtOnce, RefusedWithoutTask, Completed
<1>3. ASSUME NEW c \in Callers, Resume(c)
      PROVE  CallsOf!Start(c)
    <2>1. results[c] = <<>> /\ c \notin made
        BY <1>3 DEF CallsInv, Pending, Resume
    <2>2. Completed' = Completed
        BY <1>3, <2>1 DEF Resume, Completed
    <2>3. made' \ (Completed' \cup silent')
              = (made \ (Completed \cup silent)) \cup {c}
        BY <1>1, <1>3, <2>1, <2>2 DEF Resume, Completed
    <2> QED BY <1>1, <1>3, <2>1, <2>2, <2>3 DEF CallsOf!Start, Resume, Completed
<1>4. ASSUME NEW c \in Callers, NEW a \in Answers, SessionEnds(c, a)
      PROVE  UNCHANGED CallsOf!vars
    BY <1>4 DEF SessionEnds, CallsOf!vars, Completed
<1>5. CASE MainTurn
    <2>1. PICK c \in made \ (tasks \cup silent) :
              /\ queue # <<>> /\ queue[1].call = c
              /\ results[c] = <<>>
              /\ queue' = Tail(queue) /\ made' = made /\ tasks' = tasks
              /\ \/ /\ silent' = silent \cup {c}
                    /\ results' = results
                 \/ /\ silent' = silent
                    /\ \E x \in {"success", "failure"} :
                          results' = [results EXCEPT ![c] = <<x>>]
        BY <1>5, MainTurnShape
    <2>2. c \in Callers /\ c \in made \ (Completed \cup silent)
        BY <2>1 DEF CallsInv, TypeOK, Completed
    <2>3. CASE silent' = silent \cup {c} /\ results' = results
        <3>1. Completed' = Completed
            BY <2>1, <2>3 DEF Completed
        <3>2. CallsOf!Lose(c)
            BY <2>1, <2>2, <2>3, <3>1 DEF CallsOf!Lose
        <3> QED BY <2>2, <3>2
    <2>4. CASE silent' = silent /\ \E x \in {"success", "failure"} :
                                      results' = [results EXCEPT ![c] = <<x>>]
        <3>1. results'[c] # <<>> /\ \A d \in Callers \ {c} : results'[d] = results[d]
            BY <1>1, <2>2, <2>4
        <3>2. Completed' = Completed \cup {c}
            BY <2>1, <2>2, <3>1 DEF Completed, CallsInv, TypeOK
        <3>3. CallsOf!Complete(c)
            BY <2>1, <2>2, <2>4, <3>2 DEF CallsOf!Complete
        <3> QED BY <2>2, <3>3
    <2> QED BY <2>1, <2>3, <2>4
<1>6. CASE UNCHANGED vars
    BY <1>6 DEF vars, CallsOf!vars, Completed
<1> QED BY <1>2, <1>3, <1>4, <1>5, <1>6 DEF Next

\* Every step of the API is a step of Calls or none at all: a call starts, and
\* completes at most once or is lost, whatever the session answers and in
\* whatever order.  That it completes at all is left to TLC.
THEOREM APIImplementsCalls == Spec => CallsOf!Safety
    BY InitImplements, NextImplements, EveryCallAccounted, PTL
       DEF Spec, CallsOf!Safety
=============================================================================
