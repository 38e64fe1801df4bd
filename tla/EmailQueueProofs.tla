-------------------------- MODULE EmailQueueProofs --------------------------
(***************************************************************************)
(* What TLC finds on small instances of EmailQueue, proved for any set of  *)
(* e-mails, priorities, attempt limits, concurrency limits and starts.     *)
(***************************************************************************)
EXTENDS EmailQueue, FiniteSetTheorems, WellFoundedInduction, TLAPS

\* The maximum of a finite, non-empty set of naturals is one of its members and
\* no member exceeds it: otherwise a smallest subset without a maximum exists.
LEMMA MaxOfNats ==
    ASSUME NEW S \in SUBSET Nat, IsFiniteSet(S), S # {}
    PROVE  Max(S) \in S /\ \A x \in S : x <= Max(S)
<1> DEFINE HasMax(U) == \E x \in U : \A y \in U : x >= y
           T == {U \in SUBSET S : U # {} /\ ~HasMax(U)}
<1>1. HasMax(S)
  <2> SUFFICES ASSUME ~HasMax(S) PROVE FALSE OBVIOUS
  <2>1. T \subseteq FiniteSubsetsOf(S) /\ T # {}
    BY FS_Subset DEF FiniteSubsetsOf
  <2>2. PICK U \in T : \A V \in T : ~(<<V, U>> \in StrictSubsetOrdering(S))
    <3> HIDE DEF T
    <3> QED BY <2>1, WFMin, FS_StrictSubsetOrderingWellFounded
  <2>3. PICK x \in U : TRUE
    OBVIOUS
  <2>4. CASE U = {x}
    BY <2>2, <2>3, <2>4
  <2>5. CASE U # {x}
    <3>1. <<U \ {x}, U>> \in StrictSubsetOrdering(S)
      BY <2>2, <2>3 DEF StrictSubsetOrdering
    <3>2. HasMax(U \ {x})
      BY <2>2, <2>3, <2>5, <3>1
    <3>3. PICK m \in U \ {x} : \A y \in U \ {x} : m >= y
      BY <3>2
    <3>4. HasMax(U)
      <4>1. CASE m >= x
        BY <3>3, <4>1
      <4>2. CASE x > m
        BY <2>3, <3>3, <4>2
      <4> QED BY <2>3, <3>3, <4>1, <4>2
    <3> QED BY <2>2, <3>4
  <2> QED BY <2>4, <2>5
<1> QED BY <1>1 DEF Max

\* What ties the places an e-mail can be in to its status and its counters.
\* AcceptedBounded needs the middle conjuncts: while an attempt is still
\* allowed, the provider took the e-mail at most once per counted failure.
EmailInv(e) ==
    /\ e \in queue => /\ status[e] \in {"pending", "retry_scheduled"}
                      /\ e \notin cancelled
    /\ e \in processing <=> phase[e] # "idle"
    /\ e \in processing => status[e] = "processing" /\ e \notin cancelled
    /\ e \in queue \cup processing => /\ accepted[e] <= retryCount[e]
                                      /\ retryCount[e] < MaxRetries[e]
    /\ status[e] = "absent" => accepted[e] = 0 /\ retryCount[e] = 0
    /\ e \in cancelled => status[e] \in {"pending", "retry_scheduled"}
    /\ accepted[e] <= MaxRetries[e]
    /\ Forgotten(e) => Abandoned(e)
    /\ \A j, k \in Loops : e \in batch[j] /\ e \in batch[k] => j = k
    /\ e \in processing <=> \E k \in Loops : e \in batch[k]

IInv ==
    /\ TypeOK
    /\ \A e \in Emails : EmailInv(e)
    /\ \A l \in Loops : stops[l] # "none" => worker \in Loops

\* The initial state satisfies the inductive invariant.
LEMMA InitIInv == Init => IInv
<1> SUFFICES ASSUME Init PROVE IInv OBVIOUS
<1>1. TypeOK
  <2> USE DEF Init
  <2>1. 0 \in 0..MaxStarts
    BY QueueAssumption
  <2>2. /\ loop \in [Loops -> {"none", "live", "ended"}]
        /\ batch \in [Loops -> SUBSET Emails]
        /\ stops \in [Loops -> {"none", "waiting", "timed_out"}]
    OBVIOUS
  <2> QED BY <2>1, <2>2 DEF TypeOK, Statuses, Terminal
<1> USE QueueAssumption DEF Init
<1>2. ASSUME NEW e \in Emails PROVE EmailInv(e)
  BY DEF EmailInv, Forgotten, Abandoned
<1> QED BY <1>1, <1>2 DEF IInv

\* Cancelling a task keeps it: what its gather held is abandoned, nothing else moves.
LEMMA CancelTaskIInv ==
    ASSUME IInv, NEW l \in Loops, CancelTask(l),
           stops' \in [Loops -> {"none", "waiting", "timed_out"}],
           \A k \in Loops : stops'[k] # "none" => worker \in Loops,
           UNCHANGED <<status, retryCount, born, queue, seat, future, running, worker, cancelled>>
    PROVE  IInv'
<1> USE QueueAssumption DEF IInv, TypeOK, Loops
<1>1. TypeOK'
  BY DEF CancelTask
<1>2. ASSUME NEW e \in Emails PROVE EmailInv(e)'
  <2>1. CASE e \in batch[l]
    BY <2>1, <1>1 DEF CancelTask, EmailInv, Forgotten, Abandoned, Statuses, Terminal
  <2>2. CASE e \notin batch[l]
    BY <2>2, <1>1 DEF CancelTask, EmailInv, Forgotten, Abandoned, Statuses, Terminal
  <2> QED BY <2>1, <2>2
<1> QED BY <1>1, <1>2

\* Every step of the queue keeps it.
LEMMA NextIInv == IInv /\ [Next]_vars => IInv'
<1> SUFFICES ASSUME IInv, [Next]_vars PROVE IInv' OBVIOUS
<1> USE QueueAssumption DEF IInv, TypeOK, Loops
<1>1. ASSUME NEW e \in Emails, NEW scheduled \in BOOLEAN, Enqueue(e, scheduled) PROVE IInv'
  <2>1. TypeOK'
    <3>1. IsFiniteSet({f \in Emails : status[f] # "absent"})
      BY FS_Subset
    <3>2. Cardinality({f \in Emails : status[f] # "absent"}) \in Nat
      BY <3>1, FS_CardinalityType
    <3> QED BY <1>1, <3>2 DEF Enqueue, Statuses
  <2>2. ASSUME NEW f \in Emails PROVE EmailInv(f)'
    BY <1>1, <2>1 DEF Enqueue, EmailInv, Forgotten, Abandoned
  <2> QED BY <2>1, <2>2, <1>1 DEF Enqueue
<1>2. ASSUME NEW e \in Emails, Cancel(e) PROVE IInv'
  <2>1. TypeOK'
    BY <1>2 DEF Cancel
  <2>2. ASSUME NEW f \in Emails PROVE EmailInv(f)'
    BY <1>2, <2>1 DEF Cancel, EmailInv, Forgotten, Abandoned
  <2> QED BY <2>1, <2>2, <1>2 DEF Cancel
<1>3. ASSUME NEW cutoff \in 1..(Cardinality(Emails) + 1), CleanUp(cutoff) PROVE IInv'
  BY <1>3 DEF CleanUp, EmailInv, Forgotten, Abandoned
<1>4. ASSUME NEW e \in Emails, ComesDue(e) PROVE IInv'
  BY <1>4 DEF ComesDue, EmailInv, Forgotten, Abandoned
<1>5. CASE Start
  BY <1>5 DEF Start, EmailInv, Forgotten, Abandoned
<1>6. CASE Stop
  BY <1>6 DEF Stop, EmailInv, Forgotten, Abandoned
<1>7. ASSUME NEW l \in Loops, StopReturns(l) PROVE IInv'
  BY <1>7 DEF StopReturns, EmailInv, Forgotten, Abandoned
<1>8. ASSUME NEW l \in Loops, StopTimesOut(l) PROVE IInv'
  BY <1>8, CancelTaskIInv DEF StopTimesOut
<1>9. ASSUME NEW l \in Loops, StopCancelsWorker(l) PROVE IInv'
  BY <1>9, CancelTaskIInv DEF StopCancelsWorker
<1>10. ASSUME NEW l \in Loops, TakeBatch(l) PROVE IInv'
  <2>1. PICK B \in SUBSET Due :
          /\ status' = [e \in Emails |-> IF e \in B THEN "processing" ELSE status[e]]
          /\ processing' = processing \cup B
          /\ queue' = queue \ B
          /\ seat' = [e \in Emails |-> IF e \in B THEN 0 ELSE seat[e]]
          /\ batch' = [batch EXCEPT ![l] = B]
          /\ phase' = [e \in Emails |-> IF e \in B THEN "token" ELSE phase[e]]
    BY <1>10 DEF TakeBatch
  <2>2. B \subseteq queue
    BY DEF Due
  <2>3. TypeOK'
    BY <1>10, <2>1, <2>2 DEF TakeBatch, Statuses
  <2>4. ASSUME NEW f \in Emails PROVE EmailInv(f)'
    <3>1. CASE f \in B
      <4>1. /\ f \in queue /\ f \notin processing /\ f \notin cancelled
            /\ accepted[f] <= retryCount[f] /\ retryCount[f] < MaxRetries[f]
            /\ \A k \in Loops : f \notin batch[k]
        BY <2>2, <3>1 DEF EmailInv
      <4>2. /\ f \notin queue' /\ f \in processing' /\ f \notin cancelled'
            /\ status'[f] = "processing" /\ phase'[f] = "token"
            /\ accepted'[f] = accepted[f] /\ retryCount'[f] = retryCount[f]
            /\ \A k \in Loops : f \in batch'[k] <=> k = l
        BY <1>10, <2>1, <3>1, <4>1 DEF TakeBatch
      <4>3. accepted'[f] <= MaxRetries[f]
        BY <2>3, <4>1, <4>2
      <4> HIDE DEF IInv, TypeOK
      <4> QED BY <4>1, <4>2, <4>3 DEF EmailInv, Forgotten, Abandoned
    <3>2. CASE f \notin B
      BY <1>10, <2>1, <2>2, <2>3, <3>2 DEF TakeBatch, EmailInv, Forgotten, Abandoned, Terminal
    <3> QED BY <3>1, <3>2
  <2> QED BY <1>10, <2>3, <2>4 DEF TakeBatch
<1>11. ASSUME NEW l \in Loops, LoopEnds(l) PROVE IInv'
  BY <1>11 DEF LoopEnds, EmailInv, Forgotten, Abandoned
<1>12. ASSUME NEW e \in Emails, BeginSend(e) PROVE IInv'
  BY <1>12 DEF BeginSend, EmailInv, Forgotten, Abandoned
<1>13. ASSUME NEW e \in Emails, Sent(e) PROVE IInv'
  <2>1. TypeOK'
    BY <1>13 DEF Sent, Leave, Statuses, Terminal
  <2>2. ASSUME NEW f \in Emails PROVE EmailInv(f)'
    BY <1>13, <2>1 DEF Sent, Leave, EmailInv, Forgotten, Abandoned, Terminal
  <2> QED BY <1>13, <2>1, <2>2 DEF Sent, Leave
<1>14. ASSUME NEW e \in Emails, Failed(e) PROVE IInv'
  <2> DEFINE last == Max({0} \cup {seat[f] : f \in queue})
             again == retryCount[e] + 1 < MaxRetries[e]
  <2>1. last \in Nat
    <3>1. IsFiniteSet({seat[f] : f \in queue})
      <4>1. IsFiniteSet(queue)
        BY FS_Subset
      <4>2. [f \in queue |-> seat[f]] \in Surjection(queue, {seat[f] : f \in queue})
        BY DEF Surjection
      <4> QED BY <4>1, <4>2, FS_Surjection
    <3>2. IsFiniteSet({0} \cup {seat[f] : f \in queue})
      BY <3>1, FS_Singleton, FS_Union
    <3>3. {0} \cup {seat[f] : f \in queue} \in SUBSET Nat
      OBVIOUS
    <3> HIDE QueueAssumption DEF IInv, TypeOK
    <3> QED BY <3>2, <3>3, MaxOfNats
  <2>2. PICK n \in {0, 1} : accepted' = [accepted EXCEPT ![e] = accepted[e] + n]
    BY <1>14 DEF Failed
  <2>3. /\ phase[e] = "sending"
        /\ retryCount' = [retryCount EXCEPT ![e] = retryCount[e] + 1]
        /\ again => /\ status' = [status EXCEPT ![e] = "retry_scheduled"]
                    /\ queue' = queue \cup {e}
                    /\ seat' = [seat EXCEPT ![e] = 1 + last]
                    /\ future' = future \cup {e}
        /\ ~again => /\ status' = [status EXCEPT ![e] = "max_retries_exceeded"]
                     /\ queue' = queue /\ seat' = seat /\ future' = future
        /\ processing' = processing \ {e}
        /\ completed' = completed \cup {e}
        /\ phase' = [phase EXCEPT ![e] = "idle"]
        /\ batch' = [l \in Loops |-> batch[l] \ {e}]
        /\ UNCHANGED <<born, running, worker, loop, stops, cancelled>>
    BY <1>14 DEF Failed, HandleFailure, MayRetry, Leave
  <2> HIDE DEF last
  <2>4. TypeOK'
    <3>1. retryCount' \in [Emails -> Nat] /\ accepted' \in [Emails -> Nat]
      BY <2>2, <2>3
    <3>2. status' \in [Emails -> Statuses] /\ seat' \in [Emails -> Nat]
      <4>1. CASE again
        <5>1. seat' = [seat EXCEPT ![e] = 1 + last] /\ 1 + last \in Nat
          BY <2>1, <2>3, <4>1
        <5>2. status' = [status EXCEPT ![e] = "retry_scheduled"]
          BY <2>3, <4>1
        <5> QED BY <5>1, <5>2 DEF Statuses
      <4>2. CASE ~again
        BY <2>3, <4>2 DEF Statuses, Terminal
      <4> QED BY <4>1, <4>2
    <3>3. queue' \subseteq Emails /\ future' \subseteq Emails
      BY <2>3
    <3> QED BY <2>3, <3>1, <3>2, <3>3
  <2>5. ASSUME NEW f \in Emails PROVE EmailInv(f)'
    <3>1. EmailInv(f) /\ (f \in processing <=> phase[f] # "idle")
      BY DEF EmailInv
    <3>2. CASE f = e /\ again
      BY <2>2, <2>3, <3>1, <3>2 DEF EmailInv, Forgotten
    <3>3. CASE f = e /\ ~again
      <4>1. status'[e] = "max_retries_exceeded" /\ e \notin queue /\ e \notin cancelled
        BY <2>3, <3>1, <3>3 DEF EmailInv
      <4>2. accepted'[e] <= MaxRetries[e]
        BY <2>2, <2>3, <3>1, <3>3 DEF EmailInv
      <4> QED BY <2>3, <3>3, <4>1, <4>2 DEF EmailInv, Forgotten, Terminal
    <3>4. CASE f # e
      BY <2>2, <2>3, <3>1, <3>4 DEF EmailInv, Forgotten, Abandoned, Terminal
    <3> QED BY <3>2, <3>3, <3>4
  <2> QED BY <2>3, <2>4, <2>5
<1>15. CASE UNCHANGED vars
  BY <1>15 DEF vars, EmailInv, Forgotten, Abandoned
<1> QED
  BY <1>1, <1>2, <1>3, <1>4, <1>5, <1>6, <1>7, <1>8, <1>9, <1>10, <1>11, <1>12,
     <1>13, <1>14, <1>15 DEF Next

\* The type invariant and the inductive invariant hold in every reachable state.
THEOREM InductiveInvariant == Spec => []IInv
<1>1. Init => IInv
  BY InitIInv
<1>2. IInv /\ [Next]_vars => IInv'
  BY NextIInv
<1> QED BY <1>1, <1>2, PTL DEF Spec

\* Type correctness of the queue manager's state.
THEOREM TypeCorrect == Spec => []TypeOK
<1>1. IInv => TypeOK
  BY DEF IInv
<1> QED BY <1>1, InductiveInvariant, PTL

\* The provider takes an e-mail at most max_retries times, for every provider
\* that refuses, raises, or takes the message and loses the answer.
THEOREM AtMostMaxRetries == Spec => []AcceptedBounded
<1>1. IInv => AcceptedBounded
  BY DEF IInv, EmailInv, AcceptedBounded
<1> QED BY <1>1, InductiveInvariant, PTL

\* No e-mail is forgotten: outside the queue and the tasks it has its final
\* status or was abandoned by a stop().
THEOREM NothingForgotten == Spec => []NoneForgotten
<1>1. IInv => NoneForgotten
  BY DEF IInv, EmailInv, NoneForgotten
<1> QED BY <1>1, InductiveInvariant, PTL

\* No two tasks hold the same e-mail, none holds a queued, finished or cancelled one.
THEOREM OneHolder == Spec => []SingleHolder
<1>1. IInv => SingleHolder
  BY DEF IInv, EmailInv, SingleHolder, Terminal
<1> QED BY <1>1, InductiveInvariant, PTL

-----------------------------------------------------------------------------
\* What _get_next_batch takes fits into the free slots.
LEMMA BatchFits ==
    ASSUME IInv, NEW B \in SUBSET Due, B # {}, NextBatch(B)
    PROVE  Cardinality(B) \in Nat /\ Cardinality(B) + Cardinality(processing) <= MaxConcurrent
<1> DEFINE p == Cardinality(processing)
           slots == IF p < MaxConcurrent THEN MaxConcurrent - p ELSE 0
           d == Cardinality(Due)
<1>1. IsFiniteSet(B) /\ IsFiniteSet(Due) /\ IsFiniteSet(processing)
  BY QueueAssumption, FS_Subset DEF IInv, TypeOK, Due
<1>2. Cardinality(B) \in Nat \ {0} /\ d \in Nat /\ p \in Nat
  BY <1>1, FS_CardinalityType, FS_EmptySet
<1>3. Cardinality(B) = Min({slots, BatchSize, d})
  BY DEF NextBatch, Limit
<1> HIDE DEF p, d
<1>4. slots \in Nat /\ BatchSize \in Nat /\ MaxConcurrent \in Nat
  BY <1>2, QueueAssumption
<1>5. Min({slots, BatchSize, d}) <= slots
  <2> HIDE DEF slots
  <2>1. \E x \in {slots, BatchSize, d} : \A y \in {slots, BatchSize, d} : x <= y
    BY <1>2, <1>4
  <2> QED BY <2>1 DEF Min
<1> QED BY <1>2, <1>3, <1>4, <1>5 DEF p

\* At most max_concurrent e-mails are in work, also after restarts.
THEOREM AtMostMaxConcurrent == Spec => []SlotsRespected
<1>1. Init => SlotsRespected
  BY QueueAssumption, FS_EmptySet DEF Init, SlotsRespected
<1>2. IInv /\ SlotsRespected /\ [Next]_vars => SlotsRespected'
  <2> SUFFICES ASSUME IInv, SlotsRespected, [Next]_vars PROVE SlotsRespected' OBVIOUS
  <2>1. IsFiniteSet(processing) /\ Cardinality(processing) \in Nat
    BY QueueAssumption, FS_Subset, FS_CardinalityType DEF IInv, TypeOK
  <2>2. ASSUME processing' \subseteq processing PROVE SlotsRespected'
    <3>1. Cardinality(processing') <= Cardinality(processing) /\ Cardinality(processing') \in Nat
      BY <2>1, <2>2, FS_Subset, FS_CardinalityType
    <3> QED BY <2>1, <3>1, QueueAssumption DEF SlotsRespected
  <2>3. ASSUME NEW l \in Loops, TakeBatch(l) PROVE SlotsRespected'
    <3>1. PICK B \in SUBSET Due : B # {} /\ NextBatch(B) /\ processing' = processing \cup B
      BY <2>3 DEF TakeBatch
    <3>2. Cardinality(B) \in Nat /\ Cardinality(B) + Cardinality(processing) <= MaxConcurrent
      BY <3>1, BatchFits
    <3>3. IsFiniteSet(B)
      BY QueueAssumption, FS_Subset DEF IInv, TypeOK, Due
    <3>4. Cardinality(processing \cap B) \in Nat
      BY <2>1, FS_Subset, FS_CardinalityType
    <3>5. Cardinality(processing \cup B)
            = Cardinality(processing) + Cardinality(B) - Cardinality(processing \cap B)
      BY <2>1, <3>3, FS_Union
    <3> QED BY <2>1, <3>1, <3>2, <3>4, <3>5, QueueAssumption DEF SlotsRespected
  <2>4. ASSUME [Next]_vars, ~(\E l \in Loops : TakeBatch(l)) PROVE processing' \subseteq processing
    BY <2>4 DEF Next, vars, Enqueue, Cancel, CleanUp, ComesDue, Start, Stop, StopReturns,
                StopTimesOut, StopCancelsWorker, CancelTask, LoopEnds, BeginSend, Sent,
                Failed, Leave
  <2> QED BY <2>2, <2>3, <2>4
<1> QED BY <1>1, <1>2, InductiveInvariant, PTL DEF Spec

-----------------------------------------------------------------------------
(* The order of first attempts *)

\* What was never tried sits where the last sort put it: only retries are appended.
FirstTriesAreSorted == \A e \in queue : retryCount[e] = 0 => seat[e] = 0

\* The steps of the queue keep the seats of first tries.
LEMMA NextFirstTries ==
    IInv /\ FirstTriesAreSorted /\ [Next]_vars => FirstTriesAreSorted'
<1> SUFFICES ASSUME IInv, FirstTriesAreSorted, [Next]_vars PROVE FirstTriesAreSorted'
  OBVIOUS
<1>0. TypeOK
  BY DEF IInv
<1> DEFINE Same == UNCHANGED <<queue, seat, retryCount>>
<1>1. ASSUME NEW e \in Emails, NEW scheduled \in BOOLEAN, Enqueue(e, scheduled)
      PROVE  FirstTriesAreSorted'
  BY <1>0, <1>1 DEF Enqueue, FirstTriesAreSorted, TypeOK
<1>2. ASSUME NEW e \in Emails, Cancel(e) PROVE FirstTriesAreSorted'
  BY <1>0, <1>2 DEF Cancel, FirstTriesAreSorted, TypeOK
<1>3. ASSUME NEW l \in Loops, TakeBatch(l) PROVE FirstTriesAreSorted'
  BY <1>0, <1>3 DEF TakeBatch, FirstTriesAreSorted, TypeOK
<1>4. ASSUME NEW e \in Emails, Failed(e) PROVE FirstTriesAreSorted'
  <2>1. retryCount[e] \in Nat /\ retryCount'[e] = retryCount[e] + 1
    BY <1>0, <1>4 DEF Failed, HandleFailure, TypeOK
  <2>2. \A f \in Emails \ {e} : retryCount'[f] = retryCount[f] /\ seat'[f] = seat[f]
    BY <1>0, <1>4 DEF Failed, HandleFailure, TypeOK
  <2>3. queue' \subseteq queue \cup {e} /\ queue \subseteq Emails
    BY <1>0, <1>4 DEF Failed, HandleFailure, TypeOK
  <2>4. retryCount'[e] # 0
    BY <2>1
  <2> QED BY <2>2, <2>3, <2>4 DEF FirstTriesAreSorted
<1>5. CASE Same
  BY <1>5 DEF FirstTriesAreSorted
<1>6. ASSUME ~Same
      PROVE  \/ \E e \in Emails, scheduled \in BOOLEAN : Enqueue(e, scheduled)
             \/ \E e \in Emails : Cancel(e) \/ Failed(e)
             \/ \E l \in Loops : TakeBatch(l)
  BY <1>6 DEF Next, vars, CleanUp, ComesDue, Start, Stop, StopReturns, StopTimesOut,
              StopCancelsWorker, CancelTask, LoopEnds, BeginSend, Sent
<1> QED BY <1>1, <1>2, <1>3, <1>4, <1>5, <1>6

\* An e-mail in the queue comes into work only in a batch.
LEMMA WorkComesInBatches ==
    ASSUME IInv, [Next]_vars, NEW b \in queue, b \in processing'
    PROVE  \E l \in Loops : TakeBatch(l)
<1>1. b \notin processing
  BY DEF IInv, TypeOK, EmailInv
<1>2. ASSUME NEW e \in Emails, Failed(e) \/ Sent(e) \/ Cancel(e) \/ BeginSend(e) PROVE FALSE
  BY <1>1, <1>2 DEF Failed, Sent, Leave, Cancel, BeginSend
<1>3. \A l \in Loops : ~CancelTask(l)
  BY <1>1 DEF CancelTask
<1>4. ASSUME NEW e \in Emails, NEW scheduled \in BOOLEAN, Enqueue(e, scheduled) PROVE FALSE
  BY <1>1, <1>4 DEF Enqueue
<1>5. \A l \in Loops : ~StopCancelsWorker(l)
  BY <1>3 DEF StopCancelsWorker, IInv
<1>6. \A l \in Loops : ~StopTimesOut(l)
  BY <1>3 DEF StopTimesOut
<1> QED BY <1>1, <1>2, <1>4, <1>5, <1>6
        DEF Next, vars, CleanUp, ComesDue, Start, Stop, StopReturns, LoopEnds

\* Of two due e-mails never tried the one that outranks leaves the queue first, however
\* many retries have been appended and whatever was enqueued since.
THEOREM HigherRankFirst == Spec => FirstTriesInOrder
<1>1. Init => FirstTriesAreSorted
  BY DEF Init, FirstTriesAreSorted
<1>2. IInv /\ FirstTriesAreSorted /\ [Next]_vars =>
          [\A a, b \in Due : /\ retryCount[a] = 0 /\ retryCount[b] = 0
                              /\ Outranks(a, b)
                              /\ b \in processing'
                             => a \notin queue']_vars
  <2> SUFFICES ASSUME IInv, FirstTriesAreSorted, [Next]_vars,
                      NEW a \in Due, NEW b \in Due,
                      retryCount[a] = 0, retryCount[b] = 0, Outranks(a, b),
                      b \in processing', a \in queue'
               PROVE  FALSE
    OBVIOUS
  <2>1. a \in queue /\ b \in queue /\ seat[a] = 0 /\ seat[b] = 0
    BY DEF Due, FirstTriesAreSorted
  <2>2. a \in Emails /\ b \in Emails /\ b \notin processing
    BY <2>1 DEF IInv, TypeOK, EmailInv
  <2>3. PICK l \in Loops : TakeBatch(l)
    BY <2>1, WorkComesInBatches
  <2>4. PICK B \in SUBSET Due : /\ NextBatch(B)
                                /\ processing' = processing \cup B /\ queue' = queue \ B
    BY <2>3 DEF TakeBatch
  <2>5. b \in B /\ a \notin B
    BY <2>2, <2>4
  <2>6. Before(b, a)
    BY <2>4, <2>5 DEF NextBatch
  <2>7. Outranks(b, a)
    BY <2>1, <2>6 DEF Before
  <2>8. /\ Priority[a] \in Nat /\ Priority[b] \in Nat
        /\ born[a] \in Nat /\ born[b] \in Nat
    BY <2>2, QueueAssumption DEF QueueAssumption, IInv, TypeOK
  <2> QED BY <2>7, <2>8 DEF Outranks
<1> QED BY <1>1, <1>2, NextFirstTries, InductiveInvariant, PTL DEF Spec, FirstTriesInOrder

-----------------------------------------------------------------------------
(* EmailQueue implements MailPromise. *)

\* A step in which the status, the cancellation and the work on an e-mail do not
\* change is a stutter for it.
LEMMA SameOutcome ==
    ASSUME NEW e \in Emails, status'[e] = status[e], phase'[e] = phase[e],
           e \in cancelled' <=> e \in cancelled
    PROVE  Outcome(e)' = Outcome(e)
BY DEF Outcome, Abandoned

\* What a step of the queue does to one e-mail is a step of the promise or nothing.
LEMMA StepKeepsPromise ==
    ASSUME IInv, IInv', [Next]_vars, NEW f \in Emails
    PROVE  LET o == Outcome(f)
           IN  \/ o = "absent" /\ o' = "open" /\ accepted'[f] = accepted[f]
               \/ o = "open" /\ o' = "cancelled" /\ accepted'[f] = accepted[f]
               \/ o = "open" /\ o' = "sent" /\ accepted'[f] = accepted[f] + 1
               \/ /\ o = "open" /\ o' \in {"open", "failed", "abandoned"}
                  /\ accepted'[f] \in {accepted[f], accepted[f] + 1}
               \/ o' = o /\ accepted'[f] = accepted[f]
<1> DEFINE Quiet == /\ status'[f] = status[f] /\ phase'[f] = phase[f]
                    /\ f \in cancelled' <=> f \in cancelled
                    /\ accepted'[f] = accepted[f]
<1>0. EmailInv(f) /\ EmailInv(f)' /\ TypeOK /\ TypeOK'
  BY DEF IInv
<1>1. CASE Quiet
  BY <1>1, SameOutcome
<1>2. ASSUME NEW e \in Emails, NEW scheduled \in BOOLEAN, Enqueue(e, scheduled), ~Quiet
      PROVE  Outcome(f) = "absent" /\ Outcome(f)' = "open" /\ accepted'[f] = accepted[f]
  BY <1>0, <1>2 DEF Enqueue, Outcome, Abandoned, EmailInv, TypeOK
<1>3. ASSUME NEW e \in Emails, Cancel(e), ~Quiet
      PROVE  Outcome(f) = "open" /\ Outcome(f)' = "cancelled" /\ accepted'[f] = accepted[f]
  BY <1>0, <1>3 DEF Cancel, Outcome, Abandoned, EmailInv, TypeOK
<1>4. ASSUME NEW l \in Loops, CancelTask(l), UNCHANGED <<status, cancelled>>, ~Quiet
      PROVE  /\ Outcome(f) = "open" /\ Outcome(f)' = "abandoned"
             /\ accepted'[f] \in {accepted[f], accepted[f] + 1}
  <2>1. f \in batch[l]
    BY <1>0, <1>4 DEF CancelTask, TypeOK
  <2>2. status[f] = "processing" /\ phase[f] # "idle" /\ f \notin cancelled
    BY <1>0, <2>1 DEF EmailInv
  <2>3. phase'[f] = "idle" /\ accepted'[f] \in {accepted[f], accepted[f] + 1}
    BY <1>0, <1>4, <2>1 DEF CancelTask, TypeOK
  <2> QED BY <1>4, <2>2, <2>3 DEF Outcome, Abandoned
<1>5. ASSUME NEW l \in Loops, TakeBatch(l), ~Quiet
      PROVE  Outcome(f) = "open" /\ Outcome(f)' = "open" /\ accepted'[f] = accepted[f]
  BY <1>0, <1>5 DEF TakeBatch, Due, Outcome, Abandoned, EmailInv, TypeOK
<1>6. ASSUME NEW e \in Emails, BeginSend(e), ~Quiet
      PROVE  Outcome(f) = "open" /\ Outcome(f)' = "open" /\ accepted'[f] = accepted[f]
  BY <1>0, <1>6 DEF BeginSend, Outcome, Abandoned, EmailInv, TypeOK
<1>7. ASSUME NEW e \in Emails, Sent(e), ~Quiet
      PROVE  Outcome(f) = "open" /\ Outcome(f)' = "sent" /\ accepted'[f] = accepted[f] + 1
  BY <1>0, <1>7 DEF Sent, Leave, Outcome, Abandoned, EmailInv, TypeOK
<1>8. ASSUME NEW e \in Emails, Failed(e), ~Quiet
      PROVE  /\ Outcome(f) = "open" /\ Outcome(f)' \in {"open", "failed"}
             /\ accepted'[f] \in {accepted[f], accepted[f] + 1}
  <2>1. f = e
    <3> SUFFICES ASSUME f # e PROVE Quiet
      BY <1>8
    <3> QED BY <1>0, <1>8 DEF Failed, HandleFailure, MayRetry, Leave, TypeOK
  <2>2. Outcome(f) = "open"
    BY <1>0, <1>8, <2>1 DEF Failed, Outcome, Abandoned, EmailInv
  <2>3. accepted'[f] \in {accepted[f], accepted[f] + 1}
    BY <1>0, <1>8, <2>1 DEF Failed, TypeOK
  <2>4. status'[f] \in {"retry_scheduled", "max_retries_exceeded"}
    BY <1>0, <1>8, <2>1 DEF Failed, HandleFailure, MayRetry, TypeOK
  <2>5. f \notin cancelled'
    BY <1>0, <1>8, <2>1 DEF Failed, EmailInv
  <2> QED BY <2>2, <2>3, <2>4, <2>5 DEF Outcome, Abandoned
<1>9. ASSUME ~Quiet
      PROVE  \/ \E e \in Emails, scheduled \in BOOLEAN : Enqueue(e, scheduled)
             \/ \E e \in Emails : Cancel(e) \/ BeginSend(e) \/ Sent(e) \/ Failed(e)
             \/ \E l \in Loops : TakeBatch(l)
             \/ \E l \in Loops : CancelTask(l) /\ UNCHANGED <<status, cancelled>>
  <2>1. \A l \in Loops : StopCancelsWorker(l) => worker \in Loops
    BY DEF StopCancelsWorker, IInv
  <2> QED BY <1>9, <2>1 DEF Next, vars, CleanUp, ComesDue, Start, Stop, StopReturns,
                            StopTimesOut, StopCancelsWorker, LoopEnds
<1> QED BY <1>1, <1>2, <1>3, <1>4, <1>5, <1>6, <1>7, <1>8, <1>9

\* The queue keeps its promise: every behaviour of EmailQueue is one of MailPromise.
THEOREM QueueKeepsPromise == Spec => KeepsPromise
<1>1. Init => Promise!Init
  <2> SUFFICES ASSUME Init PROVE Promise!Init OBVIOUS
  <2>1. ASSUME NEW e \in Emails PROVE Outcome(e) = "absent"
    <3>1. status[e] = "absent" /\ e \notin cancelled
      BY DEF Init
    <3> QED BY <3>1 DEF Outcome, Abandoned
  <2>2. [e \in Emails |-> Outcome(e)] = [e \in Emails |-> "absent"]
    BY <2>1
  <2>3. accepted = [e \in Emails |-> 0]
    BY DEF Init
  <2> QED BY <2>2, <2>3 DEF Promise!Init
<1>2. IInv /\ IInv' /\ [Next]_vars => [Promise!Next]_(Promise!vars)
  <2> SUFFICES ASSUME IInv, IInv', [Next]_vars PROVE Promise!Next
    OBVIOUS
  <2>1. \A e \in Emails : Outcome(e)' \in Promise!Outcomes
    BY DEF Outcome, Promise!Outcomes
  <2>2. accepted' \in [Emails -> Nat] /\ \A e \in Emails : accepted'[e] <= MaxRetries[e]
    BY DEF IInv, TypeOK, EmailInv
  <2>3. ASSUME NEW f \in Emails
        PROVE  Promise!Submit(f) \/ Promise!Withdraw(f) \/ Promise!Deliver(f)
               \/ Promise!Attempt(f) \/ Promise!Same(f)
    BY <2>2, StepKeepsPromise
       DEF Promise!Submit, Promise!Withdraw, Promise!Deliver, Promise!Attempt, Promise!Same
  <2> QED BY <2>1, <2>2, <2>3 DEF Promise!Next
<1> QED BY <1>1, <1>2, InductiveInvariant, PTL DEF Spec, KeepsPromise, Promise!Spec
=============================================================================
