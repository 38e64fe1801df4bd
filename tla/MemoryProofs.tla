---------------------------- MODULE MemoryProofs ----------------------------
(***************************************************************************)
(* What processes keep in their own memory, which a restart empties and no *)
(* other process sees, for every set of processes and of values:           *)
(* ProfileUpdates, TimeOffApproval, TimeOffRequests, ImportExecution and   *)
(* TokenBucket.                                                            *)
(***************************************************************************)
EXTENDS ProfileUpdates, TimeOffApproval, TimeOffRequests, ImportExecution, TokenBucket,
        FiniteSetTheorems, SequenceTheorems, WellFoundedInduction, TLAPS

-----------------------------------------------------------------------------
(* ProfileUpdates: a ticket is applied if and only if it is approved, once, and
   an approval that no other pod overtook leaves the requested value in the row. *)

\* A ticket is in the memory of one pod at most, and in none before it is made.
TicketsHaveOnePod ==
    /\ \A p \in Pods, t \in Tickets : store[p][t] # NoTicket => t \in made
    /\ \A p, q \in Pods, t \in Tickets :
           store[p][t] # NoTicket /\ store[q][t] # NoTicket => p = q

NothingAppliedUnmade == \A t \in Tickets \ made : applied[t] = 0

\* The ticket of a review in progress still waits, and has been read from the
\* row as the row is, unless another commit came in between.
ReviewsArePending ==
    \A p \in Pods : sess[p].op = "review" =>
        LET r == store[p][sess[p].ticket]
        IN  /\ r.status = "pending"
            /\ p \notin overtaken => sess[p].read = profile[r.field]

ProfileInv == /\ ProfileTypeOK
              /\ TicketsHaveOnePod
              /\ NothingAppliedUnmade
              /\ ReviewsArePending
              /\ DecisionsMatchEffects

UpdateSession == [op : {"update"}, field : Fields, new : Values, read : Values]
ReviewSession == [op : {"review"}, ticket : Tickets, read : Values]

\* What is stored and what runs are told apart by their status and their op.
LEMMA ProfileTypes ==
    /\ NoTicket.status = "absent"
    /\ \A r \in Ticket : /\ r.status \in {"pending", "approved", "rejected", "cancelled"}
                         /\ r # NoTicket /\ r.field \in Fields /\ r.new \in Values
    /\ NoSession.op = "none"
    /\ \A s \in UpdateSession : /\ s.op = "update" /\ s # NoSession
                                /\ s.field \in Fields /\ s.new \in Values
    /\ \A s \in ReviewSession : /\ s.op = "review" /\ s # NoSession
                                /\ s.ticket \in Tickets /\ s.read \in Values
<1>1. NoTicket.status = "absent" /\ NoSession.op = "none"
  BY DEF NoTicket, NoSession
<1>2. ASSUME NEW r \in Ticket
      PROVE  /\ r.status \in {"pending", "approved", "rejected", "cancelled"}
             /\ r # NoTicket /\ r.field \in Fields /\ r.new \in Values
  <2>1. /\ r.status \in {"pending", "approved", "rejected", "cancelled"}
        /\ r.field \in Fields /\ r.new \in Values
    BY DEF Ticket
  <2> QED BY <1>1, <2>1
<1>3. ASSUME NEW s \in UpdateSession
      PROVE  s.op = "update" /\ s # NoSession /\ s.field \in Fields /\ s.new \in Values
  <2>1. s.op = "update" /\ s.field \in Fields /\ s.new \in Values
    BY DEF UpdateSession
  <2> QED BY <1>1, <2>1
<1>4. ASSUME NEW s \in ReviewSession
      PROVE  s.op = "review" /\ s # NoSession /\ s.ticket \in Tickets /\ s.read \in Values
  <2>1. s.op = "review" /\ s.ticket \in Tickets /\ s.read \in Values
    BY DEF ReviewSession
  <2> QED BY <1>1, <2>1
<1> QED BY <1>1, <1>2, <1>3, <1>4

\* Pods that have just started satisfy the invariant.
LEMMA ProfileInitInv == ProfileInit => ProfileInv
<1> SUFFICES ASSUME ProfileInit PROVE ProfileInv
  OBVIOUS
<1>1. ProfileTypeOK
  BY DEF ProfileInit, ProfileTypeOK
<1>2. \A p \in Pods : sess[p].op = "none" /\ \A t \in Tickets : store[p][t] = NoTicket
  BY ProfileTypes DEF ProfileInit
<1>3. \A t \in Tickets : applied[t] = 0
  BY DEF ProfileInit
<1>4. TicketsHaveOnePod /\ NothingAppliedUnmade
  BY <1>2, <1>3 DEF TicketsHaveOnePod, NothingAppliedUnmade
<1>5. ReviewsArePending /\ DecisionsMatchEffects
  BY <1>2 DEF ReviewsArePending, DecisionsMatchEffects
<1> QED BY <1>1, <1>4, <1>5 DEF ProfileInv

\* The types of a state in which every pod stores and does what it may.
LEMMA StoreAndSessions ==
    ASSUME ProfileTypeOK
    PROVE  /\ \A p \in Pods, t \in Tickets : store[p][t] \in Ticket \cup {NoTicket}
           /\ \A p \in Pods : sess[p] \in UpdateSession \cup ReviewSession \cup {NoSession}
  BY DEF ProfileTypeOK, UpdateSession, ReviewSession

\* A step of p that touches neither row nor memory: its session becomes s.
LEMMA ProfilePodInv ==
    ASSUME ProfileInv, NEW p \in Pods,
           NEW s \in UpdateSession \cup ReviewSession \cup {NoSession},
           sess' = [sess EXCEPT ![p] = s],
           overtaken' = overtaken \/ (s = NoSession /\ overtaken' = overtaken \ {p}),
           UNCHANGED <<profile, store, made, applied>>,
           s.op = "review" => /\ store[p][s.ticket].status = "pending"
                              /\ s.read = profile[store[p][s.ticket].field]
    PROVE  ProfileInv'
<1>1. \A q \in Pods : sess'[q] = IF q = p THEN s ELSE sess[q]
  BY DEF ProfileInv, ProfileTypeOK
<1>2. ProfileTypeOK'
  BY DEF ProfileInv, ProfileTypeOK, UpdateSession, ReviewSession
<1>3. ReviewsArePending'
  BY <1>1, ProfileTypes DEF ProfileInv, ReviewsArePending
<1>4. TicketsHaveOnePod' /\ NothingAppliedUnmade' /\ DecisionsMatchEffects'
  BY DEF ProfileInv, TicketsHaveOnePod, NothingAppliedUnmade, DecisionsMatchEffects
<1> QED BY <1>2, <1>3, <1>4 DEF ProfileInv

\* A step of p, which has no session after it, that makes r of its ticket t,
\* which was pending; applied counts it if the step commits it.
LEMMA DecideInv ==
    ASSUME ProfileInv, NEW p \in Pods, NEW t \in Tickets,
           NEW status \in {"approved", "rejected", "cancelled"},
           store[p][t].status = "pending",
           store' = Marked(p, t, status),
           sess' = [sess EXCEPT ![p] = NoSession],
           applied' = IF status = "approved" THEN [applied EXCEPT ![t] = @ + 1] ELSE applied,
           profile' \in [Fields -> Values],
           overtaken' \subseteq Pods,
           UNCHANGED made,
           \A q \in Pods \ {p} : sess[q].op = "review" /\ q \notin overtaken' =>
               q \notin overtaken /\ profile' = profile
    PROVE  ProfileInv'
<1> DEFINE r == [store[p][t] EXCEPT !.status = status]
<1>1. store[p][t] \in Ticket /\ store[p][t] # NoTicket /\ t \in made /\ applied[t] = 0
  <2>1. store[p][t] \in Ticket
    BY ProfileTypes, StoreAndSessions DEF ProfileInv
  <2>2. store[p][t] # NoTicket
    BY <2>1, ProfileTypes
  <2> QED BY <2>1, <2>2 DEF ProfileInv, TicketsHaveOnePod, DecisionsMatchEffects
<1>2. /\ r \in Ticket /\ r.status = status
      /\ r # NoTicket
  <2>1. r \in Ticket /\ r.status = status
    BY <1>1 DEF Ticket
  <2> QED BY <2>1, ProfileTypes
<1> HIDE DEF r
<1>3. /\ store' = [store EXCEPT ![p] = [@ EXCEPT ![t] = r]]
      /\ store \in [Pods -> [Tickets -> Ticket \cup {NoTicket}]]
  BY DEF Marked, ProfileInv, ProfileTypeOK, r
<1>4. \A q \in Pods, u \in Tickets : store'[q][u] = IF q = p /\ u = t THEN r ELSE store[q][u]
  BY <1>3
<1>5. \A q \in Pods : sess'[q] = IF q = p THEN NoSession ELSE sess[q]
  BY DEF ProfileInv, ProfileTypeOK
<1>6. \A u \in Tickets : /\ applied'[u] \in Nat
                         /\ u # t => applied'[u] = applied[u]
                         /\ applied'[t] = IF status = "approved" THEN 1 ELSE 0
  BY <1>1 DEF ProfileInv, ProfileTypeOK
<1>7. ProfileTypeOK'
  <2>1. store' \in [Pods -> [Tickets -> Ticket \cup {NoTicket}]]
    BY <1>2, <1>3
  <2>2. applied' \in [Tickets -> Nat]
    BY DEF ProfileInv, ProfileTypeOK
  <2> QED BY <2>1, <2>2 DEF ProfileInv, ProfileTypeOK
<1>8. TicketsHaveOnePod' /\ NothingAppliedUnmade'
  <2>1. TicketsHaveOnePod'
    BY <1>1, <1>4 DEF ProfileInv, TicketsHaveOnePod
  <2>2. NothingAppliedUnmade'
    BY <1>1, <1>6 DEF ProfileInv, NothingAppliedUnmade
  <2> QED BY <2>1, <2>2
<1>9. ReviewsArePending'
  <2> SUFFICES ASSUME NEW q \in Pods, sess'[q].op = "review"
               PROVE  LET u == store'[q][sess'[q].ticket]
                      IN  /\ u.status = "pending"
                          /\ q \notin overtaken' => sess'[q].read = profile'[u.field]
    BY DEF ReviewsArePending
  <2>1. q # p /\ sess'[q] = sess[q]
    BY <1>5, ProfileTypes
  <2>2. sess[q].ticket \in Tickets
    BY <2>1, ProfileTypes, StoreAndSessions DEF ProfileInv
  <2>3. store'[q][sess[q].ticket] = store[q][sess[q].ticket]
    BY <1>4, <2>1, <2>2
  <2> QED BY <2>1, <2>3 DEF ProfileInv, ReviewsArePending
<1>10. DecisionsMatchEffects'
  <2> SUFFICES ASSUME NEW q \in Pods, NEW u \in Tickets, store'[q][u] # NoTicket
               PROVE  applied'[u] = IF store'[q][u].status = "approved" THEN 1 ELSE 0
    BY DEF DecisionsMatchEffects
  <2>1. CASE u = t
    <3>1. q = p
      BY <1>1, <1>4, <2>1 DEF ProfileInv, TicketsHaveOnePod
    <3> QED BY <1>2, <1>4, <1>6, <2>1, <3>1
  <2>2. CASE u # t
    BY <1>4, <1>6, <2>2 DEF ProfileInv, DecisionsMatchEffects
  <2> QED BY <2>1, <2>2
<1> QED BY <1>7, <1>8, <1>9, <1>10 DEF ProfileInv

\* A new request is pending in the memory of its pod and was applied by nobody.
LEMMA SubmitInv ==
    ASSUME ProfileInv, NEW p \in Pods, NEW t \in Tickets, NEW f \in Fields, NEW v \in Values,
           Submit(p, t, f, v)
    PROVE  ProfileInv'
<1> DEFINE r == [status |-> "pending", field |-> f, new |-> v]
<1>1. /\ t \notin made /\ sess[p] = NoSession
      /\ store' = [store EXCEPT ![p] = [@ EXCEPT ![t] = r]]
      /\ made' = made \cup {t}
      /\ UNCHANGED <<profile, sess, applied, overtaken>>
  BY DEF Submit
<1>2. r \in Ticket /\ r.status = "pending" /\ r # NoTicket
  <2>1. r \in Ticket
    BY DEF Ticket
  <2> QED BY <2>1, ProfileTypes
<1> HIDE DEF r
<1>3. \A q \in Pods, u \in Tickets : store'[q][u] = IF q = p /\ u = t THEN r ELSE store[q][u]
  BY <1>1 DEF ProfileInv, ProfileTypeOK
<1>4. ProfileTypeOK'
  <2>1. store' \in [Pods -> [Tickets -> Ticket \cup {NoTicket}]]
    BY <1>1, <1>2 DEF ProfileInv, ProfileTypeOK
  <2> QED BY <1>1, <2>1 DEF ProfileInv, ProfileTypeOK
<1>5. \A q \in Pods : store[q][t] = NoTicket
  BY <1>1 DEF ProfileInv, TicketsHaveOnePod
<1>6. TicketsHaveOnePod' /\ NothingAppliedUnmade'
  BY <1>1, <1>3, <1>5 DEF ProfileInv, TicketsHaveOnePod, NothingAppliedUnmade
<1>7. ReviewsArePending'
  BY <1>1, <1>3, ProfileTypes, StoreAndSessions DEF ProfileInv, ReviewsArePending
<1>8. DecisionsMatchEffects'
  BY <1>1, <1>2, <1>3 DEF ProfileInv, NothingAppliedUnmade, DecisionsMatchEffects
<1> QED BY <1>4, <1>6, <1>7, <1>8 DEF ProfileInv

\* A commit that writes the row overtakes all other sessions.
LEMMA CommitProfileInv ==
    ASSUME ProfileInv, NEW p \in Pods, CommitUpdate(p)
    PROVE  ProfileInv'
<1>1. /\ sess[p] \in UpdateSession
      /\ CommitValue(p, sess[p].field, sess[p].read, sess[p].new)
      /\ UNCHANGED <<store, made, applied>>
  BY ProfileTypes, StoreAndSessions DEF CommitUpdate, ProfileInv
<1>2. /\ sess' = [sess EXCEPT ![p] = NoSession]
      /\ overtaken' = (overtaken \cup {q \in Pods : sess[q] # NoSession}) \ {p}
      /\ profile' \in [Fields -> Values]
  BY <1>1, ProfileTypes DEF CommitValue, ProfileInv, ProfileTypeOK
<1>3. \A q \in Pods : sess'[q] = IF q = p THEN NoSession ELSE sess[q]
  BY <1>2 DEF ProfileInv, ProfileTypeOK
<1>4. ProfileTypeOK'
  BY <1>1, <1>2 DEF ProfileInv, ProfileTypeOK
<1>5. ReviewsArePending'
  BY <1>1, <1>2, <1>3, ProfileTypes DEF ProfileInv, ReviewsArePending
<1>6. TicketsHaveOnePod' /\ NothingAppliedUnmade' /\ DecisionsMatchEffects'
  BY <1>1 DEF ProfileInv, TicketsHaveOnePod, NothingAppliedUnmade, DecisionsMatchEffects
<1> QED BY <1>4, <1>5, <1>6 DEF ProfileInv

\* The commit of a review decides the request it had read as pending.
LEMMA CommitReviewInv ==
    ASSUME ProfileInv, NEW p \in Pods, CommitReview(p)
    PROVE  ProfileInv'
<1> DEFINE t == sess[p].ticket
           r == store[p][t]
<1>1. t \in Tickets /\ r \in Ticket /\ r.status = "pending"
  <2>1. sess[p] \in ReviewSession
    BY ProfileTypes, StoreAndSessions DEF CommitReview, ProfileInv
  <2> QED BY <2>1, ProfileTypes, StoreAndSessions DEF CommitReview, ProfileInv, ReviewsArePending
<1>2. /\ store' = Marked(p, t, "approved")
      /\ applied' = [applied EXCEPT ![t] = @ + 1]
      /\ sess' = [sess EXCEPT ![p] = NoSession]
      /\ overtaken' = (overtaken \cup {q \in Pods : sess[q] # NoSession}) \ {p}
      /\ profile' = IF r.new = sess[p].read THEN profile ELSE [profile EXCEPT ![r.field] = r.new]
      /\ UNCHANGED made
  BY DEF CommitReview, CommitValue, NewValue
<1>3. profile' \in [Fields -> Values] /\ overtaken' \subseteq Pods
  BY <1>1, <1>2, ProfileTypes DEF ProfileInv, ProfileTypeOK
<1>4. \A q \in Pods \ {p} : sess[q].op = "review" => q \in overtaken'
  BY <1>2, ProfileTypes
<1> QED BY <1>1, <1>2, <1>3, <1>4, DecideInv

\* A restart forgets the requests of the pod and ends its session.
LEMMA RestartInv ==
    ASSUME ProfileInv, NEW p \in Pods, Restart(p)
    PROVE  ProfileInv'
<1> DEFINE none == [t \in Tickets |-> NoTicket]
<1>1. /\ sess' = [sess EXCEPT ![p] = NoSession]
      /\ store' = [store EXCEPT ![p] = none]
      /\ overtaken' = overtaken \ {p}
      /\ UNCHANGED <<profile, made, applied>>
  BY DEF Restart
<1>2. \A q \in Pods : /\ sess'[q] = IF q = p THEN NoSession ELSE sess[q]
                      /\ store'[q] = IF q = p THEN none ELSE store[q]
  BY <1>1 DEF ProfileInv, ProfileTypeOK
<1>3. ProfileTypeOK'
  BY <1>1 DEF ProfileInv, ProfileTypeOK
<1>4. TicketsHaveOnePod' /\ NothingAppliedUnmade'
  BY <1>1, <1>2 DEF ProfileInv, TicketsHaveOnePod, NothingAppliedUnmade
<1>5. ReviewsArePending'
  BY <1>1, <1>2, ProfileTypes DEF ProfileInv, ReviewsArePending
<1>6. DecisionsMatchEffects'
  BY <1>1, <1>2 DEF ProfileInv, DecisionsMatchEffects
<1> QED BY <1>3, <1>4, <1>5, <1>6 DEF ProfileInv

\* No step of a pod breaks the invariant.
LEMMA ProfileNextInv == ProfileInv /\ [ProfileNext]_profileVars => ProfileInv'
<1> SUFFICES ASSUME ProfileInv, [ProfileNext]_profileVars PROVE ProfileInv'
  OBVIOUS
<1>1. CASE UNCHANGED profileVars
  BY <1>1 DEF profileVars, ProfileInv, ProfileTypeOK, TicketsHaveOnePod, NothingAppliedUnmade,
              ReviewsArePending, DecisionsMatchEffects
<1> SUFFICES ASSUME NEW p \in Pods,
                    \/ \E f \in Fields, v \in Values :
                           \/ StartUpdate(p, f, v)
                           \/ \E t \in Tickets : Submit(p, t, f, v)
                    \/ \E t \in Tickets : \/ StartReview(p, t)
                                          \/ Close(p, t, "rejected") \/ Close(p, t, "cancelled")
                    \/ CommitUpdate(p) \/ CommitReview(p) \/ CommitFails(p) \/ Restart(p)
             PROVE  ProfileInv'
  BY <1>1 DEF ProfileNext
<1>2. ASSUME NEW f \in Fields, NEW v \in Values, StartUpdate(p, f, v) PROVE ProfileInv'
  <2> DEFINE s == [op |-> "update", field |-> f, new |-> v, read |-> profile[f]]
  <2>1. s \in UpdateSession
    BY DEF UpdateSession, ProfileInv, ProfileTypeOK
  <2>2. sess' = [sess EXCEPT ![p] = s] /\ UNCHANGED <<profile, store, made, applied, overtaken>>
    BY <1>2 DEF StartUpdate
  <2> HIDE DEF s
  <2> QED BY <2>1, <2>2, ProfileTypes, ProfilePodInv
<1>3. ASSUME NEW f \in Fields, NEW v \in Values, NEW t \in Tickets, Submit(p, t, f, v)
      PROVE  ProfileInv'
  BY <1>3, SubmitInv
<1>4. ASSUME NEW t \in Tickets, StartReview(p, t) PROVE ProfileInv'
  <2> DEFINE s == [op |-> "review", ticket |-> t, read |-> profile[store[p][t].field]]
  <2>1. store[p][t].status = "pending" /\ store[p][t] \in Ticket
    BY <1>4, ProfileTypes, StoreAndSessions DEF StartReview, ProfileInv
  <2>2. profile[store[p][t].field] \in Values
    BY <2>1, ProfileTypes DEF ProfileInv, ProfileTypeOK
  <2>3. s \in ReviewSession /\ s.ticket = t /\ s.read = profile[store[p][t].field]
    BY <2>2 DEF ReviewSession
  <2>4. sess' = [sess EXCEPT ![p] = s] /\ UNCHANGED <<profile, store, made, applied, overtaken>>
    BY <1>4 DEF StartReview
  <2> HIDE DEF s
  <2> QED BY <2>1, <2>3, <2>4, ProfilePodInv
<1>5. ASSUME NEW t \in Tickets, NEW status \in {"rejected", "cancelled"}, Close(p, t, status)
      PROVE  ProfileInv'
  <2>1. sess' = [sess EXCEPT ![p] = NoSession]
    BY <1>5 DEF Close, ProfileInv, ProfileTypeOK
  <2>2. profile' \in [Fields -> Values] /\ overtaken' \subseteq Pods
    BY <1>5 DEF Close, ProfileInv, ProfileTypeOK
  <2> QED BY <1>5, <2>1, <2>2, DecideInv DEF Close
<1>6. CASE CommitFails(p)
  BY <1>6, ProfileTypes, ProfilePodInv DEF CommitFails
<1> QED BY <1>2, <1>3, <1>4, <1>5, <1>6, CommitProfileInv, CommitReviewInv, RestartInv

-----------------------------------------------------------------------------
\* The inductive invariant of ProfileUpdates holds in every state of it.
THEOREM ProfileInvariance == ProfileSpec => []ProfileInv
  BY ProfileInitInv, ProfileNextInv, PTL DEF ProfileSpec

\* The variables of ProfileUpdates keep their types.
THEOREM ProfileTypeCorrect == ProfileSpec => []ProfileTypeOK
  BY ProfileInvariance, PTL DEF ProfileInv

\* Approving applies a request once, and nothing else applies it, for any number
\* of pods that fail and restart.
THEOREM ProfileDecisionsMatchEffects == ProfileSpec => []DecisionsMatchEffects
  BY ProfileInvariance, PTL DEF ProfileInv

\* "Applied" is true of the row when review_update_request() says it, unless
\* another pod wrote the row since it was read.
THEOREM ProfileApprovedValueStands == ProfileSpec => ApprovedValueStands
<1> DEFINE Stands == \A p \in Pods : CommitReview(p) /\ p \notin overtaken =>
                         LET r == store[p][sess[p].ticket] IN profile'[r.field] = r.new
<1>1. ProfileInv => Stands
  <2> SUFFICES ASSUME ProfileInv, NEW p \in Pods, CommitReview(p), p \notin overtaken
               PROVE  LET r == store[p][sess[p].ticket] IN profile'[r.field] = r.new
    OBVIOUS
  <2> DEFINE r == store[p][sess[p].ticket]
  <2>1. /\ profile' = IF r.new = sess[p].read THEN profile
                      ELSE [profile EXCEPT ![r.field] = r.new]
        /\ sess[p].op = "review"
    BY DEF CommitReview, CommitValue, NewValue
  <2>2. sess[p] \in ReviewSession
    BY <2>1, ProfileTypes, StoreAndSessions DEF ProfileInv
  <2>3. r \in Ticket /\ sess[p].read = profile[r.field]
    BY <2>1, <2>2, ProfileTypes, StoreAndSessions DEF ProfileInv, ReviewsArePending
  <2> QED BY <2>1, <2>3, ProfileTypes DEF ProfileInv, ProfileTypeOK
<1> QED BY <1>1, ProfileInvariance, PTL DEF ApprovedValueStands

-----------------------------------------------------------------------------
(* TimeOffApproval: the entries of the trail join. *)

AuditLines == [from : RequestStatus, to : RequestStatus]

\* What is decided next begins where the last entry ended.
EndsWith(log, i) == IF i = 0 THEN "pending_approval" ELSE log[i].to
BeginsWith(log, i, status) == IF i = Len(log) THEN status ELSE log[i + 1].from

TrailFitsBound == unlogged \subseteq 0..Len(auditLog) /\ Len(auditLog) <= MaxEntries

\* The trail, entry by entry
NoGaps == \A i \in 0..Len(auditLog) :
              i \notin unlogged => EndsWith(auditLog, i) = BeginsWith(auditLog, i, request.status)

WorkflowInv == WorkflowTypeOK /\ TrailFitsBound /\ NoGaps

\* A trail with its two ends is read entry by entry.
LEMMA PathSteps ==
    ASSUME NEW log \in Seq(AuditLines), NEW status, NEW path,
           path = <<[from |-> "none", to |-> "pending_approval"]>> \o log
                      \o <<[from |-> status, to |-> "none"]>>,
           NEW i \in 0..Len(log)
    PROVE  path[i + 1].to = EndsWith(log, i) /\ path[i + 2].from = BeginsWith(log, i, status)
<1> DEFINE first == [from |-> "none", to |-> "pending_approval"]
           last == [from |-> status, to |-> "none"]
           ends == AuditLines \cup {first, last}
<1>1. first.to = "pending_approval" /\ last.from = status
  OBVIOUS
<1>2. path = (<<first>> \o log) \o <<last>>
  OBVIOUS
<1> HIDE DEF first, last
<1>3. log \in Seq(ends) /\ <<first>> \in Seq(ends) /\ <<last>> \in Seq(ends)
  OBVIOUS
<1> HIDE DEF ends
<1>4. /\ <<first>> \o log \in Seq(ends) /\ Len(<<first>> \o log) = 1 + Len(log)
      /\ \A j \in 1..(1 + Len(log)) :
             (<<first>> \o log)[j] = IF j = 1 THEN first ELSE log[j - 1]
  BY <1>3, ConcatProperties
<1>5. \A j \in 1..(2 + Len(log)) :
          path[j] = IF j <= 1 + Len(log) THEN (<<first>> \o log)[j] ELSE last
  BY <1>2, <1>3, <1>4, ConcatProperties
<1>6. path[i + 1] = IF i = 0 THEN first ELSE log[i]
  BY <1>3, <1>4, <1>5
<1>7. path[i + 2] = IF i = Len(log) THEN last ELSE log[i + 1]
  BY <1>3, <1>4, <1>5
<1> QED BY <1>1, <1>6, <1>7 DEF EndsWith, BeginsWith

\* An entry from the present status to the next one leaves no gap.
LEMMA EntryInv ==
    ASSUME WorkflowInv, NEW to \in RequestStatus, request'.status = to,
           Len(auditLog) < MaxEntries,
           auditLog' = Append(auditLog, AuditLine(request.status, to)),
           unlogged' = unlogged
    PROVE  auditLog' \in Seq(AuditLines) /\ TrailFitsBound' /\ NoGaps'
<1> DEFINE entry == AuditLine(request.status, to)
<1>1. /\ auditLog \in Seq(AuditLines) /\ request.status \in RequestStatus
      /\ unlogged \subseteq 0..Len(auditLog)
  BY DEF WorkflowInv, WorkflowTypeOK, TrailFitsBound, AuditLines
<1>2. entry \in AuditLines /\ entry.from = request.status /\ entry.to = to
  BY <1>1 DEF AuditLine, AuditLines
<1> HIDE DEF entry
<1>3. auditLog' = Append(auditLog, entry)
  BY DEF entry
<1>4. /\ auditLog' \in Seq(AuditLines)
      /\ Len(auditLog') = Len(auditLog) + 1 /\ Len(auditLog) \in Nat
      /\ auditLog'[Len(auditLog) + 1] = entry
      /\ \A i \in 1..Len(auditLog) : auditLog'[i] = auditLog[i]
  BY <1>1, <1>2, <1>3
<1>5. TrailFitsBound'
  BY <1>1, <1>4, TimeOffAssumption DEF TrailFitsBound
<1>6. ASSUME NEW i \in 0..Len(auditLog'), i \notin unlogged
      PROVE  EndsWith(auditLog', i) = BeginsWith(auditLog', i, to)
  <2>1. CASE i = Len(auditLog) + 1
    BY <1>2, <1>4, <2>1 DEF EndsWith, BeginsWith
  <2>2. CASE i = Len(auditLog)
    BY <1>2, <1>4, <1>6, <2>2 DEF WorkflowInv, NoGaps, EndsWith, BeginsWith
  <2>3. CASE i < Len(auditLog)
    BY <1>4, <1>6, <2>3 DEF WorkflowInv, NoGaps, EndsWith, BeginsWith
  <2> QED BY <1>4, <2>1, <2>2, <2>3
<1> QED BY <1>4, <1>5, <1>6 DEF NoGaps

\* No decision, escalation or reorganization breaks the invariant.
LEMMA WorkflowNextInv == WorkflowInv /\ [WorkflowNext]_workflowVars => WorkflowInv'
<1> SUFFICES ASSUME WorkflowInv, [WorkflowNext]_workflowVars PROVE WorkflowInv'
  OBVIOUS
<1> DEFINE lines == [manager : Staff \cup {0}, skip : Staff \cup {0}]
           rows == [status : RequestStatus, approver : Staff \cup {HR}, level : 1..3]
<1>1. /\ request \in rows /\ line \in lines /\ auditLog \in Seq(AuditLines)
      /\ unlogged \subseteq 0..MaxEntries
  BY DEF WorkflowInv, WorkflowTypeOK, AuditLines
<1>2. ASSUME NEW who, NEW d \in DOMAIN Outcome, Decide(who, d) PROVE WorkflowInv'
  <2>1. Outcome[d] \in RequestStatus
    BY DEF Outcome, RequestStatus
  <2>2. request' \in rows /\ request'.status = Outcome[d] /\ line' \in lines
    BY <1>1, <1>2, <2>1 DEF Decide
  <2>3. auditLog' \in Seq(AuditLines) /\ TrailFitsBound' /\ NoGaps'
    BY <1>2, <2>1, <2>2, EntryInv DEF Decide
  <2> QED BY <1>1, <1>2, <2>2, <2>3 DEF Decide, WorkflowInv, WorkflowTypeOK, AuditLines
<1>3. ASSUME NEW asked \in Levels \cup {"none"}, NEW t \in Triggers, NEW fails \in BOOLEAN,
             Escalate(asked, t, fails)
      PROVE  WorkflowInv'
  <2>1. request' \in rows /\ request'.status = "escalated" /\ line' \in lines
    <3> DEFINE level == IF asked = "none" THEN Determined(request.level, t) ELSE asked
    <3>1. PICK target \in Targets(level) :
                 request' = [status |-> "escalated", approver |-> target.approver,
                             level |-> target.level]
      BY <1>3 DEF Escalate
    <3> HIDE DEF level
    <3>2. target.approver \in Staff \cup {HR} /\ target.level \in 1..3
      <4>1. CASE level = "first"
        BY <1>1, <3>1, <4>1 DEF Targets
      <4>2. CASE level = "hr"
        BY <3>1, <4>2 DEF Targets
      <4>3. CASE level \notin {"first", "hr"}
        BY <3>1, <4>3 DEF Targets
      <4> QED BY <4>1, <4>2, <4>3
    <3> QED BY <1>1, <1>3, <3>1, <3>2 DEF Escalate, RequestStatus
  <2>2. CASE fails
    <3>1. auditLog' = auditLog /\ unlogged' = unlogged \cup {Len(auditLog)}
      BY <1>3, <2>2 DEF Escalate
    <3>2. /\ Len(auditLog) \in Nat /\ Len(auditLog) <= MaxEntries
          /\ unlogged \subseteq 0..Len(auditLog)
      BY <1>1 DEF WorkflowInv, TrailFitsBound
    <3> HIDE DEF rows, lines
    <3>5. unlogged' \subseteq 0..Len(auditLog)
      <4>1. ASSUME NEW n \in Nat, NEW S, S \subseteq 0..n
            PROVE  S \cup {n} \subseteq 0..n
        BY <4>1
      <4> QED BY <3>1, <3>2, <4>1
    <3>6. unlogged' \subseteq 0..MaxEntries
      BY <3>2, <3>5, TimeOffAssumption
    <3>3. ASSUME NEW i \in 0..Len(auditLog), i \notin unlogged'
          PROVE  EndsWith(auditLog, i) = BeginsWith(auditLog, i, request'.status)
      <4>1. i # Len(auditLog) /\ i \notin unlogged
        BY <3>1, <3>3
      <4> QED BY <4>1 DEF WorkflowInv, NoGaps, BeginsWith
    <3>4. NoGaps'
      BY <3>1, <3>3 DEF NoGaps
    <3>7. TrailFitsBound'
      BY <3>1, <3>2, <3>5 DEF TrailFitsBound
    <3> QED BY <1>1, <2>1, <3>1, <3>4, <3>6, <3>7
            DEF rows, lines, WorkflowInv, WorkflowTypeOK, AuditLines
  <2>3. CASE ~fails
    <3>1. auditLog' \in Seq(AuditLines) /\ TrailFitsBound' /\ NoGaps'
      BY <1>3, <2>1, <2>3, EntryInv DEF Escalate, RequestStatus
    <3> QED BY <1>1, <1>3, <2>1, <2>3, <3>1
            DEF Escalate, WorkflowInv, WorkflowTypeOK, AuditLines
  <2> QED BY <2>2, <2>3
<1>4. ASSUME NEW l \in lines, Reorganize(l) PROVE WorkflowInv'
  BY <1>1, <1>4 DEF Reorganize, WorkflowInv, WorkflowTypeOK, TrailFitsBound, NoGaps, AuditLines
<1>5. CASE UNCHANGED workflowVars
  BY <1>5 DEF workflowVars, WorkflowInv, WorkflowTypeOK, TrailFitsBound, NoGaps
<1> QED BY <1>2, <1>3, <1>4, <1>5 DEF WorkflowNext

\* The inductive invariant of TimeOffApproval holds in every state of it.
THEOREM WorkflowInvariance == WorkflowSpec => []WorkflowInv
<1>1. WorkflowInit => WorkflowInv
  BY TimeOffAssumption DEF WorkflowInit, WorkflowInv, WorkflowTypeOK, TrailFitsBound, NoGaps,
                           RequestStatus, EndsWith, BeginsWith
<1> QED BY <1>1, WorkflowNextInv, PTL DEF WorkflowSpec

\* The variables of TimeOffApproval keep their types.
THEOREM WorkflowTypes == WorkflowSpec => []WorkflowTypeOK
  BY WorkflowInvariance, PTL DEF WorkflowInv

\* The audit trail of a request leads to its status without a gap, for trails of
\* any length, except where an escalation failed after its update.
THEOREM WorkflowTrailLeadsToStatus == WorkflowSpec => []TrailLeadsToStatus
<1>1. WorkflowInv => TrailLeadsToStatus
  <2> SUFFICES ASSUME WorkflowInv PROVE TrailLeadsToStatus
    OBVIOUS
  <2> DEFINE path == <<[from |-> "none", to |-> "pending_approval"]>> \o auditLog
                         \o <<[from |-> request.status, to |-> "none"]>>
  <2>1. auditLog \in Seq(AuditLines)
    BY DEF WorkflowInv, WorkflowTypeOK, AuditLines
  <2>2. ASSUME NEW i \in 0..Len(auditLog), i \notin unlogged
        PROVE  path[i + 1].to = path[i + 2].from
    <3>1. /\ path[i + 1].to = EndsWith(auditLog, i)
          /\ path[i + 2].from = BeginsWith(auditLog, i, request.status)
      BY <2>1, PathSteps
    <3> QED BY <2>2, <3>1 DEF WorkflowInv, NoGaps
  <2> QED BY <2>2 DEF TrailLeadsToStatus
<1> QED BY <1>1, WorkflowInvariance, PTL

-----------------------------------------------------------------------------
(* TimeOffRequests: the book of a worker holds what its present start accepted. *)

Acceptances == [request : Request, worker : Pods, start : Nat, id : Nat]

\* Of the present start of its worker, or of an earlier one
StartKnown(a) == a.start <= starts[a.worker]

\* What the present start of a worker accepted is in its book, under its id.
InItsBook(a) ==
    a.start = starts[a.worker] =>
        /\ a.id - 1000 \in DOMAIN book[a.worker]
        /\ book[a.worker][a.id - 1000] = a.request

BooksHoldAccepted == \A a \in accepted : StartKnown(a) /\ InItsBook(a)

RequestInv == RequestTypeOK /\ BooksHoldAccepted /\ BookedOnce

\* Requests of one employee that share a day overlap, as detect_conflicts() sees it.
LEMMA SharersOverlap ==
    ASSUME NEW a \in Request, NEW b \in Request, Share(a, b) \/ Share(b, a)
    PROVE  a.employee = b.employee /\ Overlap(a, b.from, b.to)
BY DEF Share, Overlap, Request

\* A request that is accepted is in conflict with none that its worker still has.
LEMMA CreateRequestInv ==
    ASSUME RequestInv, NEW w \in Pods, NEW e \in Requesters, NEW from \in 0..LastDay,
           NEW to \in 0..LastDay, CreateRequest(w, e, from, to)
    PROVE  RequestInv'
<1> DEFINE r == [employee |-> e, from |-> from, to |-> to]
           new == [request |-> r, worker |-> w, start |-> starts[w], id |-> 1001 + Len(book[w])]
<1>1. /\ book \in [Pods -> Seq(Request)] /\ starts \in [Pods -> 1..(MaxRequests + 1)]
      /\ accepted \subseteq Acceptances
  BY DEF RequestInv, RequestTypeOK, Acceptances
<1>2. r \in Request /\ r.employee = e /\ r.from = from /\ r.to = to
  BY DEF Request
<1> HIDE DEF r
<1>3. /\ new \in Acceptances /\ new.request = r /\ new.worker = w /\ new.start = starts[w]
      /\ new.id = 1001 + Len(book[w])
  BY <1>1, <1>2, RequestAssumption DEF Acceptances
<1>4. /\ book' = [book EXCEPT ![w] = Append(book[w], r)] /\ starts' = starts
      /\ accepted' = accepted \cup {new}
  BY <1>1 DEF CreateRequest, r
<1> HIDE DEF new
<1>5. RequestTypeOK'
  <2>1. book' \in [Pods -> Seq(Request)]
    BY <1>1, <1>2, <1>4
  <2> QED BY <1>1, <1>3, <1>4, <2>1 DEF RequestTypeOK, Acceptances
<1>6. /\ book'[w] = Append(book[w], r) /\ book[w] \in Seq(Request)
      /\ \A v \in Pods \ {w} : book'[v] = book[v]
  BY <1>1, <1>4
<1>7. BooksHoldAccepted'
  <2> SUFFICES ASSUME NEW a \in accepted' PROVE (StartKnown(a) /\ InItsBook(a))'
    BY DEF BooksHoldAccepted
  <2>1. CASE a = new
    BY <1>1, <1>3, <1>4, <1>6, <2>1 DEF StartKnown, InItsBook
  <2>2. CASE a \in accepted
    <3>1. StartKnown(a) /\ InItsBook(a) /\ a.worker \in Pods /\ a.id \in Nat
      BY <1>1, <2>2 DEF RequestInv, BooksHoldAccepted, Acceptances
    <3>2. CASE a.worker = w
      BY <1>2, <1>4, <1>6, <3>1, <3>2 DEF StartKnown, InItsBook
    <3>3. CASE a.worker # w
      BY <1>4, <1>6, <3>1, <3>3 DEF StartKnown, InItsBook
    <3> QED BY <3>2, <3>3
  <2> QED BY <1>4, <2>1, <2>2
<1>8. ASSUME NEW a \in accepted, a.worker = w, a.start = starts[w]
      PROVE  a.id # new.id /\ ~Share(a.request, r) /\ ~Share(r, a.request)
  <2>1. /\ a.id - 1000 \in DOMAIN book[w] /\ book[w][a.id - 1000] = a.request
        /\ a.id \in Nat /\ a.request \in Request
    BY <1>1, <1>8 DEF RequestInv, BooksHoldAccepted, InItsBook, Acceptances
  <2>2. a.id # new.id
    BY <1>3, <1>6, <2>1
  <2>3. ~(a.request.employee = e /\ Overlap(a.request, from, to))
    BY <2>1 DEF CreateRequest, Blocked
  <2> QED BY <1>2, <2>1, <2>2, <2>3, SharersOverlap
<1>9. BookedOnce'
  <2> SUFFICES ASSUME NEW a \in accepted', NEW b \in accepted', a # b,
                      a.id = b.id \/ Share(a.request, b.request),
                      a.worker = b.worker, a.start = b.start
               PROVE  FALSE
    BY DEF BookedOnce
  <2>1. CASE a \in accepted /\ b \in accepted
    BY <2>1 DEF RequestInv, BookedOnce
  <2>2. CASE a \in accepted /\ b = new
    BY <1>3, <1>8, <2>2
  <2>3. CASE a = new /\ b \in accepted
    BY <1>3, <1>8, <2>3
  <2> QED BY <1>4, <2>1, <2>2, <2>3
<1> QED BY <1>5, <1>7, <1>9 DEF RequestInv

\* A restart leaves what was accepted to earlier starts.
LEMMA RestartBookInv ==
    ASSUME RequestInv, NEW w \in Pods, RestartBook(w)
    PROVE  RequestInv'
<1>1. /\ book \in [Pods -> Seq(Request)] /\ starts \in [Pods -> 1..(MaxRequests + 1)]
      /\ accepted \subseteq Acceptances
  BY DEF RequestInv, RequestTypeOK, Acceptances
<1>2. /\ book' = [book EXCEPT ![w] = <<>>] /\ starts' = [starts EXCEPT ![w] = starts[w] + 1]
      /\ accepted' = accepted /\ starts[w] <= MaxRequests
  BY DEF RestartBook
<1>3. RequestTypeOK'
  BY <1>1, <1>2, RequestAssumption DEF RequestTypeOK, Acceptances
<1>4. BooksHoldAccepted'
  <2> SUFFICES ASSUME NEW a \in accepted PROVE (StartKnown(a) /\ InItsBook(a))'
    BY <1>2 DEF BooksHoldAccepted
  <2>1. /\ StartKnown(a) /\ InItsBook(a) /\ a.worker \in Pods /\ a.start \in Nat
        /\ starts[a.worker] \in Nat
    BY <1>1, RequestAssumption DEF RequestInv, BooksHoldAccepted, Acceptances
  <2>2. CASE a.worker = w
    BY <1>1, <1>2, <2>1, <2>2 DEF StartKnown, InItsBook
  <2>3. CASE a.worker # w
    BY <1>1, <1>2, <2>1, <2>3 DEF StartKnown, InItsBook
  <2> QED BY <2>2, <2>3
<1>5. BookedOnce'
  BY <1>2 DEF RequestInv, BookedOnce
<1> QED BY <1>3, <1>4, <1>5 DEF RequestInv

\* The inductive invariant of TimeOffRequests holds in every state of it.
THEOREM RequestInvariance == RequestSpec => []RequestInv
<1>1. RequestInit => RequestInv
  BY RequestAssumption DEF RequestInit, RequestInv, RequestTypeOK, BooksHoldAccepted, BookedOnce
<1>2. RequestInv /\ [RequestNext]_requestVars => RequestInv'
  <2> SUFFICES ASSUME RequestInv, [RequestNext]_requestVars PROVE RequestInv'
    OBVIOUS
  <2>1. CASE UNCHANGED requestVars
    BY <2>1 DEF requestVars, RequestInv, RequestTypeOK, BooksHoldAccepted, StartKnown,
                InItsBook, BookedOnce
  <2> QED BY <2>1, CreateRequestInv, RestartBookInv DEF RequestNext
<1> QED BY <1>1, <1>2, PTL DEF RequestSpec

\* The variables of TimeOffRequests keep their types.
THEOREM RequestTypes == RequestSpec => []RequestTypeOK
  BY RequestInvariance, PTL DEF RequestInv

\* One start of one worker never books a day twice for an employee and gives
\* every request an id of its own: only another worker or a restart does.
THEOREM RequestsBookedOnce == RequestSpec => []BookedOnce
  BY RequestInvariance, PTL DEF RequestInv

-----------------------------------------------------------------------------
(* ImportExecution: a job counts what the execution of its token kept. *)

\* A set of numbers that is not empty has a least one.
LEMMA LeastNumber ==
    ASSUME NEW S \in SUBSET Nat, S # {}
    PROVE  \E n \in S : \A m \in S : n <= m
<1> DEFINE less == OpToRel(<, Nat)
<1>1. PICK n \in S : \A m \in S : <<m, n>> \notin less
  <2>1. IsWellFoundedOn(less, Nat)
    BY NatLessThanWellFounded
  <2> HIDE DEF less
  <2> QED BY <2>1, WFMin, Zenon
<1>2. ASSUME NEW m \in S, ~(n <= m) PROVE <<m, n>> \in less
  BY <1>2 DEF OpToRel
<1> QED BY <1>1, <1>2

\* The good rows are some of the rows.
LEMMA GoodRows ==
    ASSUME NEW rows \in Seq(BOOLEAN)
    PROVE  /\ Good(rows) \in Nat /\ Good(rows) <= Len(rows)
           /\ (\A i \in DOMAIN rows : rows[i]) => Good(rows) = Len(rows)
<1>1. Len(rows) \in Nat /\ DOMAIN rows = 1..Len(rows)
  OBVIOUS
<1>2. IsFiniteSet(1..Len(rows)) /\ Cardinality(1..Len(rows)) = Len(rows)
  BY <1>1, FS_Interval
<1> DEFINE good == {i \in DOMAIN rows : rows[i]}
<1>3. good \in SUBSET (1..Len(rows))
  BY <1>1
<1>4. (\A i \in DOMAIN rows : rows[i]) => good = 1..Len(rows)
  BY <1>1
<1> HIDE DEF good
<1>5. IsFiniteSet(good) /\ Cardinality(good) <= Cardinality(1..Len(rows))
  BY <1>2, <1>3, FS_Subset
<1>6. Cardinality(good) \in Nat
  BY <1>5, FS_CardinalityType
<1>7. Good(rows) = Cardinality(good)
  BY DEF Good, good
<1> QED BY <1>2, <1>4, <1>5, <1>6, <1>7

\* Where a row is bad there is a first bad one, with good ones before it.
LEMMA FirstBadRow ==
    ASSUME NEW rows \in Seq(BOOLEAN), Good(rows) # Len(rows)
    PROVE  \E i \in DOMAIN rows : ~rows[i] /\ Good(SubSeq(rows, 1, i - 1)) = i - 1
<1> DEFINE bad == {i \in DOMAIN rows : ~rows[i]}
<1>1. bad \in SUBSET Nat /\ bad # {}
  BY GoodRows
<1> HIDE DEF bad
<1>2. PICK i \in bad : \A j \in bad : i <= j
  BY <1>1, LeastNumber
<1>3. i \in 1..Len(rows) /\ Len(rows) \in Nat /\ ~rows[i]
  BY DEF bad
<1> DEFINE before == SubSeq(rows, 1, i - 1)
<1>4. /\ before \in Seq(BOOLEAN) /\ Len(before) = i - 1
      /\ \A j \in 1..(i - 1) : before[j] = rows[j]
  <2>1. \A j \in 1..(i - 1) : rows[j] \in BOOLEAN
    BY <1>3
  <2> QED BY <1>3, <2>1, SubSeqProperties
<1>5. \A j \in 1..(i - 1) : rows[j]
  BY <1>2, <1>3 DEF bad
<1> HIDE DEF before
<1>6. DOMAIN before = 1..(i - 1)
  BY <1>4
<1>7. Good(before) = Len(before)
  BY <1>4, <1>5, <1>6, GoodRows
<1> QED BY <1>3, <1>4, <1>7 DEF before

\* An execution that goes through to the end has seen every row, and one that
\* stops has seen one at least.
LEMMA SeenRows ==
    ASSUME NEW rows \in Seq(BOOLEAN), NEW partial \in BOOLEAN
    PROVE  /\ Seen(rows, partial) \in Seq(BOOLEAN)
           /\ ~StopsEarly(rows, partial) => Seen(rows, partial) = rows
           /\ StopsEarly(rows, partial) => Len(Seen(rows, partial)) \in Nat \ {0}
<1>1. Good(rows) \in Nat /\ Len(rows) \in Nat /\ Good(rows) <= Len(rows)
  BY GoodRows
<1>2. CASE partial \/ Good(rows) = Len(rows)
  BY <1>1, <1>2 DEF Seen, StopsEarly
<1>3. CASE ~partial /\ Good(rows) # Len(rows)
  <2> DEFINE i == CHOOSE i \in DOMAIN rows :
                      ~rows[i] /\ Good(SubSeq(rows, 1, i - 1)) = i - 1
  <2>1. i \in DOMAIN rows
    BY <1>3, FirstBadRow
  <2>2. Seen(rows, partial) = SubSeq(rows, 1, i)
    BY <1>3 DEF Seen
  <2> HIDE DEF i
  <2>3. i \in Nat \ {0} /\ \A j \in 1..i : rows[j] \in BOOLEAN
    BY <2>1
  <2>4. SubSeq(rows, 1, i) \in Seq(BOOLEAN) /\ Len(SubSeq(rows, 1, i)) = i
    BY <2>3, SubSeqProperties
  <2> QED BY <1>1, <1>3, <2>2, <2>3, <2>4 DEF StopsEarly
<1> QED BY <1>2, <1>3

\* What an execution answers, and the job it leaves: where it has a token and
\* has not failed, it counts the rows it kept.
LEMMA Executed ==
    ASSUME NEW rows \in Seq(BOOLEAN), NEW partial \in BOOLEAN, NEW dry \in BOOLEAN,
           NEW batch \in 1..2
    PROVE  /\ Good(Seen(rows, partial)) \in Nat
           /\ Kept(rows, partial, dry, batch) \in Nat
           /\ Result(rows, partial) \in ImportStatus \ {"rolled_back"}
           /\ (~dry /\ Result(rows, partial) # "failed") =>
                  Good(Seen(rows, partial)) = Kept(rows, partial, dry, batch)
<1>1. Good(Seen(rows, partial)) \in Nat
  BY SeenRows, GoodRows
<1>2. Kept(rows, partial, dry, batch) \in Nat
  <2>1. Good(rows) \in Nat
    BY GoodRows
  <2>2. CASE StopsEarly(rows, partial)
    <3> DEFINE n == Len(Seen(rows, partial)) - 1
    <3>1. n \in Nat
      BY <2>2, SeenRows
    <3> HIDE DEF n
    <3>2. n - (n % batch) \in Nat
      <4>1. batch = 1 \/ batch = 2
        OBVIOUS
      <4>2. n % batch \in Nat /\ n % batch <= n
        BY <3>1, <4>1
      <4> QED BY <3>1, <4>2
    <3> QED BY <2>2, <3>2 DEF Kept, n
  <2> QED BY <2>1, <2>2 DEF Kept
<1>3. Result(rows, partial) \in ImportStatus \ {"rolled_back"}
  BY DEF Result, ImportStatus
<1>4. ASSUME ~dry, Result(rows, partial) # "failed"
      PROVE  Good(Seen(rows, partial)) = Kept(rows, partial, dry, batch)
  <2>1. ~StopsEarly(rows, partial)
    BY <1>4 DEF Result
  <2> QED BY <1>4, <2>1, SeenRows DEF Kept
<1> QED BY <1>1, <1>2, <1>3, <1>4

-----------------------------------------------------------------------------
Reverts == [token : Nat, count : Nat]

\* The job of a worker still has its token
Holds(w) == importJob[w] # NoJob /\ importJob[w].token # NoToken

\* The execution that made the token kept what its job counts, or failed; and
\* it was not rolled back.
JobMatchesExecution(w) ==
    Holds(w) =>
        LET n == importJob[w].token
        IN  /\ n \in DOMAIN handedOut
            /\ handedOut[n].status = "failed" \/ handedOut[n].kept = importJob[w].good
            /\ \A i \in DOMAIN reverted : reverted[i].token # n

\* A token is in one worker.
TokensApart == \A v, w \in Pods :
    Holds(v) /\ Holds(w) /\ importJob[v].token = importJob[w].token => v = w

RevertedWereHandedOut == \A i \in DOMAIN reverted : reverted[i].token \in DOMAIN handedOut

ExecutionInv == /\ ExecutionTypeOK
                /\ \A w \in Pods : JobMatchesExecution(w)
                /\ TokensApart
                /\ RevertedWereHandedOut
                /\ RevertsWhatWasKept

\* The variables of ImportExecution have their types.
LEMMA ExecutionVars ==
    ASSUME ExecutionInv
    PROVE  /\ upload \in Files \cup {NoFile}
           /\ importJob \in [Pods -> ImportJob \cup {NoJob}]
           /\ handedOut \in Seq(ExecuteResponse) /\ reverted \in Seq(Reverts)
           /\ runs = Len(handedOut) /\ runs \in Nat
BY DEF ExecutionInv, ExecutionTypeOK, Reverts

\* A new execution replaces the job of its worker, by one with a new token.
LEMMA ExecuteInv ==
    ASSUME ExecutionInv, NEW w \in Pods, NEW partial \in BOOLEAN, NEW dry \in BOOLEAN,
           NEW batch \in 1..2, Execute(w, partial, dry, batch)
    PROVE  ExecutionInv'
<1> DEFINE good == Good(Seen(upload, partial))
           token == Token(runs + 1, good, dry)
           status == Result(upload, partial)
           kept == Kept(upload, partial, dry, batch)
           new == [status |-> status, good |-> good, token |-> token]
           answer == [status |-> status, token |-> token, kept |-> kept]
<1>1. upload \in Seq(BOOLEAN)
  BY ExecutionVars, ExecutionAssumption DEF Execute
<1>2. /\ good \in Nat /\ kept \in Nat /\ status \in ImportStatus \ {"rolled_back"}
      /\ ~dry /\ status # "failed" => good = kept
  BY <1>1, Executed
<1>3. token \in {NoToken, runs + 1} /\ (token # NoToken => ~dry)
  BY DEF Token
<1>4. /\ importJob' = [importJob EXCEPT ![w] = new]
      /\ handedOut' = Append(handedOut, answer)
      /\ runs' = runs + 1 /\ upload' = upload /\ reverted' = reverted
  BY DEF Execute
<1> HIDE DEF good, token, status, kept
<1>5. /\ new \in ImportJob /\ answer \in ExecuteResponse /\ new # NoJob
      /\ new.token = token /\ new.good = good
      /\ answer.status = status /\ answer.kept = kept
  <2>1. token \in Nat
    BY <1>3, ExecutionVars DEF NoToken
  <2>2. status # "none"
    BY <1>2 DEF ImportStatus
  <2> QED BY <1>2, <2>1, <2>2 DEF ImportJob, ExecuteResponse, NoJob
<1> HIDE DEF new, answer
<1>6. /\ importJob' \in [Pods -> ImportJob \cup {NoJob}] /\ importJob'[w] = new
      /\ \A v \in Pods \ {w} : importJob'[v] = importJob[v]
  BY <1>4, <1>5, ExecutionVars
<1>7. /\ handedOut' \in Seq(ExecuteResponse) /\ DOMAIN handedOut' = 1..(runs + 1)
      /\ DOMAIN handedOut = 1..runs /\ runs \in Nat /\ Len(handedOut') = runs + 1
      /\ handedOut'[runs + 1] = answer
      /\ \A n \in 1..runs : handedOut'[n] = handedOut[n]
  BY <1>4, <1>5, ExecutionVars
<1>8. ExecutionTypeOK'
  BY <1>4, <1>6, <1>7, ExecutionVars DEF ExecutionTypeOK, Reverts
<1>9. \A i \in DOMAIN reverted : reverted[i].token \in 1..runs
  BY <1>7 DEF ExecutionInv, RevertedWereHandedOut
<1>10. ASSUME NEW v \in Pods PROVE JobMatchesExecution(v)'
  <2>1. CASE v = w
    <3> SUFFICES ASSUME Holds(w)' PROVE JobMatchesExecution(w)'
      BY <2>1 DEF JobMatchesExecution
    <3>1. token = runs + 1 /\ ~dry
      BY <1>3, <1>5, <1>6 DEF Holds
    <3> QED BY <1>2, <1>4, <1>5, <1>6, <1>7, <1>9, <3>1 DEF JobMatchesExecution
  <2>2. CASE v # w
    BY <1>4, <1>6, <1>7, <2>2 DEF ExecutionInv, JobMatchesExecution, Holds
  <2> QED BY <2>1, <2>2
<1>11. TokensApart'
  <2>1. ASSUME NEW v \in Pods \ {w}, Holds(v) PROVE importJob[v].token \in 1..runs
    BY <1>7, <2>1 DEF ExecutionInv, JobMatchesExecution
  <2> SUFFICES ASSUME NEW u \in Pods, NEW v \in Pods, u # v, Holds(u)', Holds(v)',
                      importJob'[u].token = importJob'[v].token
               PROVE  FALSE
    BY DEF TokensApart
  <2>2. CASE u = w
    BY <1>3, <1>5, <1>6, <1>7, <2>1, <2>2 DEF Holds
  <2>3. CASE v = w
    BY <1>3, <1>5, <1>6, <1>7, <2>1, <2>3 DEF Holds
  <2>4. CASE u # w /\ v # w
    BY <1>6, <2>4 DEF ExecutionInv, TokensApart, Holds
  <2> QED BY <2>2, <2>3, <2>4
<1>12. RevertedWereHandedOut' /\ RevertsWhatWasKept'
  BY <1>4, <1>7, <1>9 DEF ExecutionInv, RevertedWereHandedOut, RevertsWhatWasKept
<1> QED BY <1>8, <1>10, <1>11, <1>12 DEF ExecutionInv

\* A rollback takes the token of an execution that was not rolled back.
LEMMA RollBackImportInv ==
    ASSUME ExecutionInv, NEW w \in Pods, NEW n, RollBackImport(w, n)
    PROVE  ExecutionInv'
<1> DEFINE answer == [token |-> n, count |-> importJob[w].good]
<1>1. /\ importJob[w] \in ImportJob /\ Holds(w) /\ importJob[w].token = n
      /\ n \in Nat /\ importJob[w].good \in Nat
  BY ExecutionVars DEF RollBackImport, Holds, ImportJob
<1>2. /\ importJob' = [importJob EXCEPT ![w] = Reverted(importJob[w])]
      /\ reverted' = Append(reverted, answer)
      /\ upload' = upload /\ runs' = runs /\ handedOut' = handedOut
  BY ExecutionVars DEF RollBackImport
<1>3. Reverted(importJob[w]) \in ImportJob /\ Reverted(importJob[w]).token = NoToken
  BY <1>1 DEF Reverted, ImportJob, ImportStatus, NoToken
<1>4. answer \in Reverts /\ answer.token = n /\ answer.count = importJob[w].good
  BY <1>1 DEF Reverts
<1> HIDE DEF answer
<1>5. /\ importJob' \in [Pods -> ImportJob \cup {NoJob}]
      /\ importJob'[w].token = NoToken
      /\ \A v \in Pods \ {w} : importJob'[v] = importJob[v]
  BY <1>2, <1>3, ExecutionVars
<1>6. /\ reverted' \in Seq(Reverts) /\ Len(reverted) \in Nat
      /\ DOMAIN reverted' = 1..(Len(reverted) + 1) /\ DOMAIN reverted = 1..Len(reverted)
      /\ reverted'[Len(reverted) + 1] = answer
      /\ \A i \in 1..Len(reverted) : reverted'[i] = reverted[i]
  BY <1>2, <1>4, ExecutionVars
<1>7. ExecutionTypeOK'
  BY <1>2, <1>5, <1>6, ExecutionVars DEF ExecutionTypeOK, Reverts
<1>8. /\ n \in DOMAIN handedOut
      /\ handedOut[n].status = "failed" \/ handedOut[n].kept = importJob[w].good
      /\ \A i \in DOMAIN reverted : reverted[i].token # n
  BY <1>1 DEF ExecutionInv, JobMatchesExecution
<1>9. ASSUME NEW v \in Pods PROVE JobMatchesExecution(v)'
  <2> SUFFICES ASSUME Holds(v)' PROVE JobMatchesExecution(v)'
    BY DEF JobMatchesExecution
  <2>1. v # w
    BY <1>5 DEF Holds
  <2>2. Holds(v) /\ importJob'[v] = importJob[v]
    BY <1>5, <2>1 DEF Holds
  <2>3. importJob[v].token # n
    BY <1>1, <2>1, <2>2 DEF ExecutionInv, TokensApart
  <2>4. \A i \in DOMAIN reverted' : reverted'[i].token # importJob[v].token
    BY <1>4, <1>6, <2>2, <2>3 DEF ExecutionInv, JobMatchesExecution
  <2> QED BY <1>2, <2>2, <2>4 DEF ExecutionInv, JobMatchesExecution
<1>10. TokensApart'
  BY <1>5 DEF ExecutionInv, TokensApart, Holds
<1>11. RevertedWereHandedOut'
  BY <1>2, <1>4, <1>6, <1>8 DEF ExecutionInv, RevertedWereHandedOut
<1>12. RevertsWhatWasKept'
  <2>1. ASSUME NEW i \in DOMAIN reverted', NEW j \in DOMAIN reverted',
               reverted'[i].token = reverted'[j].token
        PROVE  i = j
    BY <1>4, <1>6, <1>8, <2>1 DEF ExecutionInv, RevertsWhatWasKept
  <2>2. ASSUME NEW i \in DOMAIN reverted'
        PROVE  \/ handedOut'[reverted'[i].token].status = "failed"
               \/ reverted'[i].count = handedOut'[reverted'[i].token].kept
    BY <1>2, <1>4, <1>6, <1>8 DEF ExecutionInv, RevertsWhatWasKept
  <2> QED BY <2>1, <2>2 DEF RevertsWhatWasKept
<1> QED BY <1>7, <1>9, <1>10, <1>11, <1>12 DEF ExecutionInv

\* No step of a worker breaks the invariant.
LEMMA ExecutionNextInv == ExecutionInv /\ [ExecutionNext]_executionVars => ExecutionInv'
<1> SUFFICES ASSUME ExecutionInv, [ExecutionNext]_executionVars PROVE ExecutionInv'
  OBVIOUS
<1> USE DEF JobMatchesExecution, Holds, TokensApart, RevertedWereHandedOut, RevertsWhatWasKept
<1>1. ASSUME NEW f \in Files, UploadFile(f) PROVE ExecutionInv'
  BY <1>1 DEF UploadFile, ExecutionInv, ExecutionTypeOK
<1>2. CASE CancelUpload
  BY <1>2 DEF CancelUpload, ExecutionInv, ExecutionTypeOK
<1>3. ASSUME NEW w \in Pods, RestartWorker(w) PROVE ExecutionInv'
  <2>1. /\ importJob' \in [Pods -> ImportJob \cup {NoJob}] /\ importJob'[w] = NoJob
        /\ \A v \in Pods \ {w} : importJob'[v] = importJob[v]
    BY <1>3, ExecutionVars DEF RestartWorker
  <2>2. ExecutionTypeOK'
    BY <1>3, <2>1 DEF RestartWorker, ExecutionInv, ExecutionTypeOK
  <2> QED BY <1>3, <2>1, <2>2 DEF RestartWorker, ExecutionInv
<1>4. CASE UNCHANGED executionVars
  BY <1>4 DEF executionVars, ExecutionInv, ExecutionTypeOK
<1> QED BY <1>1, <1>2, <1>3, <1>4, ExecuteInv, RollBackImportInv DEF ExecutionNext

\* The inductive invariant of ImportExecution holds in every state of it.
THEOREM ExecutionInvariance == ExecutionSpec => []ExecutionInv
<1>1. ExecutionInit => ExecutionInv
  <2> SUFFICES ASSUME ExecutionInit PROVE ExecutionInv
    OBVIOUS
  <2>1. \A w \in Pods : ~Holds(w)
    BY DEF ExecutionInit, Holds
  <2>2. ExecutionTypeOK /\ reverted = <<>> /\ DOMAIN reverted = {}
    BY DEF ExecutionInit, ExecutionTypeOK
  <2> QED BY <2>1, <2>2 DEF ExecutionInv, JobMatchesExecution, TokensApart,
                            RevertedWereHandedOut, RevertsWhatWasKept
<1> QED BY <1>1, ExecutionNextInv, PTL DEF ExecutionSpec

\* The variables of ImportExecution keep their types.
THEOREM ExecutionTypes == ExecutionSpec => []ExecutionTypeOK
  BY ExecutionInvariance, PTL DEF ExecutionInv

\* No execution is rolled back twice, by whichever worker, and the count of a
\* rollback is what its execution kept, unless that execution failed.
THEOREM ExecutionRevertsWhatWasKept == ExecutionSpec => []RevertsWhatWasKept
  BY ExecutionInvariance, PTL DEF ExecutionInv

-----------------------------------------------------------------------------
(* TokenBucket: what the tasks may still send. *)

\* Products of integers are distributed, and keep the order.
LEMMA Products ==
    \A a, b, c \in Int : /\ a * c \in Int
                         /\ (a + b) * c = a * c + b * c
                         /\ c * (a + b) = c * a + c * b
                         /\ a <= b /\ 0 <= c => a * c <= b * c
OBVIOUS

\* A number is its quotient and its remainder, and is so in one way only.
LEMMA Division ==
    \A m, g \in Nat : g > 0 => /\ m % g \in 0..(g - 1) /\ m \div g \in Nat
                               /\ m = g * (m \div g) + (m % g)
OBVIOUS

\* The remainder of a multiple and a little
LEMMA Remainder ==
    \A q, r, g \in Int : g > 0 /\ 0 <= r /\ r < g => (g * q + r) % g = r
OBVIOUS

\* What a token less, and a unit more, leave as a remainder
LEMMA RemainderSteps ==
    ASSUME NEW m \in Nat, NEW g \in Nat, g > 0
    PROVE  /\ m >= g => (m - g) % g = m % g
           /\ (m + 1) % g = IF m % g = g - 1 THEN 0 ELSE (m % g) + 1
<1> DEFINE q == m \div g
           r == m % g
<1>1. r \in 0..(g - 1) /\ q \in Nat /\ m = g * q + r
  BY Division
<1> HIDE DEF q, r
<1>2. g * q \in Int /\ g * (q - 1) \in Int /\ g * (q + 1) \in Int
  BY <1>1
<1>3. g * (q - 1) = g * q - g /\ g * (q + 1) = g * q + g
  BY <1>1
<1>4. (m - g) % g = r
  <2>1. m - g = g * (q - 1) + r
    BY <1>1, <1>2, <1>3
  <2>2. (g * (q - 1) + r) % g = r
    BY <1>1, Remainder
  <2> QED BY <2>1, <2>2
<1>5. CASE r = g - 1
  <2>1. m + 1 = g * (q + 1) + 0
    BY <1>1, <1>2, <1>3, <1>5
  <2>2. (g * (q + 1) + 0) % g = 0
    BY <1>1, Remainder
  <2> QED BY <1>4, <1>5, <2>1, <2>2 DEF r
<1>6. CASE r # g - 1
  <2>1. m + 1 = g * q + (r + 1) /\ r + 1 \in Int /\ 0 <= r + 1 /\ r + 1 < g
    BY <1>1, <1>2, <1>6
  <2>2. (g * q + (r + 1)) % g = r + 1
    BY <1>1, <2>1, Remainder
  <2> QED BY <1>4, <1>6, <2>1, <2>2 DEF r
<1> QED BY <1>5, <1>6

-----------------------------------------------------------------------------
\* The tasks whose sleep is over and that have not gone on
Overdue == {s \in Senders : wakes[s] <= now}

\* What can still be sent without a refill: a token of the bucket each, and one
\* for each task that will send whatever it finds.
Surplus(held, overdue) ==
    held + overdue * Grain + (Cardinality(Senders) - 1) * (held % Grain)
         - (IF overdue = Cardinality(Senders) /\ held >= Grain THEN Grain ELSE 0)

WithinShares ==
    sent * Grain + Surplus(Refilled, Cardinality(Overdue))
        <= Capacity + Cardinality(Senders) * now
               + (Cardinality(Senders) - 1) * (Capacity % Grain)

\* While a task sleeps the bucket holds less than a token, and a token when the
\* sleep is over.
SleepersWaitForAToken ==
    \A s \in Senders : wakes[s] # Awake /\ now < wakes[s] =>
        Refilled < Grain /\ Refilled = Grain - (wakes[s] - now)

BucketInv == /\ BucketTypeOK
             /\ last_update <= now
             /\ Capacity >= Grain => SleepersWaitForAToken /\ WithinShares

\* The variables have their types, and the bucket holds what fits.
LEMMA BucketVars ==
    ASSUME BucketInv
    PROVE  /\ now \in Nat /\ tokens \in Nat /\ last_update \in Nat /\ sent \in Nat
           /\ wakes \in [Senders -> 0..Awake] /\ Awake \in Nat
           /\ Grain \in Nat /\ Grain > 0 /\ Capacity \in Nat /\ Capacity > 0
           /\ MaxTime \in Nat /\ now <= MaxTime /\ tokens <= Capacity /\ last_update <= now
           /\ Refilled \in Nat /\ Refilled <= Capacity
           /\ now < Awake
BY BucketAssumption DEF BucketInv, BucketTypeOK, Refilled, Smaller, Awake

\* The numbers of tasks
LEMMA TaskCounts ==
    ASSUME NEW S \in SUBSET Senders
    PROVE  /\ Cardinality(Senders) \in Nat \ {0}
           /\ IsFiniteSet(S) /\ Cardinality(S) \in Nat /\ Cardinality(S) <= Cardinality(Senders)
           /\ S # Senders => Cardinality(S) # Cardinality(Senders)
           /\ \A s \in S : Cardinality(S \ {s}) = Cardinality(S) - 1
           /\ Cardinality(S) = 0 <=> S = {}
<1>1. IsFiniteSet(Senders) /\ Senders # {}
  BY BucketAssumption
<1>2. Cardinality(Senders) \in Nat /\ Cardinality(Senders) # 0
  BY <1>1, FS_CardinalityType, FS_EmptySet
<1>3. IsFiniteSet(S) /\ Cardinality(S) <= Cardinality(Senders)
  BY <1>1, FS_Subset
<1>4. Cardinality(S) \in Nat /\ (Cardinality(S) = 0 <=> S = {})
  BY <1>3, FS_CardinalityType, FS_EmptySet
<1>5. \A s \in S : Cardinality(S \ {s}) = Cardinality(S) - 1
  BY <1>3, FS_RemoveElement
<1>6. S # Senders => Cardinality(S) # Cardinality(Senders)
  BY <1>1, FS_Subset
<1> QED BY <1>2, <1>3, <1>4, <1>5, <1>6
\* The surplus after a token was taken, by a task that did not sleep or by one
\* that did, and when a woken task finds none
LEMMA SurplusTaken ==
    ASSUME Grain \in Nat, Grain > 0, NEW held \in Nat, NEW k \in Nat,
           Cardinality(Senders) \in Nat \ {0}
    PROVE  /\ held >= Grain /\ k # Cardinality(Senders) =>
                  Surplus(held - Grain, k) = Surplus(held, k) - Grain
           /\ held >= Grain /\ k > 0 /\ k <= Cardinality(Senders) =>
                  Surplus(held - Grain, k - 1) <= Surplus(held, k) - Grain
           /\ held < Grain /\ k > 0 =>
                  Surplus(held, k - 1) = Surplus(held, k) - Grain
<1> DEFINE n == Cardinality(Senders)
           waits == k * Grain
           waits1 == (k - 1) * Grain
           rest == (n - 1) * (held % Grain)
<1>1. waits \in Int /\ waits1 = waits - Grain
  OBVIOUS
<1>2. held % Grain \in Int /\ rest \in Int
  BY Division, Products
<1>3. held >= Grain => (held - Grain) % Grain = held % Grain
  BY RemainderSteps
<1>4. Surplus(held, k) = held + waits + rest - (IF k = n /\ held >= Grain THEN Grain ELSE 0)
  BY DEF Surplus
<1>5. held >= Grain =>
          /\ Surplus(held - Grain, k) = (held - Grain) + waits + rest
                 - (IF k = n /\ held - Grain >= Grain THEN Grain ELSE 0)
          /\ Surplus(held - Grain, k - 1) = (held - Grain) + waits1 + rest
                 - (IF k - 1 = n /\ held - Grain >= Grain THEN Grain ELSE 0)
  BY <1>3 DEF Surplus
<1>6. Surplus(held, k - 1) = held + waits1 + rest
                 - (IF k - 1 = n /\ held >= Grain THEN Grain ELSE 0)
  BY DEF Surplus
<1> HIDE DEF waits, waits1, rest
<1> QED BY <1>1, <1>2, <1>4, <1>5, <1>6

\* A unit more: nobody wakes, or those who waited for it do.
LEMMA SurplusRefilled ==
    ASSUME Grain \in Nat, Grain > 0, NEW held \in Nat, NEW k \in Nat, NEW l \in Nat,
           Cardinality(Senders) \in Nat \ {0}, l <= Cardinality(Senders),
           l = k \/ (l > k /\ held = Grain - 1)
    PROVE  Surplus(held + 1, l) <= Surplus(held, k) + Cardinality(Senders)
<1> DEFINE n == Cardinality(Senders)
           before == held % Grain
           after == (held + 1) % Grain
<1>1. before \in 0..(Grain - 1) /\ after \in 0..(Grain - 1)
  BY Division
<1>2. after = IF before = Grain - 1 THEN 0 ELSE before + 1
  BY RemainderSteps
<1>3. /\ Surplus(held, k) = held + k * Grain + (n - 1) * before
                              - (IF k = n /\ held >= Grain THEN Grain ELSE 0)
      /\ Surplus(held + 1, l) = held + 1 + l * Grain + (n - 1) * after
                              - (IF l = n /\ held + 1 >= Grain THEN Grain ELSE 0)
  BY DEF Surplus
<1>4. held = Grain - 1 => before = Grain - 1
  BY Remainder
<1> HIDE DEF before, after
<1>5. /\ (n - 1) * before \in Int /\ (n - 1) * after \in Int
      /\ k * Grain \in Int /\ l * Grain \in Int
  BY <1>1, Products
<1>6. CASE l = k
  <2>1. (n - 1) * after <= (n - 1) * before + (n - 1)
    <3>1. CASE before = Grain - 1
      <4>1. (n - 1) * after = 0
        BY <1>2, <3>1
      <4>2. (n - 1) * before >= 0
        BY <1>1, Products
      <4> QED BY <1>5, <4>1, <4>2
    <3>2. CASE before # Grain - 1
      <4>1. (n - 1) * (before + 1) = (n - 1) * before + (n - 1)
        BY <1>1
      <4> QED BY <1>2, <1>5, <3>2, <4>1
    <3> QED BY <3>1, <3>2
  <2> QED BY <1>3, <1>5, <1>6, <2>1
<1>7. CASE l > k /\ held = Grain - 1
  <2>1. after = 0 /\ before = Grain - 1
    BY <1>2, <1>4, <1>7
  <2>2. (n - 1) * after = 0
    BY <2>1
  <2>3. (n - 1) * before = (n - 1) * Grain - (n - 1)
    BY <2>1
  <2>4. l * Grain - k * Grain <= (IF l = n THEN n * Grain ELSE (n - 1) * Grain)
    <3>1. l - k <= n /\ (l # n => l - k <= n - 1)
      OBVIOUS
    <3>2. (l - k) * Grain = l * Grain - k * Grain
      OBVIOUS
    <3>3. (l - k) * Grain <= n * Grain
      BY <3>1, Products
    <3>4. l # n => (l - k) * Grain <= (n - 1) * Grain
      BY <3>1, Products
    <3> QED BY <3>2, <3>3, <3>4
  <2>5. (n - 1) * Grain \in Int /\ n * Grain = (n - 1) * Grain + Grain
    OBVIOUS
  <2> QED BY <1>3, <1>5, <1>7, <2>2, <2>3, <2>4, <2>5
<1> QED BY <1>6, <1>7
\* The surplus is not negative.
LEMMA SurplusPositive ==
    ASSUME Grain \in Nat, Grain > 0, NEW held \in Nat, NEW k \in Nat,
           Cardinality(Senders) \in Nat \ {0}
    PROVE  Surplus(held, k) \in Int /\ Surplus(held, k) >= 0
<1> DEFINE rest == held % Grain
<1>1. rest \in 0..(Grain - 1)
  BY Division
<1>2. Surplus(held, k) = held + k * Grain + (Cardinality(Senders) - 1) * rest
          - (IF k = Cardinality(Senders) /\ held >= Grain THEN Grain ELSE 0)
  BY DEF Surplus
<1> HIDE DEF rest
<1>3. /\ k * Grain \in Int /\ k * Grain >= 0
      /\ (Cardinality(Senders) - 1) * rest \in Int
      /\ (Cardinality(Senders) - 1) * rest >= 0
  BY <1>1, Products
<1> QED BY <1>2, <1>3

\* A task that finds a token at once
LEMMA TakeNowInv ==
    ASSUME BucketInv, NEW s \in Senders, TakeNow(s)
    PROVE  BucketInv'
<1>1. /\ wakes' = wakes /\ now' = now /\ sent' = sent + 1 /\ last_update' = now
      /\ tokens' = Refilled - Grain /\ Refilled >= Grain /\ wakes[s] = Awake
  BY BucketVars DEF TakeNow, Acquire
<1>2. Refilled' = Refilled - Grain
  BY <1>1, BucketVars DEF Refilled, Smaller
<1>3. BucketTypeOK' /\ (last_update <= now)'
  BY <1>1, BucketVars DEF BucketInv, BucketTypeOK, Awake
<1>4. ASSUME Capacity >= Grain PROVE SleepersWaitForAToken' /\ WithinShares'
  <2>1. SleepersWaitForAToken'
    BY <1>1, <1>4, BucketVars DEF BucketInv, SleepersWaitForAToken, Awake
  <2>2. Overdue \in SUBSET Senders /\ Overdue # Senders /\ Overdue' = Overdue
    BY <1>1, BucketVars DEF Overdue, Awake
  <2>3. Cardinality(Overdue) \in Nat /\ Cardinality(Overdue) # Cardinality(Senders)
    BY <2>2, TaskCounts
  <2>4. Surplus(Refilled - Grain, Cardinality(Overdue))
            = Surplus(Refilled, Cardinality(Overdue)) - Grain
    BY <1>1, <2>2, <2>3, BucketVars, SurplusTaken, TaskCounts
  <2>5. (sent + 1) * Grain = sent * Grain + Grain /\ sent * Grain \in Int
    BY BucketVars, Products
  <2>6. Surplus(Refilled, Cardinality(Overdue)) \in Int
    BY <2>2, <2>3, BucketVars, SurplusPositive, TaskCounts
  <2>7. (sent + 1) * Grain + Surplus(Refilled - Grain, Cardinality(Overdue))
            = sent * Grain + Surplus(Refilled, Cardinality(Overdue))
    BY <2>4, <2>5, <2>6, BucketVars
  <2> QED BY <1>1, <1>2, <1>4, <2>1, <2>2, <2>7 DEF BucketInv, WithinShares, Awake
<1> QED BY <1>3, <1>4 DEF BucketInv

\* A task that has to sleep for the rest of a token
LEMMA FallAsleepInv ==
    ASSUME BucketInv, NEW s \in Senders, FallAsleep(s)
    PROVE  BucketInv'
<1>1. /\ wakes' = [wakes EXCEPT ![s] = now + (Grain - Refilled)] /\ now' = now /\ sent' = sent
      /\ tokens' = Refilled /\ last_update' = now /\ Refilled < Grain /\ wakes[s] = Awake
  BY BucketVars DEF FallAsleep, Acquire
<1>2. Refilled' = Refilled
  BY <1>1, BucketVars DEF Refilled, Smaller
<1>3. wakes' \in [Senders -> 0..Awake]
  BY <1>1, BucketVars DEF Awake
<1>4. BucketTypeOK' /\ (last_update <= now)'
  BY <1>1, <1>3, BucketVars DEF BucketInv, BucketTypeOK, Awake
<1>5. ASSUME Capacity >= Grain PROVE SleepersWaitForAToken' /\ WithinShares'
  <2>1. SleepersWaitForAToken'
    <3> SUFFICES ASSUME NEW t \in Senders, wakes'[t] # Awake, now < wakes'[t]
                 PROVE  Refilled < Grain /\ Refilled = Grain - (wakes'[t] - now)
      BY <1>1, <1>2 DEF SleepersWaitForAToken, Awake
    <3>1. CASE t = s
      BY <1>1, <3>1, BucketVars
    <3>2. CASE t # s
      BY <1>1, <1>5, <3>2, BucketVars DEF BucketInv, SleepersWaitForAToken
    <3> QED BY <3>1, <3>2
  <2>2. Overdue' = Overdue
    BY <1>1, BucketVars DEF Overdue
  <2> QED BY <1>1, <1>2, <1>5, <2>1, <2>2 DEF BucketInv, WithinShares
<1> QED BY <1>4, <1>5 DEF BucketInv

\* A task whose sleep is over, with a token or without one
LEMMA WakeUpInv ==
    ASSUME BucketInv, NEW s \in Senders, WakeUp(s)
    PROVE  BucketInv'
<1> DEFINE left == IF Refilled >= Grain THEN Refilled - Grain ELSE Refilled
<1>1. /\ wakes' = [wakes EXCEPT ![s] = Awake] /\ now' = now /\ sent' = sent + 1
      /\ tokens' = left /\ last_update' = now /\ wakes[s] <= now
  BY DEF WakeUp, Acquire
<1>2. Refilled' = left /\ left \in Nat /\ left <= Capacity
  BY <1>1, BucketVars DEF Refilled, Smaller
<1>3. wakes' \in [Senders -> 0..Awake]
  BY <1>1, BucketVars
<1>4. BucketTypeOK' /\ (last_update <= now)'
  BY <1>1, <1>2, <1>3, BucketVars DEF BucketInv, BucketTypeOK, Awake
<1>5. ASSUME Capacity >= Grain PROVE SleepersWaitForAToken' /\ WithinShares'
  <2>1. SleepersWaitForAToken'
    <3> SUFFICES ASSUME NEW t \in Senders, wakes'[t] # Awake, now < wakes'[t]
                 PROVE  left < Grain /\ left = Grain - (wakes'[t] - now)
      BY <1>1, <1>2 DEF SleepersWaitForAToken, Awake
    <3>1. t # s /\ wakes'[t] = wakes[t]
      BY <1>1, BucketVars
    <3>2. Refilled < Grain /\ Refilled = Grain - (wakes[t] - now)
      BY <1>5, <3>1 DEF BucketInv, SleepersWaitForAToken
    <3> QED BY <3>1, <3>2, BucketVars
  <2>2. Overdue \in SUBSET Senders /\ s \in Overdue /\ Overdue' = Overdue \ {s}
    BY <1>1, BucketVars DEF Overdue
  <2> DEFINE k == Cardinality(Overdue)
  <2>3. /\ k \in Nat /\ k <= Cardinality(Senders) /\ k > 0 /\ Cardinality(Overdue \ {s}) = k - 1
        /\ Cardinality(Senders) \in Nat \ {0}
    BY <2>2, TaskCounts
  <2> HIDE DEF k
  <2>4. Surplus(left, k - 1) <= Surplus(Refilled, k) - Grain
    <3>1. CASE Refilled >= Grain
      BY <2>3, <3>1, BucketVars, SurplusTaken
    <3>2. CASE ~(Refilled >= Grain)
      <4>1. Surplus(Refilled, k - 1) = Surplus(Refilled, k) - Grain
        BY <2>3, <3>2, BucketVars, SurplusTaken
      <4> QED BY <2>3, <3>2, <4>1, BucketVars, SurplusPositive
    <3> QED BY <3>1, <3>2
  <2>5. (sent + 1) * Grain = sent * Grain + Grain /\ sent * Grain \in Int
    BY BucketVars, Products
  <2>6. Surplus(Refilled, k) \in Int /\ Surplus(left, k - 1) \in Int
    <3>1. k - 1 \in Nat
      BY <2>3
    <3> HIDE DEF left
    <3>2. Surplus(left, k - 1) \in Int
      BY <1>2, <2>3, <3>1, BucketVars, SurplusPositive
    <3> QED BY <2>3, <3>2, BucketVars, SurplusPositive
  <2>7. (sent + 1) * Grain + Surplus(left, k - 1) <= sent * Grain + Surplus(Refilled, k)
    BY <2>4, <2>5, <2>6, BucketVars
  <2> DEFINE bound == Capacity + Cardinality(Senders) * now
                          + (Cardinality(Senders) - 1) * (Capacity % Grain)
  <2>8. bound \in Int
    BY <2>3, BucketVars, Division, Products
  <2>9. sent * Grain + Surplus(Refilled, k) <= bound
    BY <1>5 DEF BucketInv, WithinShares, k
  <2>10. (sent + 1) * Grain \in Int
    BY <2>5, BucketVars
  <2> HIDE DEF bound, left
  <2>11. (sent + 1) * Grain + Surplus(left, k - 1) <= bound
    BY <2>5, <2>6, <2>7, <2>8, <2>9, <2>10
  <2>12. WithinShares'
    BY <1>1, <1>2, <2>2, <2>3, <2>11 DEF WithinShares, bound
  <2> QED BY <2>1, <2>12
<1> QED BY <1>4, <1>5 DEF BucketInv

\* Time passes: a unit of the refill for each task
LEMMA BucketTickInv ==
    ASSUME BucketInv, BucketTick
    PROVE  BucketInv'
<1>1. /\ wakes' = wakes /\ now' = now + 1 /\ sent' = sent /\ now < MaxTime
      /\ tokens' = tokens /\ last_update' = last_update
  BY DEF BucketTick
<1>2. \/ Refilled' = Refilled + 1
      \/ Refilled' = Refilled /\ Refilled = Capacity
  BY <1>1, BucketVars DEF Refilled, Smaller
<1>3. BucketTypeOK' /\ (last_update <= now)'
  BY <1>1, BucketVars DEF BucketInv, BucketTypeOK, Awake
<1>4. ASSUME Capacity >= Grain PROVE SleepersWaitForAToken' /\ WithinShares'
  <2>1. SleepersWaitForAToken'
    <3> SUFFICES ASSUME NEW s \in Senders, wakes[s] # Awake, now + 1 < wakes[s]
                 PROVE  Refilled' < Grain /\ Refilled' = Grain - (wakes[s] - (now + 1))
      BY <1>1 DEF SleepersWaitForAToken, Awake
    <3>1. Refilled < Grain /\ Refilled = Grain - (wakes[s] - now) /\ wakes[s] \in Nat
      BY <1>4, BucketVars DEF BucketInv, SleepersWaitForAToken
    <3> QED BY <1>2, <1>4, <3>1, BucketVars
  <2> DEFINE k == Cardinality(Overdue)
             l == Cardinality(Overdue')
             n == Cardinality(Senders)
  <2>2. /\ Overdue \in SUBSET Senders /\ Overdue' \in SUBSET Senders
        /\ Overdue \subseteq Overdue'
    BY <1>1, BucketVars DEF Overdue
  <2>3. /\ k \in Nat /\ l \in Nat /\ n \in Nat \ {0} /\ l <= n
        /\ l = k \/ (l > k /\ \E s \in Overdue' : s \notin Overdue)
    <3>1. IsFiniteSet(Overdue') /\ l \in Nat /\ l <= n /\ n \in Nat \ {0}
      BY <2>2, TaskCounts
    <3>2. k <= l /\ k \in Nat
      BY <2>2, <3>1, TaskCounts, FS_Subset
    <3>3. l # k => \E s \in Overdue' : s \notin Overdue
      BY <2>2
    <3> HIDE DEF k, l, n
    <3> QED BY <3>1, <3>2, <3>3
  <2> HIDE DEF l, k, n
  <2>4. (\E s \in Overdue' : s \notin Overdue) => Refilled = Grain - 1
    BY <1>1, <1>4, BucketVars DEF BucketInv, SleepersWaitForAToken, Overdue, Awake
  <2>5. Surplus(Refilled', l) <= Surplus(Refilled, k) + n
    <3>1. CASE Refilled' = Refilled + 1
      BY <2>3, <2>4, <3>1, BucketVars, SurplusRefilled DEF n
    <3>2. CASE Refilled' = Refilled /\ Refilled = Capacity
      <4>1. l = k
        BY <1>4, <2>3, <2>4, <3>2, BucketVars
      <4> QED BY <2>3, <3>2, <4>1, BucketVars, SurplusPositive DEF n
    <3> QED BY <1>2, <3>1, <3>2
  <2>6. n * (now + 1) = n * now + n /\ n * now \in Int
    BY <2>3, BucketVars, Products
  <2>7. /\ sent * Grain \in Int /\ Surplus(Refilled, k) \in Int
        /\ Refilled' \in Nat /\ (n - 1) * (Capacity % Grain) \in Int
    <3>1. Refilled' \in Nat /\ sent * Grain \in Int
      BY <1>2, BucketVars, Products
    <3>2. Surplus(Refilled, k) \in Int
      BY <2>3, BucketVars, SurplusPositive DEF n
    <3>3. Capacity % Grain \in Int /\ n - 1 \in Int
      BY <2>3, BucketVars, Division
    <3> QED BY <3>1, <3>2, <3>3, Products
  <2>8. Surplus(Refilled', l) \in Int
    BY <2>3, <2>7, BucketVars, SurplusPositive DEF n
  <2>9. sent * Grain + Surplus(Refilled, k)
            <= Capacity + n * now + (n - 1) * (Capacity % Grain)
    BY <1>4 DEF BucketInv, WithinShares, n, k
  <2>10. sent * Grain + Surplus(Refilled', l)
            <= Capacity + n * (now + 1) + (n - 1) * (Capacity % Grain)
    BY <2>3, <2>5, <2>6, <2>7, <2>8, <2>9, BucketVars
  <2>11. WithinShares'
    BY <1>1, <2>10 DEF WithinShares, n, l
  <2> QED BY <2>1, <2>11
<1> QED BY <1>3, <1>4 DEF BucketInv

\* The inductive invariant of TokenBucket holds in every state of it.
THEOREM BucketInvariance == BucketSpec => []BucketInv
<1>1. BucketInit => BucketInv
  <2> SUFFICES ASSUME BucketInit PROVE BucketInv
    OBVIOUS
  <2>1. Grain \in Nat /\ Grain > 0 /\ Capacity \in Nat /\ MaxTime \in Nat /\ Awake \in Nat
    BY BucketAssumption DEF Awake
  <2>2. BucketTypeOK /\ last_update <= now /\ Refilled = Capacity /\ sent = 0 /\ now = 0
    BY <2>1 DEF BucketInit, BucketTypeOK, Refilled, Smaller
  <2>3. SleepersWaitForAToken
    BY DEF BucketInit, SleepersWaitForAToken
  <2>4. Overdue \in SUBSET Senders /\ Overdue = {}
    BY <2>1, BucketAssumption DEF BucketInit, Overdue, Awake
  <2>5. Cardinality(Senders) \in Nat \ {0} /\ Cardinality(Overdue) = 0
    BY <2>4, TaskCounts
  <2>6. Surplus(Capacity, 0) = Capacity + (Cardinality(Senders) - 1) * (Capacity % Grain)
    <3> DEFINE rest == (Cardinality(Senders) - 1) * (Capacity % Grain)
    <3>1. rest \in Int /\ 0 * Grain = 0
      BY <2>1, <2>5, Division, Products
    <3>2. Surplus(Capacity, 0) = Capacity + 0 * Grain + rest - 0
      BY <2>5 DEF Surplus
    <3> HIDE DEF rest
    <3>3. Surplus(Capacity, 0) = Capacity + rest
      BY <2>1, <3>1, <3>2
    <3> QED BY <3>3 DEF rest
  <2>7. WithinShares
    <3>1. sent * Grain = 0 /\ Cardinality(Senders) * now = 0
      BY <2>1, <2>2, <2>5
    <3>2. (Cardinality(Senders) - 1) * (Capacity % Grain) \in Int
      BY <2>1, <2>5, Division, Products
    <3> QED BY <2>1, <2>2, <2>5, <2>6, <3>1, <3>2 DEF WithinShares
  <2> QED BY <2>2, <2>3, <2>7 DEF BucketInv
<1>2. BucketInv /\ [BucketNext]_bucketVars => BucketInv'
  <2> SUFFICES ASSUME BucketInv, [BucketNext]_bucketVars PROVE BucketInv'
    OBVIOUS
  <2>1. CASE UNCHANGED bucketVars
    BY <2>1 DEF bucketVars, BucketInv, BucketTypeOK, SleepersWaitForAToken, WithinShares,
                Overdue, Refilled, Awake
  <2> QED BY <2>1, TakeNowInv, FallAsleepInv, WakeUpInv, BucketTickInv DEF BucketNext
<1> QED BY <1>1, <1>2, PTL DEF BucketSpec

\* The variables of TokenBucket keep their types.
THEOREM BucketTypes == BucketSpec => []BucketTypeOK
  BY BucketInvariance, PTL DEF BucketInv

\* The tasks that share the limiter send no more than what the bucket held and
\* the refill rate once for each of them, however many they are.
THEOREM BucketSentWithinShares == BucketSpec => []SentWithinShares
<1>1. BucketInv => SentWithinShares
  <2> SUFFICES ASSUME BucketInv, Capacity >= Grain
               PROVE  sent * Grain <= Capacity + Cardinality(Senders) * now
                          + (Cardinality(Senders) - 1) * (Capacity % Grain)
    BY DEF SentWithinShares
  <2> DEFINE bound == Capacity + Cardinality(Senders) * now
                          + (Cardinality(Senders) - 1) * (Capacity % Grain)
  <2>1. Overdue \in SUBSET Senders
    BY DEF Overdue
  <2>2. Cardinality(Senders) \in Nat \ {0} /\ Cardinality(Overdue) \in Nat
    BY <2>1, TaskCounts
  <2>3. /\ Surplus(Refilled, Cardinality(Overdue)) \in Int
        /\ Surplus(Refilled, Cardinality(Overdue)) >= 0
    BY <2>2, BucketVars, SurplusPositive
  <2>4. bound \in Int /\ sent * Grain \in Int
    BY <2>2, BucketVars, Division, Products
  <2>5. sent * Grain + Surplus(Refilled, Cardinality(Overdue)) <= bound
    BY DEF BucketInv, WithinShares
  <2> HIDE DEF bound
  <2>6. sent * Grain <= bound
    BY <2>3, <2>4, <2>5
  <2> QED BY <2>6 DEF bound
<1> QED BY <1>1, BucketInvariance, PTL
=============================================================================
