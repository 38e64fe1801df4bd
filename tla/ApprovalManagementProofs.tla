---------------------- MODULE ApprovalManagementProofs ----------------------
(***************************************************************************)
(* The invariants of ApprovalManagement, proved for any number of          *)
(* processes, requests and employees.                                      *)
(***************************************************************************)
EXTENDS ApprovalManagement, TLAPS

Deciding(p, r) == pod[p].at = "committed" /\ pod[p].request = r

\* TwiceOnlyIfRaced rests on what two handlers may hold: a loaded request is
\* still pending unless another handler had it too.  StampsCoverAnswers rests
\* on what a handler that has committed left in the row.
ApprovalRowInv(r) ==
    /\ row[r].status = "pending_approval" => ~row[r].approved_at /\ ~row[r].rejected_at
    /\ \A p \in Pods : LoadedBy(p, r) => row[r].status = "pending_approval" \/ r \in raced
    /\ \A p, q \in Pods : LoadedBy(p, r) /\ LoadedBy(q, r) => p = q \/ r \in raced
    /\ \A p \in Pods : Deciding(p, r) =>
          IF AuditEntry(pod[p]).new = "approved" THEN row[r].approved_at
                                                  ELSE row[r].rejected_at

IInv == /\ TypeOK
        /\ \A r \in Requests : ApprovalRowInv(r)
        /\ StampsCoverAnswers
        /\ TwiceOnlyIfRaced
        /\ DecidedIsAudited

\* No handler is under way at the start and no request is decided.
LEMMA InitIInv == Init => IInv
  BY DEF Init, IInv, TypeOK, Row, Status, Pending, Idle, ApprovalRowInv, LoadedBy, Deciding,
         StampsCoverAnswers, TwiceOnlyIfRaced, DecidedTwice, DecidedIsAudited

\* Loading keeps the invariant: it only adds a handler, and a second one on the
\* same request marks it as raced.
LEMMA LoadIInv ==
    ASSUME IInv, NEW p \in Pods, NEW op \in Op, NEW r \in Requests,
           NEW caller \in Employees \cup {NoOne}, Load(p, op, r, caller)
    PROVE  IInv'
<1> DEFINE h == [op |-> op, request |-> r, by |-> ActsAs(caller), at |-> "loaded"]
<1>1. h \in Handler
  BY ApprovalAssumption DEF ApprovalAssumption, Handler, ActsAs
<1>2. pod' = [pod EXCEPT ![p] = h] /\ pod[p] = Idle /\ Decidable(r)
  BY DEF Load
<1>3. UNCHANGED <<row, answers, lost>> /\ raced \subseteq raced' /\ raced' \subseteq Requests
  BY DEF Load, IInv, TypeOK
<1>4. TypeOK'
  BY <1>1, <1>2, <1>3 DEF IInv, TypeOK
<1>5. ASSUME NEW q \in Pods, q # p PROVE pod'[q] = pod[q]
  BY <1>2, <1>5 DEF IInv, TypeOK
<1>6. pod'[p] = h /\ pod[p].at = "idle"
  <2>1. pod'[p] = h
    BY <1>2 DEF IInv, TypeOK
  <2>2. pod[p].at = "idle"
    BY <1>2 DEF Idle
  <2> QED BY <2>1, <2>2
<1>7. ASSUME NEW s \in Requests PROVE ApprovalRowInv(s)'
  <2>1. ASSUME NEW q \in Pods, LoadedBy(q, s)'
        PROVE row'[s].status = "pending_approval" \/ s \in raced'
    BY <1>2, <1>3, <1>5, <1>6, <2>1 DEF IInv, ApprovalRowInv, LoadedBy, Decidable
  <2>2. ASSUME NEW q \in Pods, NEW t \in Pods, LoadedBy(q, s)', LoadedBy(t, s)', q # t
        PROVE s \in raced'
    <3>1. CASE q # p /\ t # p
      BY <1>3, <1>5, <2>2, <3>1 DEF IInv, ApprovalRowInv, LoadedBy
    <3>2. CASE q = p \/ t = p
      <4>1. s = r
        BY <1>6, <2>2, <3>2 DEF LoadedBy
      <4>2. \E u \in Pods : LoadedBy(u, r)
        BY <1>5, <2>2, <3>2, <4>1 DEF LoadedBy
      <4> QED BY <4>1, <4>2 DEF Load
    <3> QED BY <3>1, <3>2
  <2>3. ASSUME NEW q \in Pods, Deciding(q, s)'
        PROVE pod'[q] = pod[q] /\ Deciding(q, s)
    BY <1>5, <1>6, <2>3 DEF Deciding
  <2> QED BY <1>3, <2>1, <2>2, <2>3 DEF IInv, ApprovalRowInv, AuditEntry
<1>8. StampsCoverAnswers' /\ TwiceOnlyIfRaced'
  BY <1>3 DEF IInv, StampsCoverAnswers, TwiceOnlyIfRaced, DecidedTwice
<1>9. DecidedIsAudited'
  <2>1. ASSUME NEW q \in Pods, pod[q].at = "committed" PROVE pod'[q] = pod[q]
    BY <1>5, <1>6, <2>1
  <2> QED BY <1>3, <2>1 DEF IInv, DecidedIsAudited, AuditEntry
<1> QED BY <1>4, <1>7, <1>8, <1>9 DEF IInv

\* The commit keeps it: only the loaded request gets another stamp, and when it
\* already had one its other handler had loaded it too.
LEMMA CommitIInv == ASSUME IInv, NEW p \in Pods, Commit(p) PROVE IInv'
<1> DEFINE h == pod[p]
<1>0. h \in Handler /\ h.at = "loaded"
  BY DEF Commit, IInv, TypeOK, Idle
<1> PICK r \in Requests : h.request = r
  BY <1>0 DEF Handler
<1>1. h \in Handler /\ h.request = r /\ h.at = "loaded" /\ ApprovalRowInv(r)
  BY <1>0 DEF IInv
<1>2. row' = [row EXCEPT ![r] = Updated(row[r], h.op)]
  BY <1>1 DEF Commit
<1>3. pod' = [pod EXCEPT ![p].at = "committed"] /\ UNCHANGED <<answers, lost, raced>>
  BY DEF Commit
<1>4. Updated(row[r], h.op) \in Row
  <2>1. row[r] \in Row
    BY <1>1 DEF IInv, TypeOK
  <2>2. /\ [row[r] EXCEPT !.status = "approved", !.approved_at = TRUE] \in Row
        /\ [row[r] EXCEPT !.status = "rejected", !.rejected_at = TRUE] \in Row
    BY <2>1 DEF Row, Status
  <2> QED BY <2>2 DEF Updated
<1>5. pod'[p] = [h EXCEPT !.at = "committed"] /\ pod'[p] \in Handler
  BY <1>1, <1>3 DEF IInv, TypeOK, Handler
<1>6. \A q \in Pods : q # p => pod'[q] = pod[q]
  BY <1>3 DEF IInv, TypeOK
<1>7. \A s \in Requests : s # r => row'[s] = row[s]
  BY <1>2 DEF IInv, TypeOK
<1>8. TypeOK'
  BY <1>1, <1>2, <1>3, <1>4, <1>5 DEF IInv, TypeOK
<1>9. /\ pod'[p].request = r /\ pod'[p].at = "committed"
      /\ AuditEntry(pod'[p]) = AuditEntry(h)
  BY <1>1, <1>5 DEF Handler, AuditEntry
<1>10. /\ row'[r].status = AuditEntry(h).new
       /\ row'[r].status # "pending_approval"
       /\ row'[r].approved_at = (row[r].approved_at \/ h.op = "approve")
       /\ row'[r].rejected_at = (row[r].rejected_at \/ h.op # "approve")
  <2>1. row'[r] = Updated(row[r], h.op) /\ row[r] \in Row
    BY <1>1, <1>2 DEF IInv, TypeOK
  <2> QED BY <2>1 DEF Updated, AuditEntry, Row
<1>11. row[r].status = "pending_approval" \/ r \in raced
  BY <1>1 DEF ApprovalRowInv, LoadedBy
<1>12. ASSUME NEW s \in Requests PROVE ApprovalRowInv(s)'
  <2>1. \A q \in Pods : LoadedBy(q, s)' => q # p /\ LoadedBy(q, s)
    BY <1>6, <1>9 DEF LoadedBy
  <2>2. CASE s # r
    <3>1. \A q \in Pods : Deciding(q, s)' => Deciding(q, s) /\ pod'[q] = pod[q]
      BY <1>6, <1>9, <2>2 DEF Deciding
    <3> QED BY <1>3, <1>7, <2>1, <2>2, <3>1 DEF IInv, ApprovalRowInv, AuditEntry
  <2>3. CASE s = r
    <3>1. ASSUME NEW q \in Pods, LoadedBy(q, r)' PROVE r \in raced
      <4>1. q # p /\ LoadedBy(q, r) /\ LoadedBy(p, r)
        BY <1>1, <2>1, <2>3, <3>1 DEF LoadedBy
      <4> QED BY <1>1, <4>1 DEF ApprovalRowInv
    <3>2. ASSUME NEW q \in Pods, Deciding(q, r)'
          PROVE  IF AuditEntry(pod'[q]).new = "approved" THEN row'[r].approved_at
                                                          ELSE row'[r].rejected_at
      <4>1. CASE q = p
        BY <1>9, <1>10, <4>1 DEF AuditEntry
      <4>2. CASE q # p
        <5>1. pod'[q] = pod[q] /\ Deciding(q, r)
          BY <1>6, <3>2, <4>2 DEF Deciding
        <5>2. IF AuditEntry(pod[q]).new = "approved" THEN row[r].approved_at
                                                      ELSE row[r].rejected_at
          BY <1>1, <5>1 DEF ApprovalRowInv
        <5> QED BY <1>10, <5>1, <5>2 DEF AuditEntry
      <4> QED BY <4>1, <4>2
    <3> QED BY <1>3, <1>10, <2>3, <3>1, <3>2 DEF ApprovalRowInv, AuditEntry
  <2> QED BY <2>2, <2>3
<1>13. StampsCoverAnswers'
  BY <1>1, <1>3, <1>7, <1>10 DEF IInv, StampsCoverAnswers
<1>14. TwiceOnlyIfRaced'
  BY <1>1, <1>3, <1>7, <1>10, <1>11 DEF IInv, TwiceOnlyIfRaced, DecidedTwice, ApprovalRowInv
<1>15. DecidedIsAudited'
  <2>1. ASSUME NEW s \in Requests, s # r, NEW q \in Pods, Deciding(q, s)
        PROVE pod'[q] = pod[q]
    BY <1>1, <1>6, <2>1 DEF Deciding
  <2> QED BY <1>1, <1>3, <1>7, <1>9, <1>10, <2>1
          DEF IInv, DecidedIsAudited, Deciding, AuditEntry
<1> QED BY <1>8, <1>12, <1>13, <1>14, <1>15 DEF IInv

\* A handler that ends, answering or dying, touches no row.
LEMMA EndIInv == ASSUME IInv, NEW p \in Pods, Answer(p) \/ Crash(p) PROVE IInv'
<1>1. pod' = [pod EXCEPT ![p] = Idle] /\ UNCHANGED <<row, raced>> /\ pod[p] # Idle
  BY DEF Answer, Crash, Idle
<1>2. pod[p] \in Handler
  BY <1>1 DEF IInv, TypeOK
<1>3. AuditEntry(pod[p]) \in Entry
  BY <1>2 DEF AuditEntry, Entry, Handler, Status
<1>4. \A q \in Pods : q # p => pod'[q] = pod[q]
  BY <1>1 DEF IInv, TypeOK
<1>5. pod'[p].at = "idle"
  BY <1>1 DEF IInv, TypeOK, Idle
<1>6. TypeOK'
  <2>1. lost' \subseteq Requests
    BY <1>2 DEF Answer, Crash, IInv, TypeOK, Handler
  <2>2. answers' \in [Requests -> SUBSET Entry]
    BY <1>2, <1>3 DEF Answer, Crash, IInv, TypeOK, Handler
  <2> QED BY <1>1, <2>1, <2>2 DEF IInv, TypeOK
<1>7. ASSUME NEW r \in Requests PROVE ApprovalRowInv(r)'
  <2>1. \A q \in Pods : LoadedBy(q, r)' => q # p /\ LoadedBy(q, r)
    BY <1>4, <1>5 DEF LoadedBy
  <2>2. \A q \in Pods : Deciding(q, r)' => Deciding(q, r) /\ pod'[q] = pod[q]
    BY <1>4, <1>5 DEF Deciding
  <2> QED BY <1>1, <2>1, <2>2 DEF IInv, ApprovalRowInv, AuditEntry
<1>8. TwiceOnlyIfRaced'
  BY <1>1 DEF IInv, TwiceOnlyIfRaced, DecidedTwice
<1>9. CASE Answer(p)
  <2>1. /\ pod[p].at = "committed" /\ UNCHANGED lost
        /\ answers' = [answers EXCEPT ![pod[p].request] = @ \cup {AuditEntry(pod[p])}]
    BY <1>9 DEF Answer
  <2>2. \A r \in Requests :
           answers'[r] = IF r = pod[p].request THEN answers[r] \cup {AuditEntry(pod[p])}
                                               ELSE answers[r]
    BY <2>1 DEF IInv, TypeOK
  <2>3. StampsCoverAnswers'
    BY <1>1, <2>1, <2>2 DEF IInv, StampsCoverAnswers, ApprovalRowInv, Deciding
  <2>4. DecidedIsAudited'
    <3> SUFFICES ASSUME NEW r \in Requests, row'[r].status # "pending_approval",
                        ~\E e \in answers'[r] : e.new = row'[r].status, r \notin lost'
                 PROVE  \E q \in Pods : /\ pod'[q].at = "committed" /\ pod'[q].request = r
                                        /\ AuditEntry(pod'[q]).new = row'[r].status
      BY DEF DecidedIsAudited, AuditEntry
    <3>1. PICK q \in Pods : /\ pod[q].at = "committed" /\ pod[q].request = r
                            /\ AuditEntry(pod[q]).new = row[r].status
      BY <1>1, <2>1, <2>2 DEF IInv, DecidedIsAudited
    <3>2. q # p
      BY <1>1, <2>2, <3>1
    <3> QED BY <1>1, <1>4, <3>1, <3>2 DEF AuditEntry
  <2> QED BY <1>6, <1>7, <1>8, <2>3, <2>4 DEF IInv
<1>10. CASE Crash(p)
  <2>1. /\ UNCHANGED answers
        /\ lost \subseteq lost'
        /\ pod[p].at = "committed" => pod[p].request \in lost'
    BY <1>10 DEF Crash
  <2>2. StampsCoverAnswers'
    BY <1>1, <2>1 DEF IInv, StampsCoverAnswers
  <2>3. DecidedIsAudited'
    BY <1>1, <1>4, <2>1 DEF IInv, DecidedIsAudited, AuditEntry
  <2> QED BY <1>6, <1>7, <1>8, <2>2, <2>3 DEF IInv
<1> QED BY <1>9, <1>10

\* The invariant holds in every reachable state.
THEOREM InductiveInvariant == Spec => []IInv
<1>1. IInv /\ [Next]_vars => IInv'
  <2> SUFFICES ASSUME IInv, [Next]_vars PROVE IInv' OBVIOUS
  <2>1. CASE UNCHANGED vars
    BY <2>1 DEF vars, IInv, TypeOK, ApprovalRowInv, LoadedBy, Deciding, AuditEntry,
                StampsCoverAnswers, TwiceOnlyIfRaced, DecidedTwice, DecidedIsAudited
  <2>2. CASE Next
    BY <2>2, LoadIInv, CommitIInv, EndIInv DEF Next, Approve, Deny, Op
  <2> QED BY <2>1, <2>2
<1> QED BY <1>1, InitIInv, PTL DEF Spec

\* The type invariant, for every value of the constants.
THEOREM TypeCorrect == Spec => []TypeOK
  BY InductiveInvariant, PTL DEF IInv

\* approve_request() and deny_request() never take back a stamp somebody was
\* told of, however many handlers race.
THEOREM AnswersKeepTheirStamps == Spec => []StampsCoverAnswers
  BY InductiveInvariant, PTL DEF IInv

\* The decision a row shows was reported in an audit entry, or is about to be,
\* or the process that made it died before it could.
THEOREM DecisionsAreReported == Spec => []DecidedIsAudited
  BY InductiveInvariant, PTL DEF IInv

\* A request can be both approved and denied only through two handlers that
\* had it loaded at the same time: one handler at a time never does it.
THEOREM OnlyRacesDecideTwice == Spec => []TwiceOnlyIfRaced
  BY InductiveInvariant, PTL DEF IInv
=============================================================================
