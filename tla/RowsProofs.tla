----------------------------- MODULE RowsProofs -----------------------------
(***************************************************************************)
(* Rows that several processes read, check and write, for every set of     *)
(* processes and of values: Envelope, DepartmentTree, WorkSchedules,       *)
(* Policies and EmployeeImport.                                            *)
(***************************************************************************)
EXTENDS Envelope, DepartmentTree, WorkSchedules, Policies, EmployeeImport,
        FiniteSetTheorems, WellFoundedInduction, TLAPS

-----------------------------------------------------------------------------
(* Envelope: the inductive invariant. *)

TrailEntries == [from : EnvelopeStatus \cup {"none"}, to : EnvelopeStatus]

Loaded(p, v) == tx[p].at = "loaded" /\ tx[p].envelope = v

\* What a handler has loaded exists, and the transition was checked; nobody has
\* changed the status since unless two have had the envelope loaded at a time.
LoadsAreCurrent ==
    \A v \in Envelopes, p \in Pods : Loaded(p, v) =>
        /\ Created(v)
        /\ tx[p].to \in Transitions[tx[p].from]
        /\ v \notin contended => tx[p].from = env[v].status

TwoLoadsContend ==
    \A v \in Envelopes, p, q \in Pods :
        Loaded(p, v) /\ Loaded(q, v) /\ p # q => v \in contended

TrailsBegin == \A v \in Envelopes : Created(v) => audit[v] # <<>>

EnvelopeInv == /\ EnvelopeTypeOK
               /\ LoadsAreCurrent
               /\ TwoLoadsContend
               /\ TrailsBegin
               /\ TrailIsHistory

\* A row has a status, and a transaction is of an envelope.
LEMMA EnvelopeRows ==
    /\ Absent \notin EnvelopeRow
    /\ \A row \in EnvelopeRow : row.status \in EnvelopeStatus
    /\ \A row \in EnvelopeRow, to \in EnvelopeStatus :
           Stamped(row, to) \in EnvelopeRow /\ Stamped(row, to).status = to
    /\ NoTx.at = "idle"
    /\ \A t \in Update : /\ t.at = "loaded" /\ t # NoTx /\ t.envelope \in Envelopes
                         /\ t.from \in EnvelopeStatus /\ t.to \in EnvelopeStatus
                         /\ TrailEntry(t) \in TrailEntries
                         /\ TrailEntry(t).from = t.from /\ TrailEntry(t).to = t.to
<1>1. \A row \in EnvelopeRow : row.status \in EnvelopeStatus
  BY DEF EnvelopeRow
<1>2. Absent \notin EnvelopeRow
  <2>1. Absent.status = "absent" /\ "absent" \notin EnvelopeStatus
    BY DEF Absent, EnvelopeStatus
  <2> QED BY <1>1, <2>1
<1>3. \A row \in EnvelopeRow, to \in EnvelopeStatus :
          Stamped(row, to) \in EnvelopeRow /\ Stamped(row, to).status = to
  BY DEF Stamped, EnvelopeRow
<1>4. NoTx.at = "idle"
  BY DEF NoTx
<1>5. ASSUME NEW t \in Update
      PROVE  /\ t.at = "loaded" /\ t # NoTx /\ t.envelope \in Envelopes
             /\ t.from \in EnvelopeStatus /\ t.to \in EnvelopeStatus
  <2>1. /\ t.at = "loaded" /\ t.envelope \in Envelopes
        /\ t.from \in EnvelopeStatus /\ t.to \in EnvelopeStatus
    BY DEF Update
  <2> QED BY <1>4, <2>1
<1>6. ASSUME NEW t \in Update
      PROVE  /\ TrailEntry(t) \in TrailEntries
             /\ TrailEntry(t).from = t.from /\ TrailEntry(t).to = t.to
  BY <1>5 DEF TrailEntry, TrailEntries
<1> QED BY <1>1, <1>2, <1>3, <1>4, <1>5, <1>6

\* Sending reaches recipients, and takes nothing back.
LEMMA ReachedType ==
    ASSUME EnvelopeTypeOK, NEW v \in Envelopes, NEW routed
    PROVE  Reached(v, routed) \in [Recipients -> {"pending", "sent"}]
  BY DEF Reached, EnvelopeTypeOK

\* Without an envelope the invariant of Envelope holds.
LEMMA EnvelopeInitInv == EnvelopeInit => EnvelopeInv
<1> SUFFICES ASSUME EnvelopeInit PROVE EnvelopeInv
  OBVIOUS
<1>1. EnvelopeTypeOK
  <2>1. audit \in [Envelopes -> Seq(TrailEntries)]
    BY DEF EnvelopeInit
  <2> QED BY <2>1 DEF EnvelopeInit, EnvelopeTypeOK, TrailEntries
<1>2. (\A v \in Envelopes : ~Created(v)) /\ (\A p \in Pods, v \in Envelopes : ~Loaded(p, v))
  BY EnvelopeRows DEF EnvelopeInit, Created, Loaded
<1> QED BY <1>1, <1>2 DEF EnvelopeInv, LoadsAreCurrent, TwoLoadsContend, TrailsBegin, TrailIsHistory

\* create_envelope() writes the row and the first entry of its trail at once.
LEMMA CreateEnvelopeInv ==
    ASSUME EnvelopeInv, NEW v \in Envelopes, NEW routed \in BOOLEAN,
           NEW send_immediately \in BOOLEAN, CreateEnvelope(v, routed, send_immediately)
    PROVE  EnvelopeInv'
<1> DEFINE row == [status |-> IF send_immediately THEN "sent" ELSE "draft", routed |-> routed,
                   sent_at |-> send_immediately, completed_at |-> FALSE, voided_at |-> FALSE]
           draft == [from |-> "none", to |-> "draft"]
           sent == [from |-> "draft", to |-> "sent"]
           trail == <<draft>> \o (IF send_immediately THEN <<sent>> ELSE <<>>)
<1>1. /\ env[v] = Absent
      /\ env' = [env EXCEPT ![v] = row]
      /\ rcpt' = IF send_immediately THEN [rcpt EXCEPT ![v] = Reached(v, routed)] ELSE rcpt
      /\ UNCHANGED <<tx, contended>>
  BY DEF CreateEnvelope
<1>2. audit' = [audit EXCEPT ![v] = trail]
  BY DEF CreateEnvelope
<1>3. row \in EnvelopeRow /\ row.status = IF send_immediately THEN "sent" ELSE "draft"
  BY DEF EnvelopeRow, EnvelopeStatus
<1>4. /\ trail \in Seq(TrailEntries) /\ trail # <<>> /\ Last(trail).to = row.status
      /\ \A i \in 2..Len(trail) : trail[i].from = trail[i - 1].to
  <2>1. draft \in TrailEntries /\ sent \in TrailEntries
    BY DEF TrailEntries, EnvelopeStatus
  <2>2. CASE send_immediately
    <3>1. /\ trail \in Seq(TrailEntries) /\ Len(trail) = 2
          /\ trail[1] = draft /\ trail[2] = sent
      BY <2>1, <2>2
    <3>2. \A i \in 2..Len(trail) : i = 2
      BY <3>1
    <3> QED BY <1>3, <2>2, <3>1, <3>2 DEF Last
  <2>3. CASE ~send_immediately
    <3>1. trail \in Seq(TrailEntries) /\ Len(trail) = 1 /\ trail[1] = draft
      BY <2>1, <2>3
    <3>2. 2..Len(trail) = {}
      BY <3>1
    <3> QED BY <1>3, <2>3, <3>1, <3>2 DEF Last
  <2> QED BY <2>2, <2>3
<1> HIDE DEF row, trail
<1>5. /\ \A u \in Envelopes : /\ env'[u] = IF u = v THEN row ELSE env[u]
                              /\ audit'[u] = IF u = v THEN trail ELSE audit[u]
  BY <1>1, <1>2 DEF EnvelopeInv, EnvelopeTypeOK
<1>6. EnvelopeTypeOK'
  <2>1. rcpt' \in [Envelopes -> [Recipients -> {"pending", "sent"}]]
    BY <1>1, ReachedType DEF EnvelopeInv, EnvelopeTypeOK
  <2>2. audit' \in [Envelopes -> Seq(TrailEntries)]
    BY <1>2, <1>4 DEF EnvelopeInv, EnvelopeTypeOK, TrailEntries
  <2> QED BY <1>1, <1>3, <2>1, <2>2 DEF EnvelopeInv, EnvelopeTypeOK, TrailEntries
<1>7. \A p \in Pods : ~Loaded(p, v)
  BY <1>1 DEF EnvelopeInv, LoadsAreCurrent, Created
<1>8. LoadsAreCurrent' /\ TwoLoadsContend'
  <2>1. \A p \in Pods, u \in Envelopes : Loaded(p, u)' = Loaded(p, u)
    BY <1>1 DEF Loaded
  <2>2. TwoLoadsContend'
    BY <1>1, <2>1 DEF EnvelopeInv, TwoLoadsContend
  <2>3. LoadsAreCurrent'
    BY <1>1, <1>5, <1>7, <2>1 DEF EnvelopeInv, LoadsAreCurrent, Created
  <2> QED BY <2>2, <2>3
<1>9. TrailsBegin'
  BY <1>1, <1>4, <1>5 DEF EnvelopeInv, TrailsBegin, Created
<1>10. TrailIsHistory'
  <2> SUFFICES ASSUME NEW u \in Envelopes, Created(u)'
               PROVE  /\ Last(audit'[u]).to = env'[u].status
                      /\ u \in contended' \/
                         \A i \in 2..Len(audit'[u]) : audit'[u][i].from = audit'[u][i - 1].to
    BY DEF TrailIsHistory
  <2>1. CASE u = v
    BY <1>4, <1>5, <2>1
  <2>2. CASE u # v
    BY <1>1, <1>5, <2>2 DEF EnvelopeInv, TrailIsHistory, Created
  <2> QED BY <2>1, <2>2
<1> QED BY <1>6, <1>8, <1>9, <1>10 DEF EnvelopeInv

\* A step of p that only changes its transaction: it rolls back or loads.
LEMMA RollBackInv ==
    ASSUME EnvelopeInv, NEW p \in Pods, RollBack(p)
    PROVE  EnvelopeInv'
<1>1. \A q \in Pods : tx'[q] = IF q = p THEN NoTx ELSE tx[q]
  BY DEF RollBack, EnvelopeInv, EnvelopeTypeOK
<1>2. \A q \in Pods, v \in Envelopes : Loaded(q, v)' => q # p /\ Loaded(q, v) /\ tx'[q] = tx[q]
  BY <1>1, EnvelopeRows DEF Loaded
<1>3. EnvelopeTypeOK'
  BY DEF RollBack, EnvelopeInv, EnvelopeTypeOK
<1>4. LoadsAreCurrent' /\ TwoLoadsContend'
  BY <1>2 DEF RollBack, EnvelopeInv, LoadsAreCurrent, TwoLoadsContend, Created
<1>5. TrailsBegin' /\ TrailIsHistory'
  BY DEF RollBack, EnvelopeInv, TrailsBegin, TrailIsHistory, Created
<1> QED BY <1>3, <1>4, <1>5 DEF EnvelopeInv

\* A handler that loads an envelope another one has loaded contends with it.
LEMMA LoadEnvelopeInv ==
    ASSUME EnvelopeInv, NEW p \in Pods, NEW v \in Envelopes, NEW to \in EnvelopeStatus,
           LoadEnvelope(p, v, to)
    PROVE  EnvelopeInv'
<1> DEFINE t == [at |-> "loaded", envelope |-> v, from |-> env[v].status, to |-> to]
<1>1. /\ Created(v) /\ to \in Transitions[env[v].status]
      /\ tx' = [tx EXCEPT ![p] = t]
      /\ contended' = IF \E q \in Pods : tx[q] # NoTx /\ tx[q].envelope = v
                      THEN contended \cup {v} ELSE contended
      /\ UNCHANGED <<env, rcpt, audit>>
  BY DEF LoadEnvelope, Allowed, Created
<1>2. t \in Update /\ t.at = "loaded" /\ t.envelope = v /\ t.from = env[v].status /\ t.to = to
  <2>1. env[v].status \in EnvelopeStatus
    BY <1>1, EnvelopeRows DEF EnvelopeInv, EnvelopeTypeOK, Created
  <2> QED BY <2>1 DEF Update
<1> HIDE DEF t
<1>3. \A q \in Pods : tx'[q] = IF q = p THEN t ELSE tx[q]
  BY <1>1 DEF EnvelopeInv, EnvelopeTypeOK
<1>4. /\ \A q \in Pods \ {p}, u \in Envelopes : Loaded(q, u)' = Loaded(q, u)
      /\ \A u \in Envelopes : Loaded(p, u)' = (u = v)
  BY <1>2, <1>3 DEF Loaded
<1>5. EnvelopeTypeOK'
  BY <1>1, <1>2 DEF EnvelopeInv, EnvelopeTypeOK
<1>6. LoadsAreCurrent'
  <2> SUFFICES ASSUME NEW u \in Envelopes, NEW q \in Pods, Loaded(q, u)'
               PROVE  /\ Created(u)' /\ tx'[q].to \in Transitions[tx'[q].from]
                      /\ u \notin contended' => tx'[q].from = env'[u].status
    BY DEF LoadsAreCurrent
  <2>1. CASE q = p
    BY <1>1, <1>2, <1>3, <1>4, <2>1 DEF Created
  <2>2. CASE q # p
    BY <1>1, <1>3, <1>4, <2>2 DEF EnvelopeInv, LoadsAreCurrent, Created
  <2> QED BY <2>1, <2>2
<1>7. TwoLoadsContend'
  <2>1. ASSUME NEW q \in Pods \ {p}, Loaded(q, v) PROVE v \in contended'
    BY <1>1, <2>1, EnvelopeRows DEF Loaded
  <2>2. contended \subseteq contended'
    BY <1>1
  <2>3. ASSUME NEW u \in Envelopes, NEW q \in Pods, NEW r \in Pods,
               Loaded(q, u)', Loaded(r, u)', q # r
        PROVE  u \in contended'
    <3>1. CASE q = p \/ r = p
      BY <1>4, <2>1, <2>3, <3>1
    <3>2. CASE q # p /\ r # p
      BY <1>4, <2>2, <2>3, <3>2 DEF EnvelopeInv, TwoLoadsContend
    <3> QED BY <3>1, <3>2
  <2> QED BY <2>3 DEF TwoLoadsContend
<1>8. TrailsBegin' /\ TrailIsHistory'
  BY <1>1 DEF EnvelopeInv, TrailsBegin, TrailIsHistory, Created
<1> QED BY <1>5, <1>6, <1>7, <1>8 DEF EnvelopeInv

\* What the commit of p does to its envelope and its trail
LEMMA CommitEnvelopeStep ==
    ASSUME EnvelopeInv, NEW p \in Pods, CommitEnvelope(p), NEW v, v = tx[p].envelope
    PROVE  /\ v \in Envelopes /\ Loaded(p, v) /\ Created(v) /\ env[v] \in EnvelopeRow
           /\ tx[p] \in Update
           /\ env' = [env EXCEPT ![v] = Stamped(env[v], tx[p].to)]
           /\ audit' = [audit EXCEPT ![v] = Append(audit[v], TrailEntry(tx[p]))]
<1>1. tx[p] \in Update
  BY EnvelopeRows DEF CommitEnvelope, EnvelopeInv, EnvelopeTypeOK
<1>2. v \in Envelopes /\ Loaded(p, v)
  BY <1>1, EnvelopeRows DEF Loaded
<1>3. Created(v) /\ env[v] \in EnvelopeRow
  BY <1>2 DEF EnvelopeInv, EnvelopeTypeOK, LoadsAreCurrent, Created
<1>4. /\ env' = [env EXCEPT ![v] = Stamped(env[v], tx[p].to)]
      /\ audit' = [audit EXCEPT ![v] = Append(audit[v], TrailEntry(tx[p]))]
  BY DEF CommitEnvelope
<1> QED BY <1>1, <1>2, <1>3, <1>4

\* A commit writes the status and the entry that tells of it at once.
LEMMA CommitEnvelopeInv ==
    ASSUME EnvelopeInv, NEW p \in Pods, CommitEnvelope(p)
    PROVE  EnvelopeInv'
<1> DEFINE v == tx[p].envelope
           to == tx[p].to
           row == Stamped(env[v], to)
           entry == TrailEntry(tx[p])
           trail == Append(audit[v], entry)
<1>1. /\ v \in Envelopes /\ Loaded(p, v) /\ Created(v) /\ env[v] \in EnvelopeRow
      /\ tx[p] \in Update
      /\ env' = [env EXCEPT ![v] = row]
      /\ audit' = [audit EXCEPT ![v] = trail]
      /\ rcpt' = IF to = "sent" THEN [rcpt EXCEPT ![v] = Reached(v, env[v].routed)] ELSE rcpt
      /\ tx' = [tx EXCEPT ![p] = NoTx]
      /\ UNCHANGED contended
  BY CommitEnvelopeStep DEF CommitEnvelope
<1>2. /\ row \in EnvelopeRow /\ row.status = to /\ row # Absent
      /\ entry \in TrailEntries /\ entry.from = tx[p].from /\ entry.to = to
  BY <1>1, EnvelopeRows
<1>3. /\ audit[v] \in Seq(TrailEntries) /\ audit[v] # <<>>
      /\ Len(audit[v]) \in Nat \ {0}
  <2>1. audit \in [Envelopes -> Seq(TrailEntries)]
    BY DEF EnvelopeInv, EnvelopeTypeOK, TrailEntries
  <2>2. audit[v] \in Seq(TrailEntries) /\ audit[v] # <<>>
    BY <1>1, <2>1 DEF EnvelopeInv, TrailsBegin
  <2> QED BY <2>2
<1>4. /\ trail \in Seq(TrailEntries) /\ trail # <<>> /\ Len(trail) = Len(audit[v]) + 1
      /\ trail[Len(trail)] = entry
      /\ \A i \in 1..Len(audit[v]) : trail[i] = audit[v][i]
  BY <1>2, <1>3
<1> HIDE DEF row, trail, entry
<1>5. \A u \in Envelopes : /\ env'[u] = IF u = v THEN row ELSE env[u]
                           /\ audit'[u] = IF u = v THEN trail ELSE audit[u]
  BY <1>1 DEF EnvelopeInv, EnvelopeTypeOK
<1>6. \A q \in Pods : tx'[q] = IF q = p THEN NoTx ELSE tx[q]
  BY <1>1 DEF EnvelopeInv, EnvelopeTypeOK
<1>7. \A q \in Pods, u \in Envelopes : Loaded(q, u)' => q # p /\ Loaded(q, u) /\ tx'[q] = tx[q]
  BY <1>6, EnvelopeRows DEF Loaded
<1>8. EnvelopeTypeOK'
  <2>1. rcpt' \in [Envelopes -> [Recipients -> {"pending", "sent"}]]
    BY <1>1, ReachedType DEF EnvelopeInv, EnvelopeTypeOK
  <2>2. audit' \in [Envelopes -> Seq(TrailEntries)]
    BY <1>1, <1>4 DEF EnvelopeInv, EnvelopeTypeOK, TrailEntries
  <2> QED BY <1>1, <1>2, <2>1, <2>2 DEF EnvelopeInv, EnvelopeTypeOK, TrailEntries
<1>9. TwoLoadsContend'
  BY <1>1, <1>7 DEF EnvelopeInv, TwoLoadsContend
<1>10. LoadsAreCurrent'
  <2> SUFFICES ASSUME NEW u \in Envelopes, NEW q \in Pods, Loaded(q, u)'
               PROVE  /\ Created(u)' /\ tx'[q].to \in Transitions[tx'[q].from]
                      /\ u \notin contended' => tx'[q].from = env'[u].status
    BY DEF LoadsAreCurrent
  <2>1. q # p /\ Loaded(q, u) /\ tx'[q] = tx[q]
    BY <1>7
  <2>2. CASE u = v
    BY <1>1, <1>2, <1>5, <2>1, <2>2 DEF EnvelopeInv, LoadsAreCurrent, TwoLoadsContend, Created
  <2>3. CASE u # v
    BY <1>1, <1>5, <2>1, <2>3 DEF EnvelopeInv, LoadsAreCurrent, Created
  <2> QED BY <2>2, <2>3
<1>11. TrailsBegin'
  BY <1>4, <1>5 DEF EnvelopeInv, TrailsBegin, Created
<1>12. TrailIsHistory'
  <2> SUFFICES ASSUME NEW u \in Envelopes, Created(u)'
               PROVE  /\ Last(audit'[u]).to = env'[u].status
                      /\ u \in contended' \/
                         \A i \in 2..Len(audit'[u]) : audit'[u][i].from = audit'[u][i - 1].to
    BY DEF TrailIsHistory
  <2>1. CASE u # v
    BY <1>1, <1>5, <2>1 DEF EnvelopeInv, TrailIsHistory, Created
  <2>2. CASE u = v
    <3>1. Last(trail).to = row.status
      BY <1>2, <1>4 DEF Last
    <3>2. ASSUME v \notin contended, NEW i \in 2..Len(trail) PROVE trail[i].from = trail[i - 1].to
      <4>1. CASE i = Len(trail)
        <5>1. trail[i - 1] = audit[v][Len(audit[v])] /\ trail[i] = entry
          BY <1>3, <1>4, <4>1
        <5>2. audit[v][Len(audit[v])].to = env[v].status
          BY <1>1 DEF EnvelopeInv, TrailIsHistory, Last
        <5>3. tx[p].from = env[v].status
          BY <1>1, <3>2 DEF EnvelopeInv, LoadsAreCurrent
        <5> QED BY <1>2, <5>1, <5>2, <5>3
      <4>2. CASE i \in 2..Len(audit[v])
        <5>1. trail[i] = audit[v][i] /\ trail[i - 1] = audit[v][i - 1]
          BY <1>3, <1>4, <4>2
        <5> QED BY <1>1, <3>2, <4>2, <5>1 DEF EnvelopeInv, TrailIsHistory
      <4> QED BY <1>3, <1>4, <3>2, <4>1, <4>2
    <3> QED BY <1>1, <1>5, <2>2, <3>1, <3>2
  <2> QED BY <2>1, <2>2
<1> QED BY <1>8, <1>9, <1>10, <1>11, <1>12 DEF EnvelopeInv

\* No step of a handler breaks the invariant.
LEMMA EnvelopeNextInv == EnvelopeInv /\ [EnvelopeNext]_envelopeVars => EnvelopeInv'
<1> SUFFICES ASSUME EnvelopeInv, [EnvelopeNext]_envelopeVars PROVE EnvelopeInv'
  OBVIOUS
<1>1. CASE UNCHANGED envelopeVars
  BY <1>1 DEF envelopeVars, EnvelopeInv, EnvelopeTypeOK, LoadsAreCurrent, TwoLoadsContend,
              TrailsBegin, TrailIsHistory, Loaded, Created
<1>2. CASE EnvelopeNext
  BY <1>2, CreateEnvelopeInv, LoadEnvelopeInv, CommitEnvelopeInv, RollBackInv DEF EnvelopeNext
<1> QED BY <1>1, <1>2

-----------------------------------------------------------------------------
\* The inductive invariant of Envelope holds in every state of it.
THEOREM EnvelopeInvariance == EnvelopeSpec => []EnvelopeInv
  BY EnvelopeInitInv, EnvelopeNextInv, PTL DEF EnvelopeSpec

\* The variables of Envelope keep their types.
THEOREM EnvelopeTypes == EnvelopeSpec => []EnvelopeTypeOK
  BY EnvelopeInvariance, PTL DEF EnvelopeInv

\* The audit trail of an envelope tells its history without a gap, for trails of
\* any length, if no two handlers had the envelope loaded at a time.
THEOREM EnvelopeTrailIsHistory == EnvelopeSpec => []TrailIsHistory
  BY EnvelopeInvariance, PTL DEF EnvelopeInv

\* update_envelope_status() follows VALID_STATUS_TRANSITIONS unless two of them
\* had the envelope loaded at a time.
THEOREM EnvelopeLegalUnlessRaced == EnvelopeSpec => LegalUnlessRaced
<1> DEFINE Legal == \A v \in Envelopes :
                        Created(v) /\ env'[v].status # env[v].status =>
                            env'[v].status \in Transitions[env[v].status] \/ v \in contended
<1>1. EnvelopeInv /\ [EnvelopeNext]_envelopeVars => [Legal]_envelopeVars
  <2> SUFFICES ASSUME EnvelopeInv, EnvelopeNext, NEW v \in Envelopes, Created(v),
                      env'[v].status # env[v].status
               PROVE  env'[v].status \in Transitions[env[v].status] \/ v \in contended
    OBVIOUS
  <2>1. CASE \E u \in Envelopes, routed, send_immediately \in BOOLEAN :
                 CreateEnvelope(u, routed, send_immediately)
    BY <2>1 DEF CreateEnvelope, EnvelopeInv, EnvelopeTypeOK, Created
  <2>2. CASE \E p \in Pods : RollBack(p) \/ \E u \in Envelopes, to \in EnvelopeStatus :
                                                LoadEnvelope(p, u, to)
    BY <2>2 DEF RollBack, LoadEnvelope
  <2>3. ASSUME NEW p \in Pods, CommitEnvelope(p)
        PROVE  env'[v].status \in Transitions[env[v].status] \/ v \in contended
    <3> DEFINE u == tx[p].envelope
    <3>1. /\ u \in Envelopes /\ Loaded(p, u) /\ env[u] \in EnvelopeRow /\ tx[p] \in Update
          /\ env' = [env EXCEPT ![u] = Stamped(env[u], tx[p].to)]
      BY <2>3, CommitEnvelopeStep
    <3>2. u = v /\ env'[v] = Stamped(env[v], tx[p].to)
      BY <3>1 DEF EnvelopeInv, EnvelopeTypeOK
    <3>3. env'[v].status = tx[p].to
      BY <3>1, <3>2, EnvelopeRows
    <3> QED BY <3>1, <3>2, <3>3 DEF EnvelopeInv, LoadsAreCurrent
  <2> QED BY <2>1, <2>2, <2>3 DEF EnvelopeNext
<1> QED BY <1>1, EnvelopeInvariance, PTL DEF EnvelopeSpec, LegalUnlessRaced

-----------------------------------------------------------------------------
(* DepartmentTree: the inductive invariant. *)

\* Parents, and whatever a request works with, are rows.
DepartmentsExist ==
    /\ \A d \in Departments : parent[d] \in Rows \cup {Top, Missing}
    /\ \A p \in Pods : ~Free(p) =>
           /\ change[p].dept \in Rows /\ change[p].to \in Rows
           /\ change[p].at \in Rows \cup {Top}
           /\ change[p].known \subseteq Rows

\* What a walk has seen on its way up, without the department it is for
Chain(c) == c.known \ {c.dept}

\* The walk of a request nobody overtook has followed every edge from the new
\* parent on to where it is, and has not met the department.
WalkFollowsTree(c) ==
    /\ c.dept \in c.known
    /\ c.to \in Chain(c) \cup {c.at}
    /\ \A d \in Chain(c) : parent[d] \in Chain(c) \cup {c.at}

WalksFollowTree == \A p \in Pods : ~Free(p) /\ p \notin passed => WalkFollowsTree(change[p])

DepartmentInv ==
    DepartmentTypeOK /\ DepartmentsExist /\ WalksFollowTree /\ CyclesNeedARace

ChangeType == [dept : Departments, to : Departments, at : Departments \cup {Top},
               known : SUBSET Departments, had : Departments \cup {Top}]

\* An id is neither of the two codes, and no department is a pod.
LEMMA DepartmentIds == /\ \A d \in Departments : d # Top /\ d # Missing /\ d \notin Pods
                       /\ Top # Missing
                       /\ NoChange \notin ChangeType
  BY DepartmentAssumption DEF Top, Missing, NoChange, ChangeType

\* The empty tree satisfies the invariant.
LEMMA DepartmentInitInv == DepartmentInit => DepartmentInv
<1> SUFFICES ASSUME DepartmentInit PROVE DepartmentInv
  OBVIOUS
<1>1. DepartmentTypeOK
  BY DEF DepartmentInit, DepartmentTypeOK
<1>2. DepartmentsExist /\ WalksFollowTree
  BY DEF DepartmentInit, DepartmentsExist, WalksFollowTree, Free
<1>3. CyclesNeedARace
  BY DepartmentIds DEF DepartmentInit, CyclesNeedARace
<1> QED BY <1>1, <1>2, <1>3 DEF DepartmentInv

\* A new department is nobody's parent.
LEMMA CreateDepartmentInv ==
    ASSUME DepartmentInv, NEW d \in Departments, NEW m \in Departments \cup {Top},
           CreateDepartment(d, m)
    PROVE  DepartmentInv'
<1>1. /\ parent[d] = Missing /\ m \in Rows \cup {Top} /\ d \notin Rows
      /\ parent' = [parent EXCEPT ![d] = m]
      /\ UNCHANGED <<change, passed>>
  BY DEF CreateDepartment, Rows
<1>2. DepartmentTypeOK'
  BY <1>1 DEF DepartmentInv, DepartmentTypeOK
<1>3. \A x \in Departments : parent'[x] = IF x = d THEN m ELSE parent[x]
  BY <1>1 DEF DepartmentInv, DepartmentTypeOK
<1>4. Rows' = Rows \cup {d}
  BY <1>1, <1>3, DepartmentIds DEF Rows
<1>5. DepartmentsExist'
  BY <1>1, <1>3, <1>4 DEF DepartmentInv, DepartmentsExist, Free
<1>6. WalksFollowTree'
  BY <1>1, <1>3 DEF DepartmentInv, DepartmentsExist, WalksFollowTree, WalkFollowsTree, Chain,
                    Free, Rows
<1>7. CyclesNeedARace'
  <2> SUFFICES ASSUME NEW T \in SUBSET Departments, T # {}, \A x \in T : parent'[x] \in T
               PROVE  T \cap passed # {}
    BY <1>1 DEF CyclesNeedARace
  <2>1. ASSUME NEW x \in T \ {d} PROVE parent[x] \in T \ {d}
    <3>1. parent[x] \in T
      BY <1>3, <2>1
    <3>2. parent[x] \in Rows
      BY <2>1, <3>1, DepartmentIds DEF DepartmentInv, DepartmentsExist
    <3> QED BY <1>1, <3>1, <3>2
  <2>2. T \ {d} # {}
    BY <1>1, <1>3, DepartmentIds
  <2> QED BY <2>1, <2>2 DEF DepartmentInv, CyclesNeedARace
<1> QED BY <1>2, <1>5, <1>6, <1>7 DEF DepartmentInv

\* A step of p that writes no row: its request becomes c, or it has none.
LEMMA DepartmentReadInv ==
    ASSUME DepartmentInv, NEW p \in Pods, NEW c \in ChangeType \cup {NoChange},
           change' = [change EXCEPT ![p] = c],
           UNCHANGED parent, passed' = passed \/ (c = NoChange /\ passed' = passed \ {p}),
           c # NoChange => /\ c.dept \in Rows /\ c.to \in Rows /\ c.at \in Rows \cup {Top}
                           /\ c.known \subseteq Rows
                           /\ p \notin passed => WalkFollowsTree(c)
    PROVE  DepartmentInv'
<1>1. /\ change' \in [Pods -> ChangeType \cup {NoChange}]
      /\ \A q \in Pods : change'[q] = IF q = p THEN c ELSE change[q]
  BY DEF DepartmentInv, DepartmentTypeOK, ChangeType
<1>2. DepartmentTypeOK'
  BY <1>1 DEF DepartmentInv, DepartmentTypeOK, ChangeType
<1>3. Rows' = Rows
  BY DEF Rows
<1>4. DepartmentsExist'
  BY <1>1, <1>3 DEF DepartmentInv, DepartmentsExist, Free
<1>5. WalksFollowTree'
  BY <1>1 DEF DepartmentInv, WalksFollowTree, WalkFollowsTree, Chain, Free
<1>6. CyclesNeedARace'
  BY DepartmentIds DEF DepartmentInv, CyclesNeedARace
<1> QED BY <1>2, <1>4, <1>5, <1>6 DEF DepartmentInv

\* A step that gives the row d the parent m and passes all other requests.
LEMMA DepartmentWriteInv ==
    ASSUME DepartmentInv, NEW p \in Pods, NEW d \in Rows, NEW m \in Rows \cup {Top},
           parent' = [parent EXCEPT ![d] = m],
           change' = [change EXCEPT ![p] = NoChange],
           passed' \subseteq passed \cup Pods \cup {d},
           Others(p) \subseteq passed',
           \A x \in Departments \ {d} : x \in passed => x \in passed',
           \A T \in SUBSET Departments :
               d \in T /\ (\A x \in T : parent'[x] \in T) => T \cap passed' # {}
    PROVE  DepartmentInv'
<1> USE DEF Rows
<1>1. /\ parent' \in [Departments -> Departments \cup {Top, Missing}]
      /\ \A x \in Departments : parent'[x] = IF x = d THEN m ELSE parent[x]
  BY DEF DepartmentInv, DepartmentTypeOK
<1>2. /\ change' \in [Pods -> ChangeType \cup {NoChange}]
      /\ \A q \in Pods : change'[q] = IF q = p THEN NoChange ELSE change[q]
  BY DEF DepartmentInv, DepartmentTypeOK, ChangeType
<1>3. DepartmentTypeOK'
  BY <1>1, <1>2 DEF DepartmentInv, DepartmentTypeOK, ChangeType
<1>4. Rows' = Rows
  BY <1>1, DepartmentIds
<1>5. DepartmentsExist'
  BY <1>1, <1>2, <1>4 DEF DepartmentInv, DepartmentsExist, Free
<1>6. WalksFollowTree'
  BY <1>2 DEF WalksFollowTree, Free, Others
<1>7. CyclesNeedARace'
  <2> SUFFICES ASSUME NEW T \in SUBSET Departments, T # {}, \A x \in T : parent'[x] \in T,
                      d \notin T
               PROVE  T \cap passed' # {}
    BY DEF CyclesNeedARace
  <2>1. T \cap passed # {}
    BY <1>1 DEF DepartmentInv, CyclesNeedARace
  <2> QED BY <2>1
<1> QED BY <1>3, <1>5, <1>6, <1>7 DEF DepartmentInv

\* The commit of a change that sends an UPDATE: the chain of an undisturbed walk
\* goes to the top, so that a cycle through the department would have a part in
\* the chain which was closed before.
LEMMA CommitChangeInv ==
    ASSUME DepartmentInv, NEW p \in Pods, CommitChange(p)
    PROVE  DepartmentInv'
<1> DEFINE c == change[p]
           d == c.dept
           m == c.to
<1>1. /\ c \in ChangeType /\ d \in Rows /\ m \in Rows /\ c.at = Top
      /\ change' = [change EXCEPT ![p] = NoChange]
  BY DEF CommitChange, Done, Free, DepartmentInv, DepartmentTypeOK, DepartmentsExist, ChangeType
<1>2. CASE m = c.had
  <2>1. UNCHANGED parent /\ passed' = passed \ {p}
    BY <1>2 DEF CommitChange
  <2> QED BY <1>1, <2>1, DepartmentReadInv
<1>3. CASE m # c.had
  <2>1. /\ parent' = [parent EXCEPT ![d] = m]
        /\ passed' = (passed \cup Others(p) \cup (IF p \in passed THEN {d} ELSE {}))
                         \ ({p} \cup (IF p \in passed THEN {} ELSE {d}))
    BY <1>3 DEF CommitChange
  <2>2. d \in Departments /\ d # p /\ d \notin Pods /\ m \in Departments
    BY <1>1, DepartmentIds DEF Rows
  <2>3. Others(p) \subseteq passed' /\ passed' \subseteq passed \cup Pods \cup {d}
    BY <2>1, <2>2 DEF Others
  <2>4. \A x \in Departments \ {d} : x \in passed => x \in passed'
    BY <2>1, DepartmentIds
  <2>5. \A x \in Departments : parent'[x] = IF x = d THEN m ELSE parent[x]
    BY <2>1 DEF DepartmentInv, DepartmentTypeOK
  <2>6. ASSUME NEW T \in SUBSET Departments, d \in T, \A x \in T : parent'[x] \in T
        PROVE  T \cap passed' # {}
    <3>1. CASE p \in passed
      BY <2>1, <2>2, <2>6, <3>1
    <3>2. CASE p \notin passed
      <4>1. WalkFollowsTree(c) /\ Chain(c) \subseteq Departments
        BY <1>1, <3>2 DEF CommitChange, DepartmentInv, WalksFollowTree, ChangeType, Chain
      <4>2. m \in T \cap Chain(c)
        BY <1>1, <2>2, <2>5, <2>6, <4>1, DepartmentIds DEF WalkFollowsTree
      <4>3. ASSUME NEW x \in T \cap Chain(c) PROVE parent[x] \in T \cap Chain(c)
        <5>1. x # d /\ parent[x] \in T
          BY <2>5, <2>6, <4>3 DEF Chain
        <5>2. parent[x] \in Chain(c) \cup {Top}
          BY <1>1, <4>1 DEF WalkFollowsTree
        <5> QED BY <5>1, <5>2, DepartmentIds
      <4>4. T \cap Chain(c) \cap passed # {}
        <5>1. T \cap Chain(c) \in SUBSET Departments
          OBVIOUS
        <5> QED BY <4>2, <4>3, <5>1 DEF DepartmentInv, CyclesNeedARace
      <4> QED BY <2>4, <4>4 DEF Chain
    <3> QED BY <3>1, <3>2
  <2> QED BY <1>1, <2>1, <2>3, <2>4, <2>6, DepartmentWriteInv
<1> QED BY <1>2, <1>3

\* No step of a request on departments breaks the invariant.
LEMMA DepartmentNextInv == DepartmentInv /\ [DepartmentNext]_departmentVars => DepartmentInv'
<1> SUFFICES ASSUME DepartmentInv, [DepartmentNext]_departmentVars PROVE DepartmentInv'
  OBVIOUS
<1>1. CASE UNCHANGED departmentVars
  BY <1>1 DEF departmentVars, DepartmentInv, DepartmentTypeOK, DepartmentsExist, Rows, Free,
              WalksFollowTree, WalkFollowsTree, Chain, CyclesNeedARace
<1>2. ASSUME NEW d \in Departments, NEW m \in Departments \cup {Top}, CreateDepartment(d, m)
      PROVE  DepartmentInv'
  BY <1>2, CreateDepartmentInv
<1>3. ASSUME NEW p \in Pods, NEW d \in Departments, NEW m \in Departments, StartChange(p, d, m)
      PROVE  DepartmentInv'
  <2> DEFINE c == [dept |-> d, to |-> m, at |-> m, known |-> {d}, had |-> parent[d]]
  <2>1. c \in ChangeType /\ d \in Rows /\ m \in Rows
    BY <1>3 DEF StartChange, ChangeType, Rows, DepartmentInv, DepartmentTypeOK
  <2>2. WalkFollowsTree(c)
    BY DEF WalkFollowsTree, Chain
  <2> QED BY <1>3, <2>1, <2>2, DepartmentReadInv DEF StartChange
<1>4. ASSUME NEW p \in Pods, NEW d \in Departments, ToTop(p, d) PROVE DepartmentInv'
  <2>1. /\ d \in Rows /\ change[p] = NoChange /\ parent' = [parent EXCEPT ![d] = Top]
        /\ passed' = (passed \cup Others(p)) \ {d} /\ UNCHANGED change
    BY <1>4 DEF ToTop, Free
  <2>2. change' = [change EXCEPT ![p] = NoChange]
    BY <2>1 DEF DepartmentInv, DepartmentTypeOK
  <2>3. parent'[d] = Top /\ d \notin Pods
    BY <2>1, DepartmentIds DEF DepartmentInv, DepartmentTypeOK
  <2>4. \A T \in SUBSET Departments : ~(d \in T /\ \A x \in T : parent'[x] \in T)
    BY <2>3, DepartmentIds
  <2>5. /\ passed' \subseteq passed \cup Pods \cup {d}
        /\ Others(p) \subseteq passed'
        /\ \A x \in Departments \ {d} : x \in passed => x \in passed'
    BY <2>1, <2>3 DEF Others
  <2>6. Top \in Rows \cup {Top}
    OBVIOUS
  <2> QED BY <2>1, <2>2, <2>4, <2>5, <2>6, DepartmentWriteInv
<1>5. ASSUME NEW p \in Pods, WalkUp(p) PROVE DepartmentInv'
  <2> DEFINE c == change[p]
             n == [c EXCEPT !.at = parent[c.at], !.known = @ \cup {c.at}]
  <2>1. /\ c \in ChangeType /\ c.at \in Rows /\ c.at \notin c.known
        /\ c.dept \in Rows /\ c.to \in Rows /\ c.known \subseteq Rows
    BY <1>5 DEF WalkUp, Round, Free, DepartmentInv, DepartmentTypeOK, DepartmentsExist, ChangeType
  <2>2. parent[c.at] \in Rows \cup {Top} /\ Rows \subseteq Departments
    BY <2>1 DEF DepartmentInv, DepartmentsExist, Rows
  <2>3. /\ n \in ChangeType /\ n.dept = c.dept /\ n.to = c.to /\ n.at = parent[c.at]
        /\ n.known = c.known \cup {c.at}
    BY <2>1, <2>2 DEF ChangeType
  <2>4. ASSUME p \notin passed PROVE WalkFollowsTree(n)
    <3>1. WalkFollowsTree(c)
      BY <1>5, <2>4 DEF WalkUp, DepartmentInv, WalksFollowTree
    <3>2. Chain(n) = Chain(c) \cup {c.at}
      BY <2>1, <2>3, <3>1 DEF Chain, WalkFollowsTree
    <3> QED BY <2>3, <3>1, <3>2 DEF WalkFollowsTree
  <2>5. change' = [change EXCEPT ![p] = n] /\ UNCHANGED <<parent, passed>>
    BY <1>5 DEF WalkUp
  <2> QED BY <2>1, <2>2, <2>3, <2>4, <2>5, DepartmentReadInv
<1>6. ASSUME NEW p \in Pods, Refuse(p) PROVE DepartmentInv'
  BY <1>6, DepartmentReadInv DEF Refuse, Done
<1>7. ASSUME NEW p \in Pods, CommitChange(p) PROVE DepartmentInv'
  BY <1>7, CommitChangeInv
<1> QED BY <1>1, <1>2, <1>3, <1>4, <1>5, <1>6, <1>7 DEF DepartmentNext

\* The inductive invariant of DepartmentTree holds in every state of it.
THEOREM DepartmentInvariance == DepartmentSpec => []DepartmentInv
  BY DepartmentInitInv, DepartmentNextInv, PTL DEF DepartmentSpec

\* The variables of DepartmentTree keep their types.
THEOREM DepartmentTypes == DepartmentSpec => []DepartmentTypeOK
  BY DepartmentInvariance, PTL DEF DepartmentInv

\* update_department() closes no cycle of departments unless a move that another
\* overtook takes part in it, for cycles of any length.
THEOREM DepartmentCyclesNeedARace == DepartmentSpec => []CyclesNeedARace
  BY DepartmentInvariance, PTL DEF DepartmentInv

-----------------------------------------------------------------------------
(* WorkSchedules: the inductive invariant. *)

\* Lawful as stored, or but for the rounding of its hours
Lawful(row, up) == \/ Compliant(row.hours, row.days, row.break)
                   \/ up /\ row.hours = 6 * Hour * row.days

RoundsUp(sent) == sent.hours # Keep /\ Stored(sent.hours) > sent.hours

\* What the UPDATE of the columns that were sent makes of a row
After(row, sent) == [hours  |-> IF sent.hours = Keep THEN row.hours ELSE Stored(sent.hours),
                     days   |-> IF sent.days = Keep THEN row.days ELSE sent.days,
                     break  |-> IF sent.break = Keep THEN row.break ELSE sent.break,
                     active |-> IF sent.active = Keep THEN row.active ELSE sent.active]

\* A request in progress has a row to write; what one that nobody overtook will
\* make of it has been checked; deactivating sends nothing the law looks at.
EditsAreChecked ==
    \A p \in Pods : edit[p] # NoEdit =>
        LET sent == edit[p].sent
        IN  /\ schedule # NoRow
            /\ edit[p].op = "deactivate" =>
                   sent.hours = Keep /\ sent.days = Keep /\ sent.break = Keep
            /\ edit[p].op = "update" /\ p \notin stale =>
                   sent.break = 0 \/ Lawful(After(schedule, sent), RoundsUp(sent))

ScheduleInv == ScheduleTypeOK /\ EditsAreChecked /\ StaysLawful

EditType == [op : {"update", "deactivate"}, sent : Changes]

\* Rounding to hundredths passes no whole number of hours.
LEMMA StoredHours ==
    ASSUME NEW h \in Nat
    PROVE  /\ Stored(h) \in Nat
           /\ \A k \in Nat : h <= Hour * k => Stored(h) <= Hour * k
<1> DEFINE n == (h + 5) \div 10
<1>1. n \in Nat /\ 10 * n <= h + 5
  OBVIOUS
<1>2. Stored(h) = 10 * n
  BY DEF Stored
<1> HIDE DEF n
<1>3. ASSUME NEW k \in Nat, h <= Hour * k PROVE n <= 100 * k
  BY <1>1, <1>3 DEF Hour
<1>4. ASSUME NEW k \in Nat, h <= Hour * k PROVE 10 * n <= Hour * k
  BY <1>1, <1>3, <1>4 DEF Hour
<1> QED BY <1>1, <1>2, <1>4

\* A request's hours are in range, and so is what is stored of them.
LEMMA HoursInRange ==
    ASSUME NEW h \in Hours
    PROVE  h \in 0..168 * Hour /\ Stored(h) \in 0..168 * Hour
<1>1. Hour \in Nat
  BY DEF Hour
<1>2. h \in Nat /\ h <= Hour * 168 /\ Hour * 168 = 168 * Hour
  BY <1>1, ScheduleAssumption
<1>3. Stored(h) \in Nat /\ Stored(h) <= Hour * 168
  <2>1. \A k \in Nat : h <= Hour * k => Stored(h) <= Hour * k
    BY <1>2, StoredHours
  <2> QED BY <1>2, <2>1, StoredHours
<1> QED BY <1>1, <1>2, <1>3

\* A value of a column is none of the codes.
LEMMA ScheduleRows ==
    /\ NoEdit \notin EditType
    /\ NoRow \notin ScheduleRow
    /\ \A row \in ScheduleRow : /\ row.hours \in 0..168 * Hour /\ row.days \in 1..7 /\ row.break \in 0..180
                                /\ DOMAIN row = {"hours", "days", "break", "active"}
<1>1. NoEdit \notin EditType
  <2>1. NoEdit.op = "idle" /\ \A e \in EditType : e.op # "idle"
    BY DEF NoEdit, EditType
  <2> QED BY <2>1
<1>2. NoRow \notin ScheduleRow
  <2>1. NoRow.hours = -1 /\ \A row \in ScheduleRow : row.hours # -1
    <3>1. ASSUME NEW row \in ScheduleRow PROVE row.hours \in 0..168 * Hour
      BY HoursInRange DEF ScheduleRow
    <3> QED BY <3>1 DEF NoRow, Keep
  <2> QED BY <2>1
<1>3. ASSUME NEW row \in ScheduleRow
      PROVE  /\ row.hours \in 0..168 * Hour /\ row.days \in 1..7 /\ row.break \in 0..180
             /\ DOMAIN row = {"hours", "days", "break", "active"}
  <2>1. PICK h \in Hours : row.hours = Stored(h)
    BY DEF ScheduleRow
  <2>2. row.hours \in 0..168 * Hour
    BY <2>1, HoursInRange
  <2>3. row.days \in 1..7
    BY ScheduleAssumption DEF ScheduleRow
  <2>4. row.break \in 0..180
    BY ScheduleAssumption DEF ScheduleRow
  <2>5. DOMAIN row = {"hours", "days", "break", "active"}
    BY DEF ScheduleRow
  <2> QED BY <2>2, <2>3, <2>4, <2>5
<1> QED BY <1>1, <1>2, <1>3

\* What is sent keeps the types, and a column that is not sent is Keep.
LEMMA SentChanges ==
    ASSUME NEW row \in ScheduleRow, NEW new \in Changes
    PROVE  LET sent == Sent(new, row)
           IN  /\ sent \in Changes
               /\ sent.hours = IF new.hours = row.hours THEN Keep ELSE new.hours
               /\ sent.days = IF new.days = row.days THEN Keep ELSE new.days
               /\ sent.break = IF new.break = row.break THEN Keep ELSE new.break
<1>1. DOMAIN new = {"hours", "days", "break", "active"}
  BY DEF Changes
<1> QED BY <1>1 DEF Sent, Changes, ScheduleRow

\* The row after the UPDATE is a row again.
LEMMA AfterIsRow ==
    ASSUME NEW row \in ScheduleRow, NEW sent \in Changes
    PROVE  /\ After(row, sent) \in ScheduleRow
           /\ [c \in DOMAIN row |-> CASE sent[c] = Keep -> row[c]
                                     [] sent[c] # Keep /\ c = "hours" -> Stored(sent[c])
                                     [] OTHER -> sent[c]] = After(row, sent)
<1> DEFINE f == [c \in DOMAIN row |-> CASE sent[c] = Keep -> row[c]
                                     [] sent[c] # Keep /\ c = "hours" -> Stored(sent[c])
                                     [] OTHER -> sent[c]]
<1>1. DOMAIN row = {"hours", "days", "break", "active"}
  BY ScheduleRows
<1>2. /\ f["hours"] = After(row, sent).hours /\ f["days"] = After(row, sent).days
      /\ f["break"] = After(row, sent).break /\ f["active"] = After(row, sent).active
  BY <1>1 DEF After
<1>3. f = After(row, sent)
  BY <1>1, <1>2 DEF After
<1>4. After(row, sent) \in ScheduleRow
  BY DEF After, Changes, ScheduleRow
<1> QED BY <1>3, <1>4

\* Of hours that are lawful, rounding can only bring those under 6 a day to 6.
LEMMA RoundedIsLawful ==
    ASSUME NEW h \in Nat, NEW d \in Nat, NEW b \in Nat, Compliant(h, d, b)
    PROVE  Compliant(Stored(h), d, b) \/ (Stored(h) > h /\ Stored(h) = 6 * Hour * d)
<1>1. Stored(h) \in Nat /\ \A k \in Nat : h <= Hour * k => Stored(h) <= Hour * k
  BY StoredHours
<1>2. Hour \in Nat /\ Hour * d \in Nat
  BY DEF Hour
<1>3. /\ Hour * (10 * d) = 10 * Hour * d /\ Hour * (6 * d) = 6 * Hour * d
      /\ Hour * 48 = 48 * Hour
  BY <1>2
<1>4. /\ h <= 10 * Hour * d => Stored(h) <= 10 * Hour * d
      /\ h <= 6 * Hour * d => Stored(h) <= 6 * Hour * d
      /\ h <= 48 * Hour => Stored(h) <= 48 * Hour
  <2>1. 10 * d \in Nat /\ 6 * d \in Nat /\ 48 \in Nat
    OBVIOUS
  <2> QED BY <1>1, <1>3, <2>1
<1> DEFINE six == 6 * Hour * d
           ten == 10 * Hour * d
           most == 48 * Hour
<1>5. six \in Nat /\ ten \in Nat /\ most \in Nat
  BY <1>2
<1>6. /\ h <= ten /\ h <= most /\ (h >= six => b >= 30)
      /\ Stored(h) <= ten /\ Stored(h) <= most /\ (h <= six => Stored(h) <= six)
  BY <1>4 DEF Compliant
<1>7. Compliant(Stored(h), d, b) <=> (Stored(h) >= six => b >= 30)
  BY <1>6 DEF Compliant
<1> HIDE DEF six, ten, most
<1>8. (Stored(h) >= six => b >= 30) \/ (Stored(h) > h /\ Stored(h) = six)
  BY <1>1, <1>5, <1>6
<1> QED BY <1>7, <1>8 DEF six

\* The check of update_schedule() is one of the row as it will be, but for a
\* break of 0 and for the rounding: a 0 that counts as not given is lawful as
\* hours and no value for days.
LEMMA CheckedIsLawful ==
    ASSUME NEW row \in ScheduleRow, NEW new \in Changes,
           Compliant(Given(new.hours, row.hours), Given(new.days, row.days),
                     Given(new.break, row.break)),
           Sent(new, row).break # 0
    PROVE  Lawful(After(row, Sent(new, row)), RoundsUp(Sent(new, row)))
<1> DEFINE sent == Sent(new, row)
           after == After(row, sent)
<1> SUFFICES Lawful(after, RoundsUp(sent))
  OBVIOUS
<1>1. /\ new.hours \in Hours \cup {Keep} /\ new.days \in Days \cup {Keep}
      /\ new.break \in Breaks \cup {Keep}
  BY DEF Changes
<1>2. after.days = Given(new.days, row.days)
  BY <1>1, ScheduleRows, ScheduleAssumption, SentChanges DEF After, Given, Keep
<1>3. after.break = Given(new.break, row.break)
  BY <1>1, ScheduleRows, ScheduleAssumption, SentChanges DEF After, Given, Keep
<1>4. \/ sent.hours = 0
      \/ sent.hours = Keep /\ after.hours = Given(new.hours, row.hours)
      \/ sent.hours # Keep /\ sent.hours = Given(new.hours, row.hours)
  BY <1>1, ScheduleRows, HoursInRange, SentChanges DEF After, Given, Keep
<1>5. after \in ScheduleRow /\ sent \in Changes
  BY AfterIsRow, SentChanges
<1>6. CASE sent.hours # Keep /\ sent.hours = Given(new.hours, row.hours)
  <2>1. sent.hours \in Nat /\ after.hours = Stored(sent.hours)
    BY <1>5, <1>6, HoursInRange DEF Changes, After
  <2>2. after.days \in Nat /\ after.break \in Nat
    BY <1>5, ScheduleRows
  <2>3. Compliant(sent.hours, after.days, after.break)
    BY <1>2, <1>3, <1>6
  <2> HIDE DEF sent, after
  <2> QED BY <1>6, <2>1, <2>2, <2>3, RoundedIsLawful DEF Lawful, RoundsUp
<1>7. CASE sent.hours = 0
  <2>1. after.hours = 0
    BY <1>7 DEF After, Stored, Keep
  <2>2. after.days \in 1..7
    BY <1>5, ScheduleRows
  <2>3. Hour \in Nat /\ Hour > 0 /\ Hour * after.days > 0
    BY <2>2 DEF Hour
  <2>4. /\ 6 * Hour * after.days = 6 * (Hour * after.days)
        /\ 10 * Hour * after.days = 10 * (Hour * after.days)
    BY <2>2, <2>3
  <2> HIDE DEF after
  <2> QED BY <2>1, <2>2, <2>3, <2>4 DEF Lawful, Compliant
<1>8. CASE sent.hours = Keep /\ after.hours = Given(new.hours, row.hours)
  BY <1>2, <1>3, <1>8 DEF Lawful
<1> QED BY <1>4, <1>6, <1>7, <1>8

\* A request that reads the row and checks it knows what it has checked.
LEMMA BeginInv ==
    ASSUME ScheduleInv, NEW p \in Pods, NEW op \in {"update", "deactivate"},
           NEW new \in Changes, Begin(p, op, new),
           op = "update" => Compliant(Given(new.hours, schedule.hours),
                                      Given(new.days, schedule.days),
                                      Given(new.break, schedule.break)),
           op = "deactivate" => new.hours = Keep /\ new.days = Keep /\ new.break = Keep
    PROVE  ScheduleInv'
<1> DEFINE sent == Sent(new, schedule)
<1>1. /\ schedule \in ScheduleRow /\ sent \in Changes
      /\ edit' = [edit EXCEPT ![p] = [op |-> op, sent |-> sent]]
      /\ UNCHANGED <<schedule, stale, doubtful, rounded>>
  BY SentChanges DEF Begin, ScheduleInv, ScheduleTypeOK
<1> HIDE DEF sent
<1>2. \A q \in Pods : edit'[q] = IF q = p THEN [op |-> op, sent |-> sent] ELSE edit[q]
  BY <1>1 DEF ScheduleInv, ScheduleTypeOK
<1>3. ScheduleTypeOK' /\ StaysLawful'
  BY <1>1 DEF ScheduleInv, ScheduleTypeOK, StaysLawful
<1>4. op = "deactivate" => sent.hours = Keep /\ sent.days = Keep /\ sent.break = Keep
  BY <1>1, SentChanges DEF sent
<1>5. op = "update" => sent.break = 0 \/ Lawful(After(schedule, sent), RoundsUp(sent))
  BY <1>1, CheckedIsLawful DEF sent
<1>6. EditsAreChecked'
  BY <1>1, <1>2, <1>4, <1>5, ScheduleRows DEF ScheduleInv, EditsAreChecked
<1> QED BY <1>3, <1>6 DEF ScheduleInv

\* A commit that changes the row overtakes all other requests; an update nobody
\* overtook makes of the row what was checked.
LEMMA CommitEditInv ==
    ASSUME ScheduleInv, NEW p \in Pods, CommitEdit(p)
    PROVE  ScheduleInv'
<1> DEFINE sent == edit[p].sent
<1>1. /\ edit[p] \in EditType /\ sent \in Changes /\ schedule \in ScheduleRow
      /\ edit' = [edit EXCEPT ![p] = NoEdit]
  BY DEF CommitEdit, ScheduleInv, ScheduleTypeOK, EditsAreChecked, EditType
<1>2. /\ schedule' = After(schedule, sent)
      /\ stale' = (IF schedule' = schedule THEN stale
                   ELSE stale \cup {q \in Pods : edit[q] # NoEdit}) \ {p}
      /\ doubtful' = IF edit[p].op = "update" THEN p \in stale \/ sent.break = 0 ELSE doubtful
      /\ rounded' = IF edit[p].op = "update" THEN RoundsUp(sent) ELSE rounded
  BY <1>1, AfterIsRow DEF CommitEdit, RoundsUp
<1>3. schedule' \in ScheduleRow
  BY <1>1, <1>2, AfterIsRow
<1>4. \A q \in Pods : edit'[q] = IF q = p THEN NoEdit ELSE edit[q]
  BY <1>1 DEF ScheduleInv, ScheduleTypeOK
<1>5. ScheduleTypeOK'
  <2>1. doubtful' \in BOOLEAN /\ rounded' \in BOOLEAN
    BY <1>2 DEF RoundsUp, ScheduleInv, ScheduleTypeOK
  <2> QED BY <1>1, <1>2, <1>3, <2>1 DEF ScheduleInv, ScheduleTypeOK
<1>6. EditsAreChecked'
  <2> SUFFICES ASSUME NEW q \in Pods, q # p, edit[q] # NoEdit
               PROVE  /\ edit[q].op = "deactivate" =>
                             /\ edit[q].sent.hours = Keep /\ edit[q].sent.days = Keep
                             /\ edit[q].sent.break = Keep
                      /\ edit[q].op = "update" /\ q \notin stale' =>
                             \/ edit[q].sent.break = 0
                             \/ Lawful(After(schedule', edit[q].sent), RoundsUp(edit[q].sent))
    BY <1>3, <1>4, ScheduleRows DEF EditsAreChecked
  <2>1. q \notin stale' => q \notin stale /\ schedule' = schedule
    BY <1>2
  <2> QED BY <2>1 DEF ScheduleInv, EditsAreChecked
<1>7. StaysLawful'
  <2>1. CASE edit[p].op = "update"
    BY <1>1, <1>2, <2>1, ScheduleRows DEF ScheduleInv, EditsAreChecked, StaysLawful, Lawful
  <2>2. CASE edit[p].op = "deactivate"
    <3>1. /\ Lawful(schedule', rounded') = Lawful(schedule, rounded)
          /\ doubtful' = doubtful
      BY <1>1, <1>2, <2>2, ScheduleRows DEF ScheduleInv, EditsAreChecked, After, Lawful
    <3> QED BY <1>1, <3>1, ScheduleRows DEF ScheduleInv, StaysLawful, Lawful
  <2> QED BY <1>1, <2>1, <2>2 DEF EditType
<1> QED BY <1>5, <1>6, <1>7 DEF ScheduleInv

\* No step of a request on the schedule breaks the invariant.
LEMMA ScheduleNextInv == ScheduleInv /\ [ScheduleNext]_scheduleVars => ScheduleInv'
<1> SUFFICES ASSUME ScheduleInv, [ScheduleNext]_scheduleVars PROVE ScheduleInv'
  OBVIOUS
<1>1. CASE UNCHANGED scheduleVars
  BY <1>1 DEF scheduleVars, ScheduleInv, ScheduleTypeOK, EditsAreChecked, StaysLawful
<1>2. ASSUME NEW h \in Hours, NEW d \in Days, NEW b \in Breaks, CreateSchedule(h, d, b)
      PROVE  ScheduleInv'
  <2>1. /\ schedule' = [hours |-> Stored(h), days |-> d, break |-> b, active |-> 1]
        /\ Compliant(h, d, b) /\ schedule = NoRow /\ UNCHANGED <<edit, stale, doubtful>>
        /\ rounded' = (Stored(h) > h)
    BY <1>2 DEF CreateSchedule
  <2>2. h \in Nat /\ d \in Nat /\ b \in Nat
    BY HoursInRange, ScheduleAssumption
  <2>3. schedule' \in ScheduleRow /\ rounded' \in BOOLEAN
    BY <2>1 DEF ScheduleRow
  <2>4. Lawful(schedule', rounded')
    BY <2>1, <2>2, RoundedIsLawful DEF Lawful
  <2> QED BY <2>1, <2>3, <2>4, ScheduleRows DEF ScheduleInv, ScheduleTypeOK, EditsAreChecked,
                                               StaysLawful, Lawful
<1>3. ASSUME NEW p \in Pods, NEW new \in Changes, StartEdit(p, new) PROVE ScheduleInv'
  BY <1>3, BeginInv DEF StartEdit
<1>4. ASSUME NEW p \in Pods, StartDeactivate(p) PROVE ScheduleInv'
  <2> DEFINE new == [hours |-> Keep, days |-> Keep, break |-> Keep, active |-> 0]
  <2>1. new \in Changes
    BY DEF Changes
  <2>2. new.hours = Keep /\ new.days = Keep /\ new.break = Keep /\ Begin(p, "deactivate", new)
    BY <1>4 DEF StartDeactivate
  <2> QED BY <2>1, <2>2, BeginInv
<1>5. ASSUME NEW p \in Pods, CommitEdit(p) PROVE ScheduleInv'
  BY <1>5, CommitEditInv
<1>6. ASSUME NEW p \in Pods, Abort(p) PROVE ScheduleInv'
  <2>1. \A q \in Pods : edit'[q] = IF q = p THEN NoEdit ELSE edit[q]
    BY <1>6 DEF Abort, ScheduleInv, ScheduleTypeOK
  <2>2. ScheduleTypeOK' /\ StaysLawful'
    BY <1>6 DEF Abort, ScheduleInv, ScheduleTypeOK, StaysLawful
  <2>3. EditsAreChecked'
    BY <1>6, <2>1 DEF Abort, ScheduleInv, EditsAreChecked
  <2> QED BY <2>2, <2>3 DEF ScheduleInv
<1> QED BY <1>1, <1>2, <1>3, <1>4, <1>5, <1>6 DEF ScheduleNext

\* The inductive invariant of WorkSchedules holds in every state of it.
THEOREM ScheduleInvariance == ScheduleSpec => []ScheduleInv
<1>1. ScheduleInit => ScheduleInv
  BY DEF ScheduleInit, ScheduleInv, ScheduleTypeOK, EditsAreChecked, StaysLawful
<1> QED BY <1>1, ScheduleNextInv, PTL DEF ScheduleSpec

\* The variables of WorkSchedules keep their types.
THEOREM ScheduleTypes == ScheduleSpec => []ScheduleTypeOK
  BY ScheduleInvariance, PTL DEF ScheduleInv

\* The check of update_schedule() against the row it read keeps labour law, for
\* all hours to the thousandth, days and breaks, unless another process, a break
\* of 0 or the rounding of hours just under 6 a day came in.
THEOREM ScheduleStaysLawful == ScheduleSpec => []StaysLawful
  BY ScheduleInvariance, PTL DEF ScheduleInv

-----------------------------------------------------------------------------
(* Policies: tenure tiers.  validate_policy_config() compares each tier with *)
(* the next in the order of min_years only. *)

\* A set of numbers that is not empty has a least one.
LEMMA LeastNatural ==
    ASSUME NEW S \in SUBSET Nat, S # {}
    PROVE  \E n \in S : \A m \in S : n <= m
<1>1. PICK n \in S : \A m \in S : ~(<<m, n>> \in OpToRel(<, Nat))
  BY NatLessThanWellFounded, WFMin
<1>2. \A m \in S : ~(m < n)
  BY <1>1 DEF OpToRel
<1> QED BY <1>2

Tier == [min : Nat, max : Nat]
Tiers == Seq(Tier)

\* The bounds of a tier are numbers, and a list is indexed from 1.
LEMMA TierNumbers ==
    ASSUME NEW t \in Tiers
    PROVE  /\ DOMAIN t \subseteq Nat
           /\ \A i \in DOMAIN t : t[i].min \in Nat /\ t[i].max \in Nat
<1>1. DOMAIN t = 1..Len(t) /\ Len(t) \in Nat
  BY DEF Tiers
<1>2. \A i \in 1..Len(t) : t[i] \in Tier
  BY DEF Tiers
<1>3. ASSUME NEW i \in DOMAIN t PROVE t[i].min \in Nat /\ t[i].max \in Nat
  <2>1. t[i] \in Tier
    BY <1>1, <1>2
  <2> QED BY <2>1 DEF Tier
<1> QED BY <1>1, <1>3

\* A tier before another one has a next one, which begins no later.
LEMMA NextTier ==
    ASSUME NEW t \in Tiers, NEW a \in DOMAIN t, NEW b \in DOMAIN t, Before(t, a, b)
    PROVE  \E n \in DOMAIN t : NextTo(t, a, n) /\ t[n].min <= t[b].min
<1> DEFINE Later == {i \in DOMAIN t : Before(t, a, i)}
           Starts == {t[i].min : i \in Later}
<1>1. DOMAIN t \subseteq Nat /\ \A i \in DOMAIN t : t[i].min \in Nat
  BY TierNumbers
<1>2. PICK m \in Starts : \A s \in Starts : m <= s
  <2>1. Starts \in SUBSET Nat /\ Starts # {}
    BY <1>1
  <2> QED BY <2>1, LeastNatural
<1> DEFINE Earliest == {i \in Later : t[i].min = m}
<1>3. PICK n \in Earliest : \A i \in Earliest : n <= i
  <2>1. Earliest \in SUBSET Nat /\ Earliest # {}
    BY <1>1, <1>2
  <2> QED BY <2>1, LeastNatural
<1>4. ~\E k \in DOMAIN t : Before(t, a, k) /\ Before(t, k, n)
  <2> SUFFICES ASSUME NEW k \in Later, Before(t, k, n) PROVE FALSE
    OBVIOUS
  <2>1. m <= t[k].min
    BY <1>2
  <2>2. t[k].min = m /\ k < n
    BY <1>1, <1>3, <2>1 DEF Before
  <2> QED BY <1>1, <1>3, <2>2
<1> QED BY <1>2, <1>3, <1>4 DEF NextTo

\* So, if that finds nothing, calculate_tenure_tier() never has a choice, for any
\* number of tiers in any order and any number of years.
LEMMA ValidTiersAreDisjoint ==
    ASSUME NEW t \in Tiers, Valid(t), ~OpenEnded(t), NEW years \in Nat,
           NEW j \in Matching(t, years), NEW k \in Matching(t, years)
    PROVE  j = k
<1>1. /\ DOMAIN t \subseteq Nat
      /\ \A i \in DOMAIN t : t[i].min \in Nat /\ t[i].max \in Nat
  BY TierNumbers
<1>2. ASSUME NEW a \in Matching(t, years), NEW b \in Matching(t, years), Before(t, a, b)
      PROVE  FALSE
  <2>1. a \in DOMAIN t /\ b \in DOMAIN t /\ t[b].min <= years
    BY DEF Matching
  <2>2. t[a].max # 0 /\ years < t[a].max
    BY <1>2, <2>1 DEF OpenEnded, Matching
  <2>3. PICK n \in DOMAIN t : NextTo(t, a, n) /\ t[n].min <= t[b].min
    BY <1>2, <2>1, NextTier
  <2>4. Clash(t, a, n)
    BY <1>1, <2>1, <2>2, <2>3 DEF Clash
  <2> QED BY <2>1, <2>3, <2>4 DEF Valid
<1>3. j = k \/ Before(t, j, k) \/ Before(t, k, j)
  BY <1>1 DEF Before, Matching
<1> QED BY <1>2, <1>3

-----------------------------------------------------------------------------
(* Policies: the inductive invariant. *)

\* What is about to be committed is for a policy there is; an update that nobody
\* overtook brings the next version.
RevisionsFollow ==
    \A p \in Pods : revising[p] # Resting =>
        /\ policy # NoPolicy
        /\ revising[p].do = "update" /\ p \notin behind =>
               revising[p].number = policy.version + 1

\* The tiers a policy was created with were checked.
TiersWereChecked == policy # NoPolicy /\ ~unchecked => Valid(policy.tiers)

PolicyInv == PolicyTypeOK /\ RevisionsFollow /\ TiersWereChecked /\ VersionsAreHistory

Revision == [do : {"update"}, tiers : TierLists \cup {NoTiers}, number : Nat,
             sent : TierLists \cup {NoTiers}]
Archiving == [do |-> "archive"]
Version == [number : Nat, tiers : TierLists \cup {NoTiers}]

\* The codes for no policy and for a request at rest are no values.
LEMMA PolicyRows == /\ NoPolicy \notin PolicyRow
                    /\ Resting \notin Revision \cup {Archiving}
<1>1. NoPolicy.status = "none" /\ \A row \in PolicyRow : row.status # "none"
  BY DEF NoPolicy, PolicyRow
<1>2. Resting.do = "nothing" /\ \A r \in Revision \cup {Archiving} : r.do # "nothing"
  BY DEF Resting, Revision, Archiving
<1> QED BY <1>1, <1>2

\* A step of p that writes nothing: p is about to commit r, or rests.
LEMMA PolicyReadInv ==
    ASSUME PolicyInv, NEW p \in Pods, NEW r \in Revision \cup {Archiving, Resting},
           r # Resting => policy # NoPolicy,
           r # Resting /\ r.do = "update" => r.number = policy.version + 1,
           revising' = [revising EXCEPT ![p] = r],
           behind' = behind \/ (r = Resting /\ behind' = behind \ {p}),
           UNCHANGED <<policy, versions, told, doubled, unchecked>>
    PROVE  PolicyInv'
<1>1. \A q \in Pods : revising'[q] = IF q = p THEN r ELSE revising[q]
  BY DEF PolicyInv, PolicyTypeOK
<1>2. PolicyTypeOK'
  BY DEF PolicyInv, PolicyTypeOK, Revision, Archiving
<1>3. RevisionsFollow'
  BY <1>1 DEF PolicyInv, RevisionsFollow
<1>4. TiersWereChecked' /\ VersionsAreHistory'
  BY DEF PolicyInv, TiersWereChecked, VersionsAreHistory
<1> QED BY <1>2, <1>3, <1>4 DEF PolicyInv

\* create_policy() stores the first version, with no gap behind it.
LEMMA CreatePolicyInv ==
    ASSUME PolicyInv, NEW t \in TierLists \cup {NoTiers}, NEW activate \in BOOLEAN,
           CreatePolicy(t, activate)
    PROVE  PolicyInv'
<1>1. /\ policy = NoPolicy /\ Valid(t)
      /\ policy' = [status |-> IF activate THEN "active" ELSE "draft", version |-> 1, tiers |-> t]
      /\ versions' = <<[number |-> 1, tiers |-> t]>>
      /\ UNCHANGED <<revising, behind, told, doubled, unchecked>>
  BY DEF CreatePolicy
<1>2. policy' \in PolicyRow
  BY <1>1 DEF PolicyRow
<1>3. versions' \in Seq(Version) /\ Len(versions') = 1 /\ versions'[1].number = 1
  <2>1. [number |-> 1, tiers |-> t] \in Version
    BY DEF Version
  <2> QED BY <1>1, <2>1
<1>4. PolicyTypeOK'
  BY <1>1, <1>2, <1>3 DEF PolicyInv, PolicyTypeOK, Version
<1>5. RevisionsFollow'
  BY <1>1 DEF PolicyInv, RevisionsFollow
<1>6. TiersWereChecked'
  BY <1>1 DEF TiersWereChecked
<1>7. VersionsAreHistory'
  <2>1. policy'.version = 1 /\ DOMAIN versions' = 1..1
    BY <1>1, <1>3
  <2> QED BY <1>3, <2>1 DEF VersionsAreHistory
<1> QED BY <1>4, <1>5, <1>6, <1>7 DEF PolicyInv

\* An update that nobody overtook adds the row its version needs, and overtakes
\* all others.
LEMMA CommitUpdateInv ==
    ASSUME PolicyInv, NEW p \in Pods, CommitPolicy(p), revising[p].do # "archive"
    PROVE  PolicyInv'
<1> DEFINE r == revising[p]
           entry == [number |-> r.number, tiers |-> r.tiers]
<1>1. /\ r \in Revision /\ policy \in PolicyRow /\ policy # NoPolicy
      /\ versions \in Seq(Version) /\ entry \in Version
      /\ p \notin behind => r.number = policy.version + 1
  <2>1. r \in Revision
    BY DEF CommitPolicy, PolicyInv, PolicyTypeOK, Revision, Archiving
  <2>2. policy # NoPolicy /\ (p \notin behind => r.number = policy.version + 1)
    BY <2>1 DEF CommitPolicy, PolicyInv, RevisionsFollow, Revision
  <2>3. entry \in Version
    BY <2>1 DEF Revision, Version
  <2> QED BY <2>1, <2>2, <2>3 DEF PolicyInv, PolicyTypeOK, Version
<1>2. /\ policy' = [policy EXCEPT !.version = r.number,
                                  !.tiers = IF r.sent = NoTiers THEN @ ELSE r.sent]
      /\ versions' = Append(versions, entry)
      /\ behind' = (behind \cup {q \in Pods : revising[q] # Resting}) \ {p}
      /\ doubled' = (doubled \/ p \in behind)
      /\ unchecked' = (unchecked \/ r.sent # NoTiers)
      /\ revising' = [revising EXCEPT ![p] = Resting] /\ UNCHANGED told
  BY DEF CommitPolicy
<1>3. /\ policy' \in PolicyRow /\ policy' # NoPolicy /\ policy'.version = r.number
      /\ policy'.tiers = IF r.sent = NoTiers THEN policy.tiers ELSE r.sent
  BY <1>1, <1>2, PolicyRows DEF PolicyRow, Revision
<1>4. /\ versions' \in Seq(Version) /\ Len(versions') = Len(versions) + 1
      /\ \A i \in 1..Len(versions) : versions'[i] = versions[i]
      /\ versions'[Len(versions) + 1] = entry
  BY <1>1, <1>2
<1>5. \A q \in Pods : revising'[q] = IF q = p THEN Resting ELSE revising[q]
  BY <1>2 DEF PolicyInv, PolicyTypeOK
<1>6. PolicyTypeOK'
  BY <1>2, <1>3, <1>4 DEF PolicyInv, PolicyTypeOK, Version
<1>7. RevisionsFollow'
  BY <1>2, <1>3, <1>5 DEF RevisionsFollow
<1>8. TiersWereChecked'
  BY <1>1, <1>2, <1>3 DEF PolicyInv, TiersWereChecked
<1>9. VersionsAreHistory'
  <2> SUFFICES ASSUME ~doubled, p \notin behind
               PROVE  /\ Len(versions') = policy'.version
                      /\ \A i \in DOMAIN versions' : versions'[i].number = i
    BY <1>2 DEF VersionsAreHistory
  <2>1. Len(versions) = policy.version /\ \A i \in 1..Len(versions) : versions[i].number = i
    BY <1>1 DEF PolicyInv, VersionsAreHistory
  <2>2. Len(versions') = r.number /\ entry.number = Len(versions')
    BY <1>1, <1>4, <2>1
  <2>3. DOMAIN versions' = 1..Len(versions') /\ Len(versions) \in Nat
    BY <1>1, <1>4
  <2>4. ASSUME NEW i \in 1..Len(versions') PROVE versions'[i].number = i
    <3>1. CASE i = Len(versions) + 1
      BY <1>4, <2>2, <3>1
    <3>2. CASE i \in 1..Len(versions)
      BY <1>4, <2>1, <3>2
    <3> QED BY <1>4, <2>3, <2>4, <3>1, <3>2
  <2> QED BY <1>3, <2>2, <2>3, <2>4
<1> QED BY <1>6, <1>7, <1>8, <1>9 DEF PolicyInv

\* deactivate_policy() leaves the version and the tiers alone.
LEMMA CommitArchiveInv ==
    ASSUME PolicyInv, NEW p \in Pods, CommitPolicy(p), revising[p].do = "archive"
    PROVE  PolicyInv'
<1>1. /\ policy' = [policy EXCEPT !.status = "archived"]
      /\ behind' = behind \ {p}
      /\ revising' = [revising EXCEPT ![p] = Resting]
      /\ UNCHANGED <<versions, doubled, unchecked, told>>
  BY DEF CommitPolicy
<1>2. policy \in PolicyRow
  BY DEF CommitPolicy, PolicyInv, PolicyTypeOK, RevisionsFollow
<1>3. /\ policy' \in PolicyRow /\ policy' # NoPolicy /\ policy # NoPolicy
      /\ policy'.version = policy.version /\ policy'.tiers = policy.tiers
  BY <1>1, <1>2, PolicyRows DEF PolicyRow
<1>4. \A q \in Pods : revising'[q] = IF q = p THEN Resting ELSE revising[q]
  BY <1>1 DEF PolicyInv, PolicyTypeOK
<1>5. PolicyTypeOK'
  BY <1>1, <1>3 DEF PolicyInv, PolicyTypeOK
<1>6. RevisionsFollow'
  BY <1>1, <1>3, <1>4 DEF PolicyInv, RevisionsFollow
<1>7. TiersWereChecked' /\ VersionsAreHistory'
  BY <1>1, <1>3 DEF PolicyInv, TiersWereChecked, VersionsAreHistory
<1> QED BY <1>5, <1>6, <1>7 DEF PolicyInv

\* No step of a request on the policy breaks the invariant.
LEMMA PolicyNextInv == PolicyInv /\ [PolicyNext]_policyVars => PolicyInv'
<1> SUFFICES ASSUME PolicyInv, [PolicyNext]_policyVars PROVE PolicyInv'
  OBVIOUS
<1>1. CASE UNCHANGED policyVars
  BY <1>1 DEF policyVars, PolicyInv, PolicyTypeOK, RevisionsFollow, TiersWereChecked,
              VersionsAreHistory
<1>2. ASSUME NEW t \in TierLists \cup {NoTiers}, NEW activate \in BOOLEAN,
             CreatePolicy(t, activate)
      PROVE  PolicyInv'
  BY <1>2, CreatePolicyInv
<1>3. CASE Evaluate
  BY <1>3 DEF Evaluate, PolicyInv, PolicyTypeOK, RevisionsFollow, TiersWereChecked,
              VersionsAreHistory
<1>4. ASSUME NEW p \in Pods, NEW t \in TierLists \cup {NoTiers}, ReadForUpdate(p, t)
      PROVE  PolicyInv'
  <2> DEFINE r == [do |-> "update", tiers |-> t, number |-> policy.version + 1,
                   sent |-> IF t = policy.tiers THEN NoTiers ELSE t]
  <2>1. /\ policy # NoPolicy /\ revising' = [revising EXCEPT ![p] = r]
        /\ UNCHANGED <<policy, versions, behind, told, doubled, unchecked>>
    BY <1>4 DEF ReadForUpdate, Bump
  <2>2. policy.version \in Nat
    BY <2>1 DEF PolicyInv, PolicyTypeOK, PolicyRow
  <2>3. r \in Revision /\ r.number = policy.version + 1
    BY <2>2 DEF Revision
  <2> HIDE DEF r
  <2> QED BY <2>1, <2>3, PolicyReadInv
<1>5. ASSUME NEW p \in Pods, ReadForArchive(p) PROVE PolicyInv'
  <2>1. Archiving.do # "update"
    BY DEF Archiving
  <2>2. /\ policy # NoPolicy /\ revising' = [revising EXCEPT ![p] = Archiving]
        /\ UNCHANGED <<policy, versions, behind, told, doubled, unchecked>>
    BY <1>5 DEF ReadForArchive, Archiving
  <2> QED BY <2>1, <2>2, PolicyReadInv
<1>6. ASSUME NEW p \in Pods, CommitPolicy(p) PROVE PolicyInv'
  BY <1>6, CommitUpdateInv, CommitArchiveInv
<1>7. ASSUME NEW p \in Pods, Rollback(p) PROVE PolicyInv'
  BY <1>7, PolicyReadInv DEF Rollback
<1> QED BY <1>1, <1>2, <1>3, <1>4, <1>5, <1>6, <1>7 DEF PolicyNext

\* The inductive invariant of Policies holds in every state of it.
THEOREM PolicyInvariance == PolicySpec => []PolicyInv
<1>1. PolicyInit => PolicyInv
  <2> SUFFICES ASSUME PolicyInit PROVE PolicyInv
    OBVIOUS
  <2>1. PolicyTypeOK
    <3>1. versions \in Seq(Version)
      BY DEF PolicyInit
    <3> QED BY <3>1 DEF PolicyInit, PolicyTypeOK, Version
  <2>2. RevisionsFollow
    BY DEF PolicyInit, RevisionsFollow
  <2>3. TiersWereChecked /\ VersionsAreHistory
    BY DEF PolicyInit, TiersWereChecked, VersionsAreHistory
  <2> QED BY <2>1, <2>2, <2>3 DEF PolicyInv
<1> QED BY <1>1, PolicyNextInv, PTL DEF PolicySpec

\* The variables of Policies keep their types.
THEOREM PolicyTypes == PolicySpec => []PolicyTypeOK
  BY PolicyInvariance, PTL DEF PolicyInv

\* The version table counts the versions of the policy without a gap, for any
\* number of updates, unless two of them read the same version.
THEOREM PolicyVersionsAreHistory == PolicySpec => []VersionsAreHistory
  BY PolicyInvariance, PTL DEF PolicyInv

\* calculate_tenure_tier() has no choice between the tiers create_policy() has
\* checked, for lists of tiers of any length.
THEOREM PolicyOneTierHolds == PolicySpec => []OneTierHolds
<1>1. PolicyInv => OneTierHolds
  <2> SUFFICES ASSUME PolicyInv, policy # NoPolicy, Valid(policy.tiers), ~OpenEnded(policy.tiers),
                      NEW i \in DOMAIN policy.tiers,
                      NEW j \in Matching(policy.tiers, policy.tiers[i].min),
                      NEW k \in Matching(policy.tiers, policy.tiers[i].min)
               PROVE  j = k
    BY DEF PolicyInv, TiersWereChecked, OneTierHolds
  <2>1. policy.tiers \in TierLists \cup {NoTiers}
    BY DEF PolicyInv, PolicyTypeOK, PolicyRow
  <2>2. policy.tiers \in Tiers
    BY <2>1, PolicyAssumption DEF Tiers, Tier, NoTiers
  <2>3. policy.tiers[i].min \in Nat
    BY <2>2, TierNumbers
  <2> QED BY <2>2, <2>3, ValidTiersAreDisjoint
<1> QED BY <1>1, PolicyInvariance, PTL
-----------------------------------------------------------------------------
(* EmployeeImport *)

\* What a run may still commit: no employee and no imported row, since a flush
\* of a run that has added one fails; and the rows it has counted on top of what
\* it read of the job, which is what the job still says until another commits.
SoundRun(r) == /\ r.since <= counted
               /\ r.next \in 1..(Len(r.file) + 1)
               /\ r.job.processed <= r.since + (r.next - 1)
               /\ r.since = counted => r.job.processed = job.processed + (r.next - 1)
               /\ r.queued \/ (/\ r.job.successful = 0 /\ r.added = {}
                               /\ r.job.errors = r.job.processed)

ImportInv == /\ ImportTypeOK
             /\ job.successful = 0
             /\ RowsAreCounted
             /\ \A p \in Pods : run[p] # NoRun => SoundRun(run[p])

\* A run is a record whose job is one too.
LEMMA RunFields ==
    ASSUME NEW r \in Run
    PROVE  /\ r.at \in {"waiting", "rows"} /\ r.file \in File /\ r.next \in Nat
           /\ r.job \in Job /\ r.added \in SUBSET Ids /\ r.queued \in BOOLEAN
           /\ r.since \in Nat /\ Len(r.file) \in Nat
           /\ r.job.processed \in Nat /\ r.job.successful \in Nat /\ r.job.errors \in Nat
<1>1. r.file \in File
  BY DEF Run
<1>2. PICK n \in 0..MaxRows : r.file \in [1..n -> Ids \cup {"invalid"}]
  BY <1>1 DEF File
<1>3. Len(r.file) = n
  BY <1>2, ImportAssumption
<1> QED BY <1>2, <1>3, ImportAssumption DEF Run, Job

\* A counted row leaves a run a run.
LEMMA CountedRun ==
    ASSUME NEW r \in Run, NEW outcome
    PROVE  LET c == Counted(r, outcome)
           IN  /\ c \in Run /\ c.file = r.file /\ c.added = r.added /\ c.queued = r.queued
               /\ c.since = r.since /\ c.next = r.next + 1
               /\ c.job.processed = r.job.processed + 1
               /\ outcome = "error" => /\ c.job.successful = r.job.successful
                                       /\ c.job.errors = r.job.errors + 1
<1>1. /\ r.next + 1 \in Nat /\ r.job \in Job
      /\ r.job.processed \in Nat /\ r.job.successful \in Nat /\ r.job.errors \in Nat
  BY DEF Run, Job
<1> DEFINE n == r.job.processed + 1
           s == r.job.successful + (IF outcome = "success" THEN 1 ELSE 0)
           e == r.job.errors + (IF outcome = "error" THEN 1 ELSE 0)
           j == [r.job EXCEPT !.processed = n, !.successful = s, !.errors = e]
<1>2. /\ n \in Nat /\ s \in Nat /\ e \in Nat
      /\ outcome = "error" => s = r.job.successful /\ e = r.job.errors + 1
  BY <1>1
<1>3. Counted(r, outcome) = [r EXCEPT !.next = @ + 1, !.job = j]
  BY <1>1 DEF Counted, Run, Job
<1>4. n = r.job.processed + 1
  OBVIOUS
<1> HIDE DEF n, s, e
<1>5. j \in Job /\ j.processed = n /\ j.successful = s /\ j.errors = e
  BY <1>1, <1>2 DEF Job
<1> HIDE DEF j
<1> QED BY <1>1, <1>2, <1>3, <1>4, <1>5 DEF Run

\* A row counted in a sound run leaves it sound, unless the row is an employee's
\* that is not queued.
LEMMA SoundCount ==
    ASSUME counted \in Nat, job.processed \in Nat,
           NEW r \in Run, NEW c \in Run, SoundRun(r), r.next <= Len(r.file),
           c.file = r.file, c.since = r.since, c.next = r.next + 1,
           c.job.processed = r.job.processed + 1,
           \/ c.queued
           \/ /\ c.queued = r.queued /\ c.added = r.added
              /\ c.job.successful = r.job.successful /\ c.job.errors = r.job.errors + 1
    PROVE  SoundRun(c)
<1>1. /\ r.next \in Nat /\ Len(r.file) \in Nat /\ r.since \in Nat
      /\ r.job.processed \in Nat /\ r.job.errors \in Nat
  BY RunFields
<1>2. /\ r.since <= counted /\ r.next \in 1..(Len(r.file) + 1)
      /\ r.job.processed <= r.since + (r.next - 1)
      /\ r.since = counted => r.job.processed = job.processed + (r.next - 1)
      /\ r.queued \/ (/\ r.job.successful = 0 /\ r.added = {}
                      /\ r.job.errors = r.job.processed)
  BY DEF SoundRun
<1>3. c.since <= counted /\ Len(c.file) = Len(r.file)
  BY <1>2
<1>4. c.next \in 1..(Len(c.file) + 1)
  BY <1>1, <1>2, <1>3
<1>5. c.job.processed <= c.since + (c.next - 1)
  BY <1>1, <1>2
<1>6. c.since = counted => c.job.processed = job.processed + (c.next - 1)
  BY <1>1, <1>2
<1>7. c.queued \/ (/\ c.job.successful = 0 /\ c.added = {}
                   /\ c.job.errors = c.job.processed)
  BY <1>1, <1>2
<1> QED BY <1>3, <1>4, <1>5, <1>6, <1>7 DEF SoundRun

\* A change of one run keeps the other runs sound: either the job's rows and
\* what has been counted stay, or more is counted.
LEMMA RunStep ==
    ASSUME ImportInv, NEW p \in Pods, NEW r \in Run \cup {NoRun},
           run' = [run EXCEPT ![p] = r],
           r = NoRun \/ SoundRun(r)',
           staff' \in SUBSET Ids, left' \in BOOLEAN, missed' \in BOOLEAN, counted' \in Nat,
           job' \in Job, job'.successful = 0, RowsAreCounted',
           \/ counted' = counted /\ job'.processed = job.processed
           \/ counted' > counted
    PROVE  ImportInv'
<1>1. run \in [Pods -> Run \cup {NoRun}] /\ counted \in Nat
  BY DEF ImportInv, ImportTypeOK
<1>2. run' \in [Pods -> Run \cup {NoRun}]
  BY <1>1
<1>3. ASSUME NEW q \in Pods, (run[q] # NoRun)' PROVE SoundRun(run[q])'
  <2>1. CASE q = p
    BY <1>1, <1>3, <2>1
  <2>2. CASE q # p
    <3>1. run'[q] = run[q] /\ run[q] \in Run /\ SoundRun(run[q])
      BY <1>1, <1>3, <2>2 DEF ImportInv
    <3>2. run[q].since \in Nat /\ run[q].next \in Nat /\ run[q].job.processed \in Nat
      BY <3>1, RunFields
    <3> QED BY <1>1, <3>1, <3>2 DEF SoundRun
  <2> QED BY <2>1, <2>2
<1> QED BY <1>2, <1>3 DEF ImportInv, ImportTypeOK

\* A step of one run that commits nothing.
LEMMA QuietStep ==
    ASSUME ImportInv, NEW p \in Pods, NEW r \in Run \cup {NoRun},
           run' = [run EXCEPT ![p] = r],
           r = NoRun \/ SoundRun(r),
           left' \in BOOLEAN, UNCHANGED <<job, staff, counted, missed>>
    PROVE  ImportInv'
<1>1. /\ job' \in Job /\ job'.successful = 0 /\ staff' \in SUBSET Ids
      /\ counted' \in Nat /\ missed' \in BOOLEAN
  BY DEF ImportInv, ImportTypeOK
<1>2. RowsAreCounted' /\ (r = NoRun \/ SoundRun(r)')
  BY DEF ImportInv, RowsAreCounted, SoundRun
<1>3. counted' = counted /\ job'.processed = job.processed
  OBVIOUS
<1> QED BY <1>1, <1>2, <1>3, RunStep

\* No step of an import, nor of another service, breaks the invariant.
LEMMA ImportNextInv == ImportInv /\ [ImportNext]_importVars => ImportInv'
<1> SUFFICES ASSUME ImportInv, [ImportNext]_importVars PROVE ImportInv'
  OBVIOUS
<1>1. /\ job \in Job /\ staff \in SUBSET Ids /\ run \in [Pods -> Run \cup {NoRun}]
      /\ counted \in Nat /\ missed \in BOOLEAN /\ left \in BOOLEAN /\ job.successful = 0
      /\ RowsAreCounted
      /\ \A p \in Pods : run[p] # NoRun => SoundRun(run[p])
  BY DEF ImportInv, ImportTypeOK
<1>2. ASSUME NEW id \in Ids, Hire(id) PROVE ImportInv'
  <2>1. /\ staff' \in SUBSET Ids
        /\ UNCHANGED <<job, run, counted, missed, left>>
    BY <1>1, <1>2 DEF Hire
  <2> QED BY <1>1, <2>1 DEF ImportInv, ImportTypeOK, SoundRun, RowsAreCounted
<1>3. CASE Validate
  <2>1. /\ job' \in Job /\ job'.successful = job.successful
        /\ job'.processed = job.processed /\ job'.errors = job.errors
    BY <1>1, <1>3 DEF Validate, Job
  <2>2. UNCHANGED <<staff, run, counted, missed, left>>
    BY <1>3 DEF Validate
  <2> QED BY <1>1, <2>1, <2>2 DEF ImportInv, ImportTypeOK, SoundRun, RowsAreCounted
<1>4. ASSUME NEW p \in Pods, NEW file \in File, Process(p, file) PROVE ImportInv'
  <2> DEFINE r == [at |-> "waiting", file |-> file, next |-> 1, job |-> job,
                   added |-> {}, queued |-> FALSE, since |-> counted]
  <2>1. r \in Run
    BY <1>1 DEF Run
  <2>2. Len(r.file) \in Nat /\ job.processed \in Nat /\ job.errors \in Nat
    BY <1>1, <2>1, RunFields DEF Job
  <2>3. SoundRun(r)
    BY <1>1, <2>2 DEF SoundRun, RowsAreCounted
  <2>4. /\ run' = [run EXCEPT ![p] = r] /\ left' = left
        /\ UNCHANGED <<job, staff, counted, missed>>
    BY <1>4 DEF Process
  <2> HIDE DEF r
  <2> QED BY <1>1, <2>1, <2>3, <2>4, QuietStep
<1>5. ASSUME NEW p \in Pods, TakeLock(p) PROVE ImportInv'
  <2> DEFINE r == [run[p] EXCEPT !.at = "rows"]
  <2>1. run[p] \in Run /\ run[p] # NoRun
    BY <1>1, <1>5 DEF TakeLock, NoRun
  <2>2. r \in Run /\ SoundRun(r)
    BY <1>1, <2>1 DEF Run, SoundRun
  <2>3. /\ run' = [run EXCEPT ![p] = r] /\ left' = left
        /\ UNCHANGED <<job, staff, counted, missed>>
    BY <1>1, <1>5 DEF TakeLock
  <2> HIDE DEF r
  <2> QED BY <1>1, <2>2, <2>3, QuietStep
<1>6. ASSUME NEW p \in Pods, InvalidRow(p) PROVE ImportInv'
  <2> DEFINE c == Counted(run[p], "error")
  <2>1. /\ run[p] \in Run /\ run[p] # NoRun /\ SoundRun(run[p])
        /\ run[p].next <= Len(run[p].file)
    BY <1>1, <1>6 DEF InvalidRow, NoRun
  <2>2. /\ run' = [run EXCEPT ![p] = c] /\ left' = left
        /\ UNCHANGED <<job, staff, counted, missed>>
    BY <1>6 DEF InvalidRow
  <2>3. /\ c \in Run /\ c.file = run[p].file /\ c.added = run[p].added
        /\ c.queued = run[p].queued /\ c.since = run[p].since /\ c.next = run[p].next + 1
        /\ c.job.processed = run[p].job.processed + 1
        /\ c.job.successful = run[p].job.successful
        /\ c.job.errors = run[p].job.errors + 1
    BY <2>1, CountedRun
  <2>4. job.processed \in Nat
    BY <1>1 DEF Job
  <2> HIDE DEF c
  <2>5. SoundRun(c)
    BY <1>1, <2>1, <2>3, <2>4, SoundCount
  <2> QED BY <1>1, <2>2, <2>3, <2>5, QuietStep
<1>7. ASSUME NEW p \in Pods, ValidRow(p) PROVE ImportInv'
  <2>1. /\ run[p] \in Run /\ run[p] # NoRun /\ SoundRun(run[p])
        /\ run[p].next <= Len(run[p].file)
    BY <1>1, <1>7 DEF ValidRow, NoRun
  <2> DEFINE c == Counted(run[p], "success")
             id == run[p].file[run[p].next]
             r == [c EXCEPT !.added = @ \cup {id}, !.queued = TRUE]
  <2>2. /\ c \in Run /\ c.file = run[p].file
        /\ c.since = run[p].since /\ c.next = run[p].next + 1
        /\ c.job.processed = run[p].job.processed + 1
    BY <2>1, CountedRun
  <2>3. /\ id \in Ids /\ run' = [run EXCEPT ![p] = r] /\ left' = left
        /\ UNCHANGED <<job, staff, counted, missed>>
    BY <1>1, <1>7 DEF ValidRow
  <2>4. job.processed \in Nat
    BY <1>1 DEF Job
  <2> HIDE DEF c, id
  <2>5. /\ r \in Run /\ r.queued /\ r.file = c.file /\ r.since = c.since /\ r.next = c.next
        /\ r.job = c.job
    BY <2>2, <2>3 DEF Run
  <2> HIDE DEF r
  <2>6. SoundRun(r)
    BY <1>1, <2>1, <2>2, <2>4, <2>5, SoundCount
  <2> QED BY <1>1, <2>3, <2>5, <2>6, QuietStep
<1>8. ASSUME NEW p \in Pods, FailedFlush(p) PROVE ImportInv'
  <2>1. /\ run' = [run EXCEPT ![p] = NoRun] /\ left' \in BOOLEAN
        /\ UNCHANGED <<job, staff, counted, missed>>
    BY <1>1, <1>8 DEF FailedFlush, Failed
  <2> QED BY <1>1, <2>1, QuietStep
<1>9. ASSUME NEW p \in Pods, Finish(p) PROVE ImportInv'
  <2> DEFINE r == run[p]
             errors == \E i \in DOMAIN r.file : r.file[i] = "invalid"
             status == IF errors /\ r.added = {} THEN "failed" ELSE "completed"
             base == IF r.file = <<>> THEN job ELSE r.job
  <2>1. /\ r \in Run /\ r # NoRun /\ ~r.queued /\ SoundRun(r) /\ r.next > Len(r.file)
    BY <1>1, <1>9 DEF Finish, NoRun
  <2>2. /\ r.job \in Job /\ r.since \in Nat /\ r.next \in Nat /\ Len(r.file) \in Nat
        /\ r.job.processed \in Nat /\ job.processed \in Nat /\ r.added = {}
        /\ r.next = Len(r.file) + 1
    BY <1>1, <2>1, RunFields DEF SoundRun, Job
  <2>3. /\ run' = [run EXCEPT ![p] = NoRun]
        /\ job' = [base EXCEPT !.status = status]
        /\ staff' = staff \cup r.added
        /\ counted' = counted + Len(r.file)
        /\ missed' = (missed \/ (r.file # <<>> /\ r.since # counted))
        /\ left' \in BOOLEAN
    BY <1>1, <1>9 DEF Finish
  <2>4. status \in {"completed", "failed"} /\ base \in Job
    BY <1>1, <2>2
  <2> HIDE DEF status
  <2>5. /\ job' \in Job /\ job'.processed = base.processed
        /\ job'.successful = base.successful /\ job'.errors = base.errors
    BY <2>3, <2>4 DEF Job
  <2>6. CASE r.file = <<>>
    <3>1. counted' = counted /\ base = job /\ missed' = missed
      BY <1>1, <2>3, <2>6
    <3>2. RowsAreCounted'
      BY <1>1, <2>5, <3>1 DEF RowsAreCounted
    <3> QED BY <1>1, <2>2, <2>3, <2>5, <3>1, <3>2, RunStep
  <2>7. CASE r.file # <<>>
    <3>1. Len(r.file) > 0
      <4>1. PICK n \in 0..MaxRows : r.file \in [1..n -> Ids \cup {"invalid"}]
        BY <2>1, RunFields DEF File
      <4>2. r.file \in Seq(Ids \cup {"invalid"})
        BY <4>1, ImportAssumption
      <4> HIDE DEF r
      <4> QED BY <2>2, <2>7, <4>2
    <3>2. /\ base = r.job /\ counted' \in Nat /\ counted' > counted
      BY <1>1, <2>2, <2>3, <2>7, <3>1
    <3>3. /\ job'.successful = 0 /\ job'.errors = job'.processed
          /\ job'.processed <= counted'
          /\ r.since = counted => job'.processed = job.processed + Len(r.file)
      BY <1>1, <2>1, <2>2, <2>3, <2>5, <3>2 DEF SoundRun
    <3>4. job'.processed \in Nat /\ job'.errors \in Nat
      BY <2>5 DEF Job
    <3>5. job'.successful + job'.errors = job'.processed
      BY <3>3, <3>4
    <3>6. job'.processed = counted' \/ missed'
      BY <1>1, <2>2, <2>3, <2>7, <3>3 DEF RowsAreCounted
    <3>7. RowsAreCounted'
      BY <3>3, <3>5, <3>6 DEF RowsAreCounted
    <3>8. missed' \in BOOLEAN /\ staff' \in SUBSET Ids
      BY <1>1, <2>2, <2>3
    <3> HIDE DEF r
    <3> QED BY <2>3, <2>5, <3>2, <3>3, <3>7, <3>8, RunStep
  <2> QED BY <2>6, <2>7
<1>10. ASSUME NEW p \in Pods, Die(p) PROVE ImportInv'
  <2>1. /\ run' = [run EXCEPT ![p] = NoRun] /\ left' = left
        /\ UNCHANGED <<job, staff, counted, missed>>
    BY <1>10 DEF Die
  <2> QED BY <1>1, <2>1, QuietStep
<1>11. CASE UNCHANGED importVars
  BY <1>1, <1>11 DEF importVars, ImportInv, ImportTypeOK, SoundRun, RowsAreCounted
<1> QED BY <1>2, <1>3, <1>4, <1>5, <1>6, <1>7, <1>8, <1>9, <1>10, <1>11 DEF ImportNext

\* The inductive invariant of EmployeeImport holds in every state of it.
THEOREM ImportInvariance == ImportSpec => []ImportInv
<1>1. ImportInit => ImportInv
  <2> SUFFICES ASSUME ImportInit PROVE ImportInv
    OBVIOUS
  <2>1. job \in Job /\ job.successful = 0 /\ RowsAreCounted
    BY DEF ImportInit, Job, RowsAreCounted
  <2>2. run \in [Pods -> Run \cup {NoRun}] /\ \A p \in Pods : run[p] = NoRun
    BY DEF ImportInit
  <2> QED BY <2>1, <2>2 DEF ImportInit, ImportInv, ImportTypeOK
<1> QED BY <1>1, ImportNextInv, PTL DEF ImportSpec

\* The variables of EmployeeImport keep their types.
THEOREM ImportTypes == ImportSpec => []ImportTypeOK
  BY ImportInvariance, PTL DEF ImportInv

\* Over runs of any number of processes that overlap, fail, die and try again,
\* the job counts the rows of the committed runs, and misses some only if a run
\* committed counters it had read before another run's commit.
THEOREM ImportRowsAreCounted == ImportSpec => []RowsAreCounted
  BY ImportInvariance, PTL DEF ImportInv
=============================================================================
