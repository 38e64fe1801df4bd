------------------------------ MODULE Envelope ------------------------------
(***************************************************************************)
(* EnvelopeService of src/services/envelope_service.py: e-signature        *)
(* envelopes, their recipients and their audit trail in one database.      *)
(* update_envelope_status() reads the envelope, checks the transition and  *)
(* later flushes and commits; the UPDATE waits for the row lock of another *)
(* transaction but does not look at the status again.                      *)
(* The Faulty... operators are mistakes the properties must notice.        *)
(***************************************************************************)
EXTENDS Naturals, Sequences, FiniteSets, Processes

CONSTANTS Envelopes,   \* rows of envelope that may be created
          Recipients,  \* recipients of each envelope
          Order,       \* Order[r]: routing_order of r
          MaxTrail     \* bound on the audit entries of an envelope

ASSUME EnvelopeAssumption ==
    /\ Recipients # {}                      \* min_items=1
    /\ Order \in [Recipients -> Nat \ {0}]
    /\ MaxTrail \in Nat

VARIABLES
    env,    \* env[v]: the committed row of v, Absent before create_envelope()
    rcpt,   \* rcpt[v][r]: the status of recipient r of v
    audit,  \* audit[v]: envelope_audit_trail of v, in id order
    tx,     \* tx[p]: the transaction of the handler that runs in p
    contended   \* history: envelopes two handlers had loaded at the same time

envelopeVars == <<env, rcpt, audit, tx, contended>>

EnvelopeStatus == {"draft", "sent", "delivered", "in_progress", "completed",
                   "declined", "voided", "expired"}
EnvelopeRow == [status : EnvelopeStatus, routed : BOOLEAN, sent_at : BOOLEAN,
                completed_at : BOOLEAN, voided_at : BOOLEAN]
Absent == [status |-> "absent"]
NoTx == [at |-> "idle"]
Update == [at : {"loaded"}, envelope : Envelopes, from : EnvelopeStatus, to : EnvelopeStatus]

EnvelopeTypeOK == /\ env \in [Envelopes -> EnvelopeRow \cup {Absent}]
                  /\ rcpt \in [Envelopes -> [Recipients -> {"pending", "sent"}]]
                  /\ audit \in [Envelopes -> Seq([from : EnvelopeStatus \cup {"none"},
                                                   to : EnvelopeStatus])]
                  /\ tx \in [Pods -> Update \cup {NoTx}]
                  /\ contended \subseteq Envelopes

EnvelopeInit == /\ env = [v \in Envelopes |-> Absent]
                /\ rcpt = [v \in Envelopes |-> [r \in Recipients |-> "pending"]]
                /\ audit = [v \in Envelopes |-> <<>>]
                /\ tx = [p \in Pods |-> NoTx]
                /\ contended = {}

-----------------------------------------------------------------------------
Ended == {"completed", "declined", "voided", "expired"}

\* VALID_STATUS_TRANSITIONS
Transitions ==
    [s \in EnvelopeStatus |->
        CASE s = "draft"       -> {"sent", "voided"}
          [] s = "sent"        -> {"delivered", "in_progress"} \cup Ended
          [] s = "delivered"   -> {"in_progress"} \cup Ended
          [] s = "in_progress" -> Ended
          [] s = "declined"    -> {"voided"}
          [] OTHER             -> {}]

\* The recipients sending reaches: with routing the first order, else all.
FirstOrder == {r \in Recipients : \A q \in Recipients : Order[r] <= Order[q]}
Reached(v, routed) ==
    [r \in Recipients |-> IF ~routed \/ r \in FirstOrder THEN "sent" ELSE rcpt[v][r]]

\* create_envelope(), sent at once on request; one transaction, and nobody
\* knows the row before its commit.
CreateEnvelope(v, routed, send_immediately) ==
    /\ env[v] = Absent
    /\ env' = [env EXCEPT ![v] =
                  [status |-> IF send_immediately THEN "sent" ELSE "draft", routed |-> routed,
                   sent_at |-> send_immediately, completed_at |-> FALSE, voided_at |-> FALSE]]
    /\ rcpt' = IF send_immediately THEN [rcpt EXCEPT ![v] = Reached(v, routed)] ELSE rcpt
    /\ audit' = [audit EXCEPT ![v] =
                    <<[from |-> "none", to |-> "draft"]>> \o
                    (IF send_immediately THEN <<[from |-> "draft", to |-> "sent"]>> ELSE <<>>)]
    /\ UNCHANGED <<tx, contended>>

FaultyAllowed(s, to) == to # s   \* no table

\* update_envelope_status() up to its checks.
Allowed(s, to) == to \in Transitions[s]

LoadEnvelope(p, v, to) ==
    /\ tx[p] = NoTx
    /\ env[v] # Absent
    /\ Len(audit[v]) < MaxTrail
    /\ Allowed(env[v].status, to)
    /\ tx' = [tx EXCEPT ![p] = [at |-> "loaded", envelope |-> v, from |-> env[v].status, to |-> to]]
    /\ contended' = IF \E q \in Pods : tx[q] # NoTx /\ tx[q].envelope = v
                THEN contended \cup {v} ELSE contended
    /\ UNCHANGED <<env, rcpt, audit>>

\* The columns the rest of the handler assigns, and its commit.
Stamped(row, to) ==
    [row EXCEPT !.status = to,
                !.sent_at = @ \/ to = "sent",
                !.completed_at = @ \/ to = "completed",
                !.voided_at = @ \/ to = "voided"]

FaultyTrailEntry(t) == [from |-> t.from, to |-> "status_changed"]   \* the action's name

\* _create_audit_entry()
TrailEntry(t) == [from |-> t.from, to |-> t.to]

CommitEnvelope(p) ==
    /\ tx[p].at = "loaded"
    /\ LET v == tx[p].envelope
           to == tx[p].to
       IN  /\ env' = [env EXCEPT ![v] = Stamped(@, to)]
           /\ rcpt' = IF to = "sent" THEN [rcpt EXCEPT ![v] = Reached(v, env[v].routed)] ELSE rcpt
           /\ audit' = [audit EXCEPT ![v] = Append(@, TrailEntry(tx[p]))]
    /\ tx' = [tx EXCEPT ![p] = NoTx]
    /\ UNCHANGED contended

\* The process dies, or the database refuses: the transaction is rolled back.
RollBack(p) ==
    /\ tx[p] # NoTx
    /\ tx' = [tx EXCEPT ![p] = NoTx]
    /\ UNCHANGED <<env, rcpt, audit, contended>>

EnvelopeNext == \/ \E v \in Envelopes, routed, send_immediately \in BOOLEAN :
                       CreateEnvelope(v, routed, send_immediately)
                \/ \E p \in Pods, v \in Envelopes, to \in EnvelopeStatus : LoadEnvelope(p, v, to)
                \/ \E p \in Pods : CommitEnvelope(p)
                \/ \E p \in Pods : RollBack(p)

EnvelopeSpec == EnvelopeInit /\ [][EnvelopeNext]_envelopeVars

-----------------------------------------------------------------------------
(* Properties. *)

Last(s) == s[Len(s)]
Created(v) == env[v] # Absent

\* The trail tells the history of every envelope only one handler at a time
\* worked on: each entry starts where the one before ended and the last one is
\* the status of the row.
TrailIsHistory ==
    \A v \in Envelopes : Created(v) =>
        /\ Last(audit[v]).to = env[v].status
        /\ v \in contended \/ \A i \in 2..Len(audit[v]) : audit[v][i].from = audit[v][i - 1].to

\* Short of a race every change of status is one of VALID_STATUS_TRANSITIONS.
LegalUnlessRaced ==
    [][\A v \in Envelopes :
           Created(v) /\ env'[v].status # env[v].status =>
               env'[v].status \in Transitions[env[v].status] \/ v \in contended]_envelopeVars
=============================================================================
