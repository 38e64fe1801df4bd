--------------------------- MODULE ProfileUpdates ---------------------------
(***************************************************************************)
(* src/api/employee_profile_update.py for one employee: fields of the row  *)
(* in the database, and update requests that wait for a review in the      *)
(* memory of the process (pod) that took them.  A handler never yields, so *)
(* a pod does one thing at a time; other pods write between a handler's    *)
(* read of the row and its commit.                                         *)
(* update_my_profile() makes no request: the only fields with requires_    *)
(* approval (salary and hourly_rate of an HR manager) have no can_write    *)
(* and are rejected before the approval is looked at.                      *)
(* made, applied and overtaken are history.                                *)
(***************************************************************************)
EXTENDS Naturals, Processes

CONSTANTS Fields, Values,
          Tickets   \* ids of update requests that may be given out

ASSUME ProfileAssumption == Values # {}

VARIABLES
    profile,    \* profile[f]: the committed value of field f
    store,      \* store[p][t]: update_store of pod p
    sess,       \* sess[p]: the handler of p that has read the row
    made,       \* history: tickets given out
    applied,    \* history: applied[t]: commits made for t
    overtaken   \* history: pods with a commit of another since they read

profileVars == <<profile, store, sess, made, applied, overtaken>>

NoTicket == [status |-> "absent"]
Ticket == [status : {"pending", "approved", "rejected", "cancelled"},
           field : Fields, new : Values]
NoSession == [op |-> "none"]

ProfileTypeOK ==
    /\ profile \in [Fields -> Values]
    /\ store \in [Pods -> [Tickets -> Ticket \cup {NoTicket}]]
    /\ sess \in [Pods -> [op : {"update"}, field : Fields, new : Values, read : Values]
                         \cup [op : {"review"}, ticket : Tickets, read : Values] \cup {NoSession}]
    /\ made \subseteq Tickets
    /\ applied \in [Tickets -> Nat]
    /\ overtaken \subseteq Pods

ProfileInit == /\ profile \in [Fields -> Values]
               /\ store = [p \in Pods |-> [t \in Tickets |-> NoTicket]]
               /\ sess = [p \in Pods |-> NoSession]
               /\ made = {}
               /\ applied = [t \in Tickets |-> 0]
               /\ overtaken = {}

-----------------------------------------------------------------------------
\* setattr() and commit: an UPDATE is sent only for a value that differs from
\* the one read.
CommitValue(p, f, read, new) ==
    /\ profile' = IF new = read THEN profile ELSE [profile EXCEPT ![f] = new]
    /\ overtaken' = (overtaken \cup {q \in Pods : sess[q] # NoSession}) \ {p}
    /\ sess' = [sess EXCEPT ![p] = NoSession]

\* update_my_profile() of a permitted and valid field.
StartUpdate(p, f, v) ==
    /\ sess[p] = NoSession
    /\ sess' = [sess EXCEPT ![p] = [op |-> "update", field |-> f, new |-> v, read |-> profile[f]]]
    /\ UNCHANGED <<profile, store, made, applied, overtaken>>

CommitUpdate(p) ==
    /\ sess[p].op = "update"
    /\ CommitValue(p, sess[p].field, sess[p].read, sess[p].new)
    /\ UNCHANGED <<store, made, applied>>

\* create_update_request(): any defined field, the value is not validated.
Submit(p, t, f, v) ==
    /\ sess[p] = NoSession
    /\ t \notin made
    /\ made' = made \cup {t}
    /\ store' = [store EXCEPT ![p][t] = [status |-> "pending", field |-> f, new |-> v]]
    /\ UNCHANGED <<profile, sess, applied, overtaken>>

\* UpdateRequestStore.update()
Marked(p, t, status) == [store EXCEPT ![p][t].status = status]

FaultyStartReview(p, t) ==   \* marks the ticket before the commit
    /\ sess[p] = NoSession
    /\ store[p][t].status = "pending"
    /\ sess' = [sess EXCEPT ![p] = [op |-> "review", ticket |-> t,
                                    read |-> profile[store[p][t].field]]]
    /\ store' = Marked(p, t, "approved")
    /\ UNCHANGED <<profile, made, applied, overtaken>>

\* review_update_request(), approved
StartReview(p, t) ==
    /\ sess[p] = NoSession
    /\ store[p][t].status = "pending"
    /\ sess' = [sess EXCEPT ![p] = [op |-> "review", ticket |-> t,
                                    read |-> profile[store[p][t].field]]]
    /\ UNCHANGED <<profile, store, made, applied, overtaken>>

FaultyNewValue(p, r) == r.read   \* writes back what it read

NewValue(p, r) == store[p][r.ticket].new

CommitReview(p) ==
    /\ sess[p].op = "review"
    /\ LET t == sess[p].ticket
       IN  /\ CommitValue(p, store[p][t].field, sess[p].read, NewValue(p, sess[p]))
           /\ store' = Marked(p, t, "approved")
           /\ applied' = [applied EXCEPT ![t] = @ + 1]
    /\ UNCHANGED made

\* review_update_request() rejecting, cancel_update_request()
Close(p, t, status) ==
    /\ sess[p] = NoSession
    /\ store[p][t].status = "pending"
    /\ store' = Marked(p, t, status)
    /\ UNCHANGED <<profile, sess, made, applied, overtaken>>

\* The commit raises: rolled back, the memory stays as it is.
CommitFails(p) ==
    /\ sess[p] # NoSession
    /\ sess' = [sess EXCEPT ![p] = NoSession]
    /\ overtaken' = overtaken \ {p}
    /\ UNCHANGED <<profile, store, made, applied>>

\* The pod restarts: its requests are gone.
Restart(p) ==
    /\ sess' = [sess EXCEPT ![p] = NoSession]
    /\ store' = [store EXCEPT ![p] = [t \in Tickets |-> NoTicket]]
    /\ overtaken' = overtaken \ {p}
    /\ UNCHANGED <<profile, made, applied>>

ProfileNext == \E p \in Pods :
                   \/ \E f \in Fields, v \in Values :
                          \/ StartUpdate(p, f, v)
                          \/ \E t \in Tickets : Submit(p, t, f, v)
                   \/ \E t \in Tickets : \/ StartReview(p, t)
                                         \/ Close(p, t, "rejected") \/ Close(p, t, "cancelled")
                   \/ CommitUpdate(p) \/ CommitReview(p) \/ CommitFails(p) \/ Restart(p)

ProfileSpec == ProfileInit /\ [][ProfileNext]_profileVars

-----------------------------------------------------------------------------
(* Properties. *)

\* A ticket is applied once if it is approved and never otherwise, whatever
\* commit fails and in whatever order tickets are reviewed and cancelled.
DecisionsMatchEffects ==
    \A p \in Pods, t \in Tickets : store[p][t] # NoTicket =>
        applied[t] = IF store[p][t].status = "approved" THEN 1 ELSE 0

\* review_update_request() answers "applied" only with the requested value in
\* the row, except when another pod wrote between its read and its commit: then
\* the UPDATE may not even be sent.
ApprovedValueStands ==
    [][\A p \in Pods : CommitReview(p) /\ p \notin overtaken =>
           LET r == store[p][sess[p].ticket] IN profile'[r.field] = r.new]_profileVars
=============================================================================
