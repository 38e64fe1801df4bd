---------------------------- MODULE MailPromise ----------------------------
(***************************************************************************)
(* What the e-mail queue promises its callers, with no queue, no workers   *)
(* and no clock: an e-mail handed over is open until it gets exactly one   *)
(* outcome, the outcome is final, and the provider takes it a bounded      *)
(* number of times, never after the outcome is known.                      *)
(***************************************************************************)
EXTENDS Naturals

CONSTANTS Emails,      \* the e-mails callers may hand over
          MaxRetries   \* MaxRetries[e]: how many attempts the caller allows

VARIABLES outcome,     \* outcome[e]: what became of e
          accepted     \* accepted[e]: how often the provider took e

vars == <<outcome, accepted>>

Outcomes == {"absent", "open", "sent", "failed", "cancelled", "abandoned"}

TypeOK == /\ outcome \in [Emails -> Outcomes]
          /\ accepted \in [Emails -> Nat]

Init == /\ outcome = [e \in Emails |-> "absent"]
        /\ accepted = [e \in Emails |-> 0]

\* What one step may do to one e-mail.
Submit(e) == /\ outcome[e] = "absent"
             /\ outcome'[e] = "open"
             /\ accepted'[e] = accepted[e]

Withdraw(e) == /\ outcome[e] = "open"
               /\ outcome'[e] = "cancelled"
               /\ accepted'[e] = accepted[e]

\* The provider takes the message and the sender learns of it.
Deliver(e) == /\ outcome[e] = "open"
              /\ outcome'[e] = "sent"
              /\ accepted'[e] = accepted[e] + 1
              /\ accepted'[e] <= MaxRetries[e]

\* An attempt without an answer that says "delivered": the provider may or
\* may not have taken the message, and the e-mail stays open, is given up
\* after its last attempt, or is abandoned by a processor that was stopped.
Attempt(e) == /\ outcome[e] = "open"
              /\ outcome'[e] \in {"open", "failed", "abandoned"}
              /\ accepted'[e] \in {accepted[e], accepted[e] + 1}
              /\ accepted'[e] <= MaxRetries[e]

Same(e) == outcome'[e] = outcome[e] /\ accepted'[e] = accepted[e]

\* Several e-mails may move in one step (a stopped processor abandons all
\* the e-mails it was working on).
Next == /\ outcome' \in [Emails -> Outcomes]
        /\ accepted' \in [Emails -> Nat]
        /\ \A e \in Emails : Submit(e) \/ Withdraw(e) \/ Deliver(e) \/ Attempt(e) \/ Same(e)

Spec == Init /\ [][Next]_vars
=============================================================================
