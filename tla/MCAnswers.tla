------------------------------ MODULE MCAnswers ------------------------------
(***************************************************************************)
(* The components that owe somebody an answer, for TLC: the e-mail queue   *)
(* with its restarts, the test calls of webhooks, and the requests about   *)
(* reporting lines.  They share nothing.  A behaviour is one of one of     *)
(* them, chosen at the start; the others stay as they begin, where no fair *)
(* action of theirs is enabled.                                            *)
(***************************************************************************)
EXTENDS EmailQueue, Webhooks, ReportingLines, TLC

VARIABLE answering   \* the one that moves

answerVars == <<answering, vars, webhookVars, lineVars>>

AnswersInit == /\ answering \in {"mail", "webhooks", "lines"}
               /\ Init /\ WebhookInit /\ LinesInit

AnswersNext == /\ \/ answering = "mail"     /\ Next
                  \/ answering = "webhooks" /\ WebhookNext
                  \/ answering = "lines"    /\ LinesNext
               /\ answering # "mail"     => UNCHANGED vars
               /\ answering # "webhooks" => UNCHANGED webhookVars
               /\ answering # "lines"    => UNCHANGED lineVars
               /\ UNCHANGED answering

AnswersSpec == /\ AnswersInit /\ [][AnswersNext]_answerVars
               /\ Fairness /\ WebhookFairness /\ LinesFairness

\* A critical and a low-priority e-mail.
MCPriority == "e1" :> 100 @@ "e2" :> 1
MCMaxRetries == "e1" :> 2 @@ "e2" :> 2
MCLists == {{}, {"a"}}
=============================================================================
