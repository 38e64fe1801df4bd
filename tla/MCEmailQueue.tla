---------------------------- MODULE MCEmailQueue ----------------------------
(* EmailQueue for TLC: a critical, a normal and a low-priority e-mail. *)
EXTENDS EmailQueue, TLC

CONSTANTS e1, e2, e3

MCEmails == {e1, e2, e3}
MCPriority == (e1 :> 100) @@ (e2 :> 5) @@ (e3 :> 1)
MCMaxRetries == (e1 :> 2) @@ (e2 :> 2) @@ (e3 :> 1)

\* Two e-mails are enough for the run with two processing loops.
MCTwoEmails == {e1, e2}
MCTwoPriority == (e1 :> 100) @@ (e2 :> 1)
MCTwoMaxRetries == (e1 :> 2) @@ (e2 :> 2)
=============================================================================
