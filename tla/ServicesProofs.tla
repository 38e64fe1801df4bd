--------------------------- MODULE ServicesProofs ---------------------------
(***************************************************************************)
(* The components of Services for every value of their constants: what     *)
(* webhook test calls restore, what a form keeps, what a page shows, what  *)
(* stored documents are left and what the audit log chains.  Each section  *)
(* proves the inductive invariant of one component and what follows from   *)
(* it; the last one that all of it holds of the components side by side.   *)
(***************************************************************************)
EXTENDS Services, FiniteSetTheorems, NaturalsInduction, TLAPS

-----------------------------------------------------------------------------
(* Webhooks: the events of an endpoint come back after a test call that no
   patch and no other test call disturbed. *)

\* A call that was not made has delivered nothing, and what waits has attempts left.
AttemptsAreLeft ==
    /\ \A c \in Calls, y \in Endpoints :
           testCall[c].at = "none" => attempts[c][y] = 0 /\ delivery[c][y] = "none"
    /\ \A c \in Calls, y \in Endpoints :
           delivery[c][y] = "waiting" => attempts[c][y] < MaxAttempts

\* A test call is of an endpoint that was registered.
TestedWereKnown == \A c \in Calls, x \in Endpoints : Holds(c, x) => x \in known \cup deleted

\* An undisturbed endpoint is held by one call, which saved what its owner asked for.
SavedIsConfigured ==
    \A c \in Calls, x \in Endpoints \ disturbed : Holds(c, x) =>
        /\ testCall[c].saved = configured[x]
        /\ \A d \in Calls : Holds(d, x) => d = c

WebhookInv == /\ WebhookTypeOK
              /\ AttemptsAreLeft
              /\ TestedWereKnown
              /\ SavedIsConfigured
              /\ RestoredUnlessDisturbed

MadeCalls == [at : {"none", "dispatching", "done"}, target : Endpoints, event : Events,
              saved : SUBSET Events]

\* A test call that is dispatching has a target and saved events.
LEMMA CallTypes ==
    ASSUME WebhookTypeOK, NEW c \in Calls, testCall[c].at # "none"
    PROVE  /\ testCall[c] \in MadeCalls
           /\ testCall[c].target \in Endpoints /\ testCall[c].saved \in SUBSET Events
<1>1. testCall[c] \in MadeCalls \cup {[at |-> "none"]}
  BY DEF WebhookTypeOK, MadeCalls
<1>2. testCall[c] \in MadeCalls
  BY <1>1
<1> QED BY <1>2 DEF MadeCalls

\* A service without endpoints satisfies the invariant.
LEMMA WebhookInitInv == WebhookInit => WebhookInv
<1> SUFFICES ASSUME WebhookInit PROVE WebhookInv
  OBVIOUS
<1>1. \A c \in Calls : testCall[c] = [at |-> "none"]
  BY DEF WebhookInit
<1>2. WebhookTypeOK
  BY WebhookAssumption DEF WebhookInit, WebhookTypeOK, Counts, Phases
<1>3. \A c \in Calls, x \in Endpoints : ~Holds(c, x)
  BY <1>1 DEF Holds
<1>4. AttemptsAreLeft
  BY WebhookAssumption DEF WebhookInit, AttemptsAreLeft
<1>5. TestedWereKnown /\ SavedIsConfigured /\ RestoredUnlessDisturbed
  BY <1>3 DEF WebhookInit, TestedWereKnown, SavedIsConfigured, RestoredUnlessDisturbed
<1> QED BY <1>2, <1>4, <1>5 DEF WebhookInv

\* Nobody's call changes: who holds what stays as it is.
LEMMA HoldsStays ==
    ASSUME UNCHANGED testCall, NEW c, NEW x
    PROVE  Holds(c, x)' <=> Holds(c, x)
  BY DEF Holds

\* A new endpoint is saved by no call under way.
LEMMA RegisterEndpointInv ==
    ASSUME WebhookInv, NEW x \in Endpoints, NEW subscribed \in Lists,
           RegisterEndpoint(x, subscribed)
    PROVE  WebhookInv'
<1> USE DEF WebhookInv, RegisterEndpoint
<1>1. WebhookTypeOK'
  BY WebhookAssumption DEF WebhookTypeOK
<1>2. AttemptsAreLeft'
  BY DEF AttemptsAreLeft
<1>3. \A c \in Calls, y \in Endpoints : Holds(c, y)' <=> Holds(c, y)
  BY HoldsStays
<1>4. \A c \in Calls : ~Holds(c, x)
  BY DEF TestedWereKnown
<1>5. \A y \in Endpoints \ {x} : events'[y] = events[y] /\ configured'[y] = configured[y]
  BY DEF WebhookTypeOK
<1>6. events'[x] = configured'[x]
  BY DEF WebhookTypeOK
<1>7. TestedWereKnown'
  BY <1>3 DEF TestedWereKnown
<1>8. SavedIsConfigured'
  BY <1>3, <1>4, <1>5 DEF SavedIsConfigured
<1>9. RestoredUnlessDisturbed'
  BY <1>3, <1>5, <1>6 DEF RestoredUnlessDisturbed, Quiet, WebhookTypeOK
<1> QED BY <1>1, <1>2, <1>7, <1>8, <1>9

\* An update under a test call disturbs it; another one is what is configured.
LEMMA UpdateEndpointInv ==
    ASSUME WebhookInv, NEW x \in Endpoints, NEW given \in BOOLEAN, NEW on \in BOOLEAN,
           NEW subscribed \in Lists, UpdateEndpoint(x, given, subscribed, on)
    PROVE  WebhookInv'
<1> USE DEF WebhookInv, UpdateEndpoint
<1>0. disturbed' \in {disturbed, disturbed \cup {x}}
  BY DEF Disturb
<1>1. WebhookTypeOK'
  <2>1. events' \in [Endpoints -> SUBSET Events] /\ configured' \in [Endpoints -> SUBSET Events]
    BY WebhookAssumption DEF WebhookTypeOK
  <2>2. patches' \in 0..MaxPatches
    BY WebhookAssumption DEF WebhookTypeOK
  <2> QED BY <1>0, <2>1, <2>2 DEF WebhookTypeOK
<1>2. AttemptsAreLeft'
  BY DEF AttemptsAreLeft
<1>3. \A c \in Calls, y \in Endpoints : Holds(c, y)' <=> Holds(c, y)
  BY HoldsStays
<1>4. \A y \in Endpoints \ {x} : events'[y] = events[y] /\ configured'[y] = configured[y]
  BY DEF WebhookTypeOK
<1>5. given => /\ events'[x] = configured'[x]
               /\ (\E c \in Calls : Holds(c, x)) => x \in disturbed'
  BY DEF WebhookTypeOK, Disturb
<1>6. TestedWereKnown'
  BY <1>3 DEF TestedWereKnown
<1>7. SavedIsConfigured'
  BY <1>0, <1>3, <1>4, <1>5 DEF SavedIsConfigured
<1>8. RestoredUnlessDisturbed'
  BY <1>0, <1>3, <1>4, <1>5 DEF RestoredUnlessDisturbed, Quiet, WebhookTypeOK
<1> QED BY <1>1, <1>2, <1>6, <1>7, <1>8

\* A deleted endpoint has nothing left to restore.
LEMMA DeleteEndpointInv ==
    ASSUME WebhookInv, NEW x \in Endpoints, DeleteEndpoint(x)
    PROVE  WebhookInv'
<1> USE DEF WebhookInv, DeleteEndpoint
<1>1. WebhookTypeOK' /\ AttemptsAreLeft'
  BY DEF WebhookTypeOK, AttemptsAreLeft
<1>2. \A c \in Calls, y \in Endpoints : Holds(c, y)' <=> Holds(c, y)
  BY HoldsStays
<1>3. TestedWereKnown' /\ SavedIsConfigured' /\ RestoredUnlessDisturbed'
  BY <1>2 DEF TestedWereKnown, SavedIsConfigured, RestoredUnlessDisturbed, Quiet, WebhookTypeOK
<1> QED BY <1>1, <1>3

\* A call of x has begun or ended at once: it saved what was there.
LEMMA BeginCallInv ==
    ASSUME WebhookTypeOK, SavedIsConfigured, TestedWereKnown, RestoredUnlessDisturbed,
           NEW c \in Calls, NEW x \in known, NEW e \in Events, testCall[c].at = "none",
           NEW at \in {"dispatching", "done"},
           testCall' = [testCall EXCEPT ![c] = TestCall(at, x, e)],
           at = "dispatching" => events' = Tested(x, e) /\ Disturb(x),
           at = "done" => UNCHANGED <<events, disturbed>>,
           UNCHANGED <<known, deleted, configured>>
    PROVE  TestedWereKnown' /\ SavedIsConfigured' /\ RestoredUnlessDisturbed'
<1>0. x \in Endpoints
  BY DEF WebhookTypeOK
<1>1. testCall'[c] = TestCall(at, x, e) /\ \A d \in Calls \ {c} : testCall'[d] = testCall[d]
  BY DEF WebhookTypeOK
<1>2. /\ testCall'[c].at = at /\ testCall'[c].target = x /\ testCall'[c].saved = events[x]
  BY <1>1 DEF TestCall
<1>3. \A d \in Calls \ {c}, y \in Endpoints : Holds(d, y)' <=> Holds(d, y)
  BY <1>1 DEF Holds
<1>4. \A y \in Endpoints : /\ ~Holds(c, y)
                           /\ Holds(c, y)' <=> at = "dispatching" /\ y = x
  BY <1>2 DEF Holds
<1>5. /\ disturbed' \in {disturbed, disturbed \cup {x}}
      /\ at = "dispatching" /\ (\E d \in Calls : Holds(d, x)) => x \in disturbed'
  BY DEF Disturb
<1>6. \A y \in Endpoints \ {x} : events'[y] = events[y]
  BY DEF Tested, WebhookTypeOK
<1>7. TestedWereKnown'
  BY <1>3, <1>4 DEF TestedWereKnown
<1>8. x \notin disturbed /\ (\A d \in Calls : ~Holds(d, x)) => events[x] = configured[x]
  BY DEF RestoredUnlessDisturbed, Quiet
<1>9. SavedIsConfigured'
  <2> SUFFICES ASSUME NEW d \in Calls, NEW y \in Endpoints \ disturbed', Holds(d, y)'
               PROVE  /\ testCall'[d].saved = configured[y]
                      /\ \A f \in Calls : Holds(f, y)' => f = d
    BY DEF SavedIsConfigured
  <2>1. y \notin disturbed
    BY <1>5
  <2>2. CASE d = c
    <3>1. y = x /\ \A f \in Calls : ~Holds(f, x)
      BY <1>4, <1>5, <2>2
    <3> QED BY <1>2, <1>3, <1>8, <2>1, <2>2, <3>1
  <2>3. CASE d # c
    <3>1. Holds(d, y)
      BY <1>3, <2>3
    <3>2. ~Holds(c, y)'
      BY <1>4, <1>5, <3>1
    <3> QED BY <1>1, <1>3, <2>1, <2>3, <3>1, <3>2 DEF SavedIsConfigured
  <2> QED BY <2>2, <2>3
<1>10. RestoredUnlessDisturbed'
  <2> SUFFICES ASSUME NEW y \in known, \A d \in Calls : ~Holds(d, y)'
               PROVE  events'[y] = configured[y] \/ y \in disturbed'
    BY DEF RestoredUnlessDisturbed, Quiet
  <2>1. y \in Endpoints
    BY DEF WebhookTypeOK
  <2>2. \A d \in Calls : ~Holds(d, y)
    BY <1>3, <1>4, <2>1
  <2>3. at = "dispatching" => y # x
    BY <1>0, <1>4
  <2>4. events'[y] = events[y]
    BY <1>6, <2>1, <2>3
  <2> QED BY <1>5, <2>2, <2>4 DEF RestoredUnlessDisturbed, Quiet
<1> QED BY <1>7, <1>9, <1>10

\* A test call saves the events of its endpoint and adds its own.
LEMMA TestEndpointInv ==
    ASSUME WebhookInv, NEW c \in Calls, NEW x \in Endpoints, NEW e \in Events,
           NEW oversized \in BOOLEAN, TestEndpoint(c, x, e, oversized)
    PROVE  WebhookInv'
<1> USE DEF WebhookInv, TestEndpoint
<1>1. TestCall("dispatching", x, e) \in MadeCalls
  BY DEF TestCall, MadeCalls, WebhookTypeOK
<1>2. events' \in [Endpoints -> SUBSET Events]
  BY DEF Tested, WithTestEvent, WebhookTypeOK
<1>3. disturbed' \subseteq Endpoints
  BY DEF Disturb, WebhookTypeOK
<1> DEFINE phases == [y \in Endpoints |-> IF y \notin Subscribed(events', e) THEN "none"
                                          ELSE IF oversized THEN "failed" ELSE "waiting"]
<1>4. /\ delivery' = [delivery EXCEPT ![c] = phases]
      /\ phases \in [Endpoints -> Phases]
  BY DEF Phases, Final
<1> HIDE DEF phases
<1>5. WebhookTypeOK'
  <2>1. testCall' \in [Calls -> MadeCalls \cup {[at |-> "none"]}]
    BY <1>1 DEF WebhookTypeOK, MadeCalls
  <2>2. delivery' \in [Calls -> [Endpoints -> Phases]]
    BY <1>4 DEF WebhookTypeOK
  <2> QED BY <1>2, <1>3, <2>1, <2>2 DEF WebhookTypeOK, MadeCalls
<1>6. AttemptsAreLeft'
  <2>1. \A d \in Calls \ {c} : testCall'[d] = testCall[d] /\ delivery'[d] = delivery[d]
    BY <1>4 DEF WebhookTypeOK
  <2>2. testCall'[c].at = "dispatching"
    BY DEF WebhookTypeOK, TestCall
  <2>3. \A y \in Endpoints : attempts[c][y] = 0
    BY DEF AttemptsAreLeft
  <2> QED BY <2>1, <2>2, <2>3, WebhookAssumption DEF AttemptsAreLeft
<1>7. TestedWereKnown' /\ SavedIsConfigured' /\ RestoredUnlessDisturbed'
  BY BeginCallInv
<1> QED BY <1>5, <1>6, <1>7

\* A test call that reaches nobody ends as it begins.
LEMMA TestNobodyInv ==
    ASSUME WebhookInv, NEW c \in Calls, NEW x \in Endpoints, NEW e \in Events,
           TestNobody(c, x, e)
    PROVE  WebhookInv'
<1> USE DEF WebhookInv, TestNobody
<1>1. TestCall("done", x, e) \in MadeCalls /\ TestCall("done", x, e).at = "done"
  BY DEF TestCall, MadeCalls, WebhookTypeOK
<1>2. testCall' \in [Calls -> MadeCalls \cup {[at |-> "none"]}]
  BY <1>1 DEF WebhookTypeOK, MadeCalls
<1>3. WebhookTypeOK'
  BY <1>2 DEF WebhookTypeOK, MadeCalls
<1>4. AttemptsAreLeft'
  <2>1. \A d \in Calls \ {c} : testCall'[d] = testCall[d]
    BY DEF WebhookTypeOK
  <2>2. testCall'[c].at = "done"
    BY <1>1 DEF WebhookTypeOK
  <2> QED BY <2>1, <2>2 DEF AttemptsAreLeft
<1>5. TestedWereKnown' /\ SavedIsConfigured' /\ RestoredUnlessDisturbed'
  BY BeginCallInv
<1> QED BY <1>3, <1>4, <1>5

\* A delivery moves on: neither endpoints nor calls change.
LEMMA DeliveryInv ==
    ASSUME WebhookInv, NEW c \in Calls, NEW y \in Endpoints, NEW phase \in Phases,
           delivery[c][y] # "none", NEW n \in 0..MaxAttempts,
           delivery' = [delivery EXCEPT ![c][y] = phase],
           attempts' = [attempts EXCEPT ![c][y] = n],
           phase = "waiting" => n < MaxAttempts,
           UNCHANGED <<known, deleted, active, events, stats, testCall, patches, configured,
                       disturbed>>
    PROVE  WebhookInv'
<1> USE DEF WebhookInv
<1>1. WebhookTypeOK'
  BY DEF WebhookTypeOK
<1>2. AttemptsAreLeft'
  <2>1. testCall[c].at # "none"
    BY DEF AttemptsAreLeft
  <2>2. delivery'[c][y] = phase /\ attempts'[c][y] = n
    BY DEF WebhookTypeOK
  <2>3. \A d \in Calls, z \in Endpoints : d # c \/ z # y =>
            delivery'[d][z] = delivery[d][z] /\ attempts'[d][z] = attempts[d][z]
    BY DEF WebhookTypeOK
  <2> QED BY <2>1, <2>2, <2>3 DEF AttemptsAreLeft
<1>3. \A d \in Calls, x \in Endpoints : Holds(d, x)' <=> Holds(d, x)
  BY HoldsStays
<1>4. TestedWereKnown' /\ SavedIsConfigured' /\ RestoredUnlessDisturbed'
  BY <1>3 DEF TestedWereKnown, SavedIsConfigured, RestoredUnlessDisturbed, Quiet, WebhookTypeOK
<1> QED BY <1>1, <1>2, <1>4

\* An attempt, its success and its failure move one delivery.
LEMMA AttemptInv ==
    ASSUME WebhookInv, NEW c \in Calls, NEW y \in Endpoints,
           BeginPost(c, y) \/ Succeed(c, y) \/ Fail(c, y)
    PROVE  WebhookInv'
<1>1. attempts[c][y] \in 0..MaxAttempts /\ MaxAttempts \in Nat
  BY WebhookAssumption DEF WebhookInv, WebhookTypeOK
<1>2. attempts = [attempts EXCEPT ![c][y] = attempts[c][y]]
  BY DEF WebhookInv, WebhookTypeOK
<1>3. CASE BeginPost(c, y)
  <2>1. attempts[c][y] < MaxAttempts
    BY <1>3 DEF BeginPost, WebhookInv, AttemptsAreLeft
  <2>2. attempts' = [attempts EXCEPT ![c][y] = attempts[c][y] + 1]
    BY <1>3 DEF BeginPost
  <2>3. attempts[c][y] + 1 \in 0..MaxAttempts
    BY <1>1, <2>1
  <2>4. /\ delivery[c][y] # "none" /\ "posting" \in Phases
        /\ delivery' = [delivery EXCEPT ![c][y] = "posting"]
        /\ UNCHANGED <<known, deleted, active, events, stats, testCall, patches, configured,
                       disturbed>>
    BY <1>3 DEF BeginPost, Phases
  <2> QED BY <2>2, <2>3, <2>4, DeliveryInv
<1>4. CASE Succeed(c, y)
  BY <1>1, <1>2, <1>4, DeliveryInv DEF Succeed, Phases, Final
<1>5. CASE Fail(c, y)
  <2> DEFINE ph == IF TriesAgain(attempts[c][y]) THEN "waiting" ELSE "failed"
  <2>1. ph \in Phases
    BY DEF Phases, Final
  <2>2. /\ delivery[c][y] # "none" /\ delivery' = [delivery EXCEPT ![c][y] = ph]
        /\ UNCHANGED <<attempts, known, deleted, active, events, stats, testCall, patches,
                       configured, disturbed>>
    BY <1>5 DEF Fail, TriesAgain
  <2>3. ph = "waiting" => attempts[c][y] < MaxAttempts
    BY DEF TriesAgain
  <2> HIDE DEF ph
  <2> QED BY <1>1, <1>2, <2>1, <2>2, <2>3, DeliveryInv
<1> QED BY <1>3, <1>4, <1>5

\* A finished call puts back what it saved.
LEMMA FinishInv ==
    ASSUME WebhookInv, NEW c \in Calls, Finish(c)
    PROVE  WebhookInv'
<1> USE DEF WebhookInv, Finish
<1> DEFINE x == testCall[c].target
<1>1. testCall[c] \in MadeCalls /\ x \in Endpoints /\ testCall[c].saved \in SUBSET Events
  BY CallTypes
<1>2. events' = [events EXCEPT ![x] = testCall[c].saved]
  BY DEF Restored
<1>3. Holds(c, x)
  BY DEF Holds
<1> HIDE DEF x
<1>4. WebhookTypeOK'
  <2>1. \A y \in Endpoints : Credited(stats[y], delivery[c][y]) \in Counts
    BY DEF Credited, Counts, WebhookTypeOK
  <2>2. stats' \in [Endpoints -> Counts]
    BY <2>1 DEF WebhookTypeOK
  <2>3. [testCall[c] EXCEPT !.at = "done"] \in MadeCalls
    BY <1>1 DEF MadeCalls
  <2>4. testCall' \in [Calls -> MadeCalls \cup {[at |-> "none"]}]
    BY <2>3 DEF WebhookTypeOK, MadeCalls
  <2>5. events' \in [Endpoints -> SUBSET Events]
    BY <1>1, <1>2 DEF WebhookTypeOK
  <2> QED BY <2>2, <2>4, <2>5 DEF WebhookTypeOK, MadeCalls
<1>5. /\ testCall'[c].at = "done"
      /\ \A d \in Calls \ {c} : testCall'[d] = testCall[d]
  BY <1>1 DEF WebhookTypeOK, MadeCalls
<1>6. AttemptsAreLeft'
  BY <1>5 DEF AttemptsAreLeft
<1>7. /\ \A y \in Endpoints : ~Holds(c, y)'
      /\ \A d \in Calls \ {c}, y \in Endpoints : Holds(d, y)' <=> Holds(d, y)
  BY <1>5 DEF Holds
<1>8. \A y \in Endpoints \ {x} : events'[y] = events[y] /\ ~Holds(c, y)
  BY <1>2 DEF WebhookTypeOK, Holds, x
<1>9. x \notin disturbed => events'[x] = configured[x]
  BY <1>1, <1>2, <1>3 DEF SavedIsConfigured, WebhookTypeOK
<1>10. TestedWereKnown'
  BY <1>7 DEF TestedWereKnown
<1>11. SavedIsConfigured'
  BY <1>5, <1>7 DEF SavedIsConfigured
<1>12. RestoredUnlessDisturbed'
  BY <1>7, <1>8, <1>9 DEF RestoredUnlessDisturbed, Quiet, WebhookTypeOK
<1> QED BY <1>4, <1>6, <1>10, <1>11, <1>12

\* The steps of the service keep the invariant.
LEMMA WebhookNextInv == WebhookInv /\ [WebhookNext]_webhookVars => WebhookInv'
<1> SUFFICES ASSUME WebhookInv, [WebhookNext]_webhookVars PROVE WebhookInv'
  OBVIOUS
<1>1. CASE UNCHANGED webhookVars
  BY <1>1 DEF webhookVars, WebhookInv, WebhookTypeOK, AttemptsAreLeft, TestedWereKnown,
              SavedIsConfigured, RestoredUnlessDisturbed, Quiet, Holds
<1>2. CASE WebhookNext
  BY <1>2, RegisterEndpointInv, UpdateEndpointInv, DeleteEndpointInv, TestEndpointInv,
     TestNobodyInv, AttemptInv, FinishInv DEF WebhookNext
<1> QED BY <1>1, <1>2

\* The inductive invariant of the webhook service.
THEOREM WebhookInvariance == WebhookSpec => []WebhookInv
<1> QED BY WebhookInitInv, WebhookNextInv, PTL DEF WebhookSpec

\* Endpoints, test calls and deliveries keep their types, and no delivery is
\* attempted more often than max_retries allows, for any endpoints and calls.
THEOREM WebhookTypes == WebhookSpec => []WebhookTypeOK
<1>1. WebhookInv => WebhookTypeOK
  BY DEF WebhookInv
<1> QED BY <1>1, WebhookInvariance, PTL

\* The events of an endpoint are what its owner asked for last once its test
\* call is over, unless a patch or another test came in between.
THEOREM WebhookRestoredUnlessDisturbed == WebhookSpec => []RestoredUnlessDisturbed
<1>1. WebhookInv => RestoredUnlessDisturbed
  BY DEF WebhookInv
<1> QED BY <1>1, WebhookInvariance, PTL

-----------------------------------------------------------------------------
(* FormDraft: a form that is left has what was typed in storage. *)

\* The user sees what was typed, unless two changes were made in one event.
ShowsWhatWasTyped == mounted /\ "same event" \notin excused => form = typed

DraftInv == /\ DraftTypeOK
            /\ ShowsWhatWasTyped
            /\ DraftHoldsWhatWasTyped

\* A form that has not been opened satisfies the invariant.
LEMMA DraftInitInv == DraftInit => DraftInv
<1> SUFFICES ASSUME DraftInit PROVE DraftInv
  OBVIOUS
<1>1. Initial \in Contents /\ 0 \in 0..MaxEdits
  BY DraftAssumption DEF Initial, Contents
<1>2. DraftTypeOK
  BY <1>1 DEF DraftInit, DraftTypeOK
<1>3. ShowsWhatWasTyped /\ DraftHoldsWhatWasTyped
  BY DEF DraftInit, ShowsWhatWasTyped, DraftHoldsWhatWasTyped
<1> QED BY <1>2, <1>3 DEF DraftInv

\* A change gives one field of what the ref holds the value that was typed.
LEMMA UpdateInv ==
    ASSUME DraftInv, NEW f \in FormFields, Update(f)
    PROVE  DraftInv'
<1> USE DEF DraftInv, Update
<1>1. edits' \in 0..MaxEdits
  <2>1. edits \in 0..MaxEdits /\ edits < MaxEdits /\ edits' = edits + 1
    BY DEF DraftTypeOK
  <2> HIDE DEF DraftInv, Update
  <2> QED BY <2>1, DraftAssumption DEF DraftAssumption
<1>2. form' \in Contents /\ typed' \in Contents
  <2>1. ref \in Contents /\ typed \in Contents
    BY DEF DraftTypeOK
  <2> QED BY <1>1, <2>1 DEF Changed, Contents
<1>3. DraftTypeOK'
  BY <1>1, <1>2 DEF DraftTypeOK
<1>4. ShowsWhatWasTyped'
  BY DEF ShowsWhatWasTyped, Changed
<1>5. DraftHoldsWhatWasTyped'
  BY DEF DraftHoldsWhatWasTyped
<1> QED BY <1>3, <1>4, <1>5

\* Leaving the form stores the ref, which is behind only in the event of a change.
LEMMA UnmountInv == DraftInv /\ Unmount => DraftInv'
<1> SUFFICES ASSUME DraftInv, Unmount PROVE DraftInv'
  OBVIOUS
<1> USE DEF DraftInv, Unmount
<1>1. DraftTypeOK'
  BY DEF DraftTypeOK
<1>2. ShowsWhatWasTyped'
  BY DEF ShowsWhatWasTyped
<1>3. DraftHoldsWhatWasTyped'
  <2>1. CASE handle /\ stored' = ref /\ "storage full" \notin excused'
    <3>1. excused' = (excused \ {"storage full"})
                     \cup (IF ref = form THEN {} ELSE {"left unrendered"})
      BY <2>1
    <3>2. CASE ref # form
      BY <3>1, <3>2 DEF DraftHoldsWhatWasTyped
    <3>3. CASE ref = form
      <4>1. CASE "same event" \in excused
        <5>1. "same event" \in excused'
          BY <3>1, <4>1
        <5> QED BY <5>1 DEF DraftHoldsWhatWasTyped
      <4>2. CASE "same event" \notin excused
        <5>1. stored' = typed'
          BY <2>1, <3>3, <4>2 DEF ShowsWhatWasTyped
        <5> QED BY <5>1 DEF DraftHoldsWhatWasTyped
      <4> QED BY <4>1, <4>2
    <3> QED BY <3>2, <3>3
  <2>2. CASE ~handle \/ "storage full" \in excused'
    BY <2>2 DEF DraftHoldsWhatWasTyped
  <2> QED BY <2>1, <2>2
<1> QED BY <1>1, <1>2, <1>3

\* The other steps change what is seen to what is taken for typed, or neither.
LEMMA DraftStepInv ==
    ASSUME DraftInv,
           \/ Mount \/ Render \/ Fire \/ SaveNow \/ ClearDraft \/ Restore
           \/ \E clearStorage \in BOOLEAN : ResetForm(clearStorage)
    PROVE  DraftInv'
<1> USE DEF DraftInv
<1>1. Initial \in Contents
  BY DraftAssumption DEF Initial, Contents
<1>2. CASE Mount
  BY <1>1, <1>2 DEF Mount, DraftTypeOK, ShowsWhatWasTyped, DraftHoldsWhatWasTyped
<1>3. CASE Render
  BY <1>3 DEF Render, DraftTypeOK, ShowsWhatWasTyped, DraftHoldsWhatWasTyped
<1>4. CASE Fire
  BY <1>4 DEF Fire, Stores, DraftTypeOK, ShowsWhatWasTyped, DraftHoldsWhatWasTyped
<1>5. CASE SaveNow
  BY <1>5 DEF SaveNow, Stores, DraftTypeOK, ShowsWhatWasTyped, DraftHoldsWhatWasTyped
<1>6. CASE ClearDraft
  BY <1>6 DEF ClearDraft, DraftTypeOK, ShowsWhatWasTyped, DraftHoldsWhatWasTyped
<1>7. CASE Restore
  BY <1>7 DEF Restore, DraftTypeOK, ShowsWhatWasTyped, DraftHoldsWhatWasTyped
<1>8. CASE \E clearStorage \in BOOLEAN : ResetForm(clearStorage)
  <2> PICK clearStorage \in BOOLEAN : ResetForm(clearStorage)
    BY <1>8
  <2>1. DraftTypeOK'
    BY <1>1 DEF ResetForm, DraftTypeOK
  <2>2. ShowsWhatWasTyped' /\ DraftHoldsWhatWasTyped'
    BY DEF ResetForm, ShowsWhatWasTyped, DraftHoldsWhatWasTyped
  <2> QED BY <2>1, <2>2
<1> QED BY <1>2, <1>3, <1>4, <1>5, <1>6, <1>7, <1>8

\* The steps of a form keep the invariant.
LEMMA DraftNextInv == DraftInv /\ [DraftNext]_draftVars => DraftInv'
<1> SUFFICES ASSUME DraftInv, [DraftNext]_draftVars PROVE DraftInv'
  OBVIOUS
<1>1. CASE UNCHANGED draftVars
  BY <1>1 DEF draftVars, DraftInv, DraftTypeOK, ShowsWhatWasTyped, DraftHoldsWhatWasTyped
<1>2. CASE DraftNext
  BY <1>2, UpdateInv, UnmountInv, DraftStepInv DEF DraftNext
<1> QED BY <1>1, <1>2

\* The inductive invariant of a form's draft.
THEOREM DraftInvariance == DraftSpec => []DraftInv
<1> QED BY DraftInitInv, DraftNextInv, PTL DEF DraftSpec

\* State, ref, pending save and storage keep their types, for any fields.
THEOREM DraftTypes == DraftSpec => []DraftTypeOK
<1>1. DraftInv => DraftTypeOK
  BY DEF DraftInv
<1> QED BY <1>1, DraftInvariance, PTL

\* A form that was changed and left has in storage what was typed last, but for
\* two changes in one event, a change that was not rendered, or a full storage.
THEOREM DraftKeepsWhatWasTyped == DraftSpec => []DraftHoldsWhatWasTyped
<1>1. DraftInv => DraftHoldsWhatWasTyped
  BY DEF DraftInv
<1> QED BY <1>1, DraftInvariance, PTL

-----------------------------------------------------------------------------
(* FileStorage: the inductive invariant. *)

\* Nothing refers to an id that was not handed out.
KnownFilesAreUsed ==
    /\ kept \subseteq used
    /\ \A w \in Workers : todo[w] \subseteq used /\ removing[w] \in used \cup {NoFile}

\* The file store() is about to register is nobody's yet.
RegisteredIsNew ==
    Busy("register") =>
        LET f == request.file
        IN  /\ f \in content /\ record[f] = "none"
            /\ f \notin kept
            /\ ~Chosen(f) /\ \A w \in Workers : removing[w] # f

\* A content is removed after its record, and only an expired file is discarded.
RecordsGoFirst ==
    /\ Busy("remove") => record[request.file] = "none"
    /\ Busy("delete") => record[request.file] \in {"none", "expired"}
    /\ \A w \in Workers : removing[w] # NoFile => record[removing[w]] = "none"

\* A cleanup chooses no permanent file; what it has chosen may become one.
ChosenAreDoomed == \A f \in kept : Chosen(f) => f \in doomed

StorageInv == /\ StorageTypeOK
              /\ KnownFilesAreUsed
              /\ RegisteredIsNew
              /\ RecordsGoFirst
              /\ ChosenAreDoomed
              /\ PermanentStays
              /\ RecordsHaveContents

\* A request that is not idle is about a file.
LEMMA StorageRequests ==
    /\ Idle \in Requests /\ Idle.op = "idle"
    /\ \A r \in Requests : r.op # "idle" => /\ r.file \in Files
                                            /\ r.life \in {"live", "permanent"}
    /\ \A r \in Requests, op \in {"delete", "read", "remove"} :
           r.op # "idle" => LET s == [r EXCEPT !.op = op]
                            IN  s \in Requests /\ s.op = op /\ s.file = r.file
<1> DEFINE Work == [op : {"register", "look", "delete", "remove", "read"}, file : Files,
                    copy : BOOLEAN, life : {"live", "permanent"}]
<1>1. Idle \in Requests /\ Idle.op = "idle"
  BY DEF Idle, Requests
<1>2. \A r \in Work : r.file \in Files /\ r.life \in {"live", "permanent"}
  OBVIOUS
<1>3. \A r \in Work, op \in {"delete", "read", "remove"} :
          LET s == [r EXCEPT !.op = op]
          IN  s \in Work /\ s.op = op /\ s.file = r.file
  OBVIOUS
<1>4. \A r \in Requests : r = Idle \/ r \in Work
  BY DEF Requests
<1>5. \A r \in Work : r \in Requests
  BY DEF Requests
<1> HIDE DEF Work
<1> QED BY <1>1, <1>2, <1>3, <1>4, <1>5

\* A request that is begun is one, about the file it is begun for.
LEMMA DoingIsRequest ==
    ASSUME NEW op \in {"register", "look", "remove"}, NEW f \in Files, NEW copy \in BOOLEAN,
           NEW life \in {"live", "permanent"}, NEW r, r = Doing(op, f, copy, life)
    PROVE  r \in Requests /\ r.op = op /\ r.file = f
  BY DEF Doing, Requests

\* The empty store satisfies the invariant.
LEMMA StorageInitInv == StorageInit => StorageInv
<1> SUFFICES ASSUME StorageInit PROVE StorageInv
  OBVIOUS
<1>1. StorageTypeOK
  BY StorageRequests DEF StorageInit, StorageTypeOK
<1>2. KnownFilesAreUsed /\ RecordsGoFirst /\ RegisteredIsNew
  BY StorageRequests DEF StorageInit, KnownFilesAreUsed, RegisteredIsNew, RecordsGoFirst, Busy
<1>3. ChosenAreDoomed /\ PermanentStays /\ RecordsHaveContents
  BY DEF StorageInit, ChosenAreDoomed, PermanentStays, RecordsHaveContents
<1> QED BY <1>1, <1>2, <1>3 DEF StorageInv

\* A step of a cleanup thread that chooses and removes nothing
LEMMA WorkerInv ==
    ASSUME StorageInv, UNCHANGED <<files, todo, removing>>,
           running' \in BOOLEAN, current' \in Workers \cup {NoWorker},
           worker' \in [Workers -> {"new", "asleep", "cleaning", "ended"}]
    PROVE  StorageInv'
<1>1. StorageTypeOK' /\ KnownFilesAreUsed'
  BY DEF files, StorageInv, StorageTypeOK, KnownFilesAreUsed
<1>2. RegisteredIsNew' /\ RecordsGoFirst'
  BY DEF files, StorageInv, RegisteredIsNew, RecordsGoFirst, Busy, Chosen
<1>3. ChosenAreDoomed' /\ PermanentStays' /\ RecordsHaveContents'
  BY DEF files, StorageInv, ChosenAreDoomed, PermanentStays, RecordsHaveContents, Chosen, OnTheWay
<1> QED BY <1>1, <1>2, <1>3 DEF StorageInv

\* A step of a request that has no file on its way, to r, which has none either.
LEMMA StorageRequestInv ==
    ASSUME StorageInv, NEW r \in Requests, request' = r,
           ~Busy("register"), ~Busy("remove"), r.op \in {"idle", "look", "read", "delete"},
           r.op = "delete" => record[r.file] \in {"none", "expired"},
           UNCHANGED <<record, content, used, workers, kept, doomed, orphans, unstated>>
    PROVE  StorageInv'
<1>1. StorageTypeOK' /\ KnownFilesAreUsed'
  BY DEF workers, StorageInv, StorageTypeOK, KnownFilesAreUsed
<1>2. RegisteredIsNew' /\ RecordsGoFirst'
  BY DEF workers, StorageInv, RegisteredIsNew, RecordsGoFirst, Busy
<1>3. ChosenAreDoomed' /\ PermanentStays'
  BY DEF workers, StorageInv, ChosenAreDoomed, PermanentStays, Chosen
<1>4. RecordsHaveContents'
  BY DEF workers, StorageInv, RecordsHaveContents, OnTheWay, Busy
<1> QED BY <1>1, <1>2, <1>3, <1>4 DEF StorageInv

\* A content is stored under a new id.
LEMMA WriteInv ==
    ASSUME StorageInv, NEW f \in Files, NEW life \in {"live", "permanent"}, Write(f, life),
           ~Busy("register"), ~Busy("remove"), unstated' \subseteq Files,
           UNCHANGED <<record, workers, kept, doomed, orphans>>
    PROVE  StorageInv'
<1>1. /\ f \notin used /\ used' = used \cup {f} /\ content' = content \cup {f}
      /\ request' \in Requests /\ request'.op = "register" /\ request'.file = f
  <2> DEFINE r == Doing("register", f, FALSE, life)
  <2>1. r \in Requests /\ r.op = "register" /\ r.file = f
    BY DEF Doing, Requests
  <2> HIDE DEF r
  <2> QED BY <2>1 DEF Write, r
<1>2. record[f] = "none" /\ f # NoFile
  BY <1>1, StorageAssumption DEF StorageInv, StorageTypeOK, RecordsHaveContents
<1>3. StorageTypeOK' /\ KnownFilesAreUsed'
  BY <1>1 DEF workers, StorageInv, StorageTypeOK, KnownFilesAreUsed
<1>4. RegisteredIsNew' /\ RecordsGoFirst'
  <2>1. RegisteredIsNew'
    BY <1>1, <1>2 DEF workers, StorageInv, KnownFilesAreUsed, RegisteredIsNew, Chosen
  <2>2. RecordsGoFirst'
    BY <1>1 DEF workers, StorageInv, RecordsGoFirst, Busy
  <2> QED BY <2>1, <2>2
<1>5. ChosenAreDoomed' /\ PermanentStays'
  BY DEF workers, StorageInv, ChosenAreDoomed, PermanentStays, Chosen
<1>6. RecordsHaveContents'
  BY <1>1 DEF workers, StorageInv, RecordsHaveContents, OnTheWay, Busy
<1> QED BY <1>3, <1>4, <1>5, <1>6 DEF StorageInv

\* A file expires: its record stays until a cleanup chooses it.
LEMMA ExpireInv ==
    ASSUME StorageInv, NEW f \in Files, Expire(f)
    PROVE  StorageInv'
<1>1. \A g \in Files : record'[g] = IF g = f THEN "expired" ELSE record[g]
  BY DEF Expire, StorageInv, StorageTypeOK
<1>2. StorageTypeOK' /\ KnownFilesAreUsed'
  BY DEF Expire, workers, StorageInv, StorageTypeOK, KnownFilesAreUsed
<1>3. RegisteredIsNew'
  BY <1>1, StorageRequests
  DEF Expire, workers, StorageInv, StorageTypeOK, RegisteredIsNew, Busy, Chosen
<1>4. RecordsGoFirst'
  BY <1>1, StorageRequests DEF Expire, workers, StorageInv, StorageTypeOK, RecordsGoFirst, Busy
<1>5. ChosenAreDoomed' /\ PermanentStays'
  BY <1>1 DEF Expire, workers, StorageInv, StorageTypeOK, ChosenAreDoomed, PermanentStays, Chosen
<1>6. RecordsHaveContents'
  BY <1>1 DEF Expire, workers, StorageInv, RecordsHaveContents, OnTheWay
<1> QED BY <1>2, <1>3, <1>4, <1>5, <1>6 DEF StorageInv

\* store() records the content it has written before, under the same id.
LEMMA RegisterInv ==
    ASSUME StorageInv, Register
    PROVE  StorageInv'
<1> DEFINE f == request.file
<1>1. /\ f \in Files /\ request.life \in {"live", "permanent"}
      /\ record' = [record EXCEPT ![f] = request.life]
      /\ request' = Idle /\ request'.op = "idle"
      /\ kept' = IF request.life = "permanent" THEN kept \cup {f} ELSE kept
      /\ UNCHANGED <<content, used, workers, doomed, orphans, unstated>>
  BY StorageRequests DEF Register, Busy, StorageInv, StorageTypeOK
<1>2. /\ f \in content /\ f \in used /\ f \notin kept
      /\ ~Chosen(f) /\ \A w \in Workers : removing[w] # f
  BY DEF Register, StorageInv, StorageTypeOK, RegisteredIsNew
<1>3. \A g \in Files : record'[g] = IF g = f THEN request.life ELSE record[g]
  BY <1>1 DEF StorageInv, StorageTypeOK
<1>4. StorageTypeOK' /\ KnownFilesAreUsed'
  BY <1>1, <1>2, StorageRequests DEF workers, StorageInv, StorageTypeOK, KnownFilesAreUsed
<1>5. RegisteredIsNew' /\ RecordsGoFirst'
  <2>1. RegisteredIsNew'
    BY <1>1 DEF RegisteredIsNew, Busy
  <2>2. RecordsGoFirst'
    BY <1>1, <1>2, <1>3 DEF workers, StorageInv, StorageTypeOK, RecordsGoFirst, Busy
  <2> QED BY <2>1, <2>2
<1>6. ChosenAreDoomed' /\ PermanentStays'
  BY <1>1, <1>2, <1>3
  DEF workers, StorageInv, StorageTypeOK, ChosenAreDoomed, PermanentStays, Chosen
<1>7. RecordsHaveContents'
  BY <1>1, <1>2, <1>3 DEF workers, StorageInv, RecordsHaveContents, OnTheWay
<1> QED BY <1>4, <1>5, <1>6, <1>7 DEF StorageInv

\* A request takes the record of f away and is about to remove the content.
LEMMA PopInv ==
    ASSUME StorageInv, NEW f \in Files, record[f] # "none", record' = Popped(f),
           NEW r \in Requests, request' = r, r.op = "remove", r.file = f,
           ~Busy("register"), ~Busy("remove"),
           kept' \subseteq kept, f \in kept' => f \in doomed,
           unstated' \subseteq Files,
           UNCHANGED <<content, used, workers, doomed, orphans>>
    PROVE  StorageInv'
<1>1. \A g \in Files : record'[g] = IF g = f THEN "none" ELSE record[g]
  BY DEF Popped, StorageInv, StorageTypeOK
<1>2. StorageTypeOK' /\ KnownFilesAreUsed'
  BY DEF Popped, workers, StorageInv, StorageTypeOK, KnownFilesAreUsed
<1>3. RegisteredIsNew'
  BY DEF RegisteredIsNew, Busy
<1>4. RecordsGoFirst'
  BY <1>1 DEF workers, StorageInv, StorageTypeOK, RecordsGoFirst, Busy
<1>5. ChosenAreDoomed' /\ PermanentStays'
  BY <1>1 DEF workers, StorageInv, StorageTypeOK, ChosenAreDoomed, PermanentStays, Chosen
<1>6. RecordsHaveContents'
  BY <1>1 DEF workers, StorageInv, RecordsHaveContents, OnTheWay, Busy
<1> QED BY <1>2, <1>3, <1>4, <1>5, <1>6 DEF StorageInv

\* remove() and the cleanup take the record away before the content.
LEMMA DiscardInv ==
    ASSUME StorageInv, Discard
    PROVE  StorageInv'
<1> DEFINE f == request.file
<1>1. f \in Files /\ record[f] \in {"none", "expired"}
  BY StorageRequests DEF Discard, Busy, StorageInv, StorageTypeOK, RecordsGoFirst
<1>2. CASE record[f] = "none"
  <2>1. record' = record
    BY <1>1, <1>2 DEF Discard, Popped, StorageInv, StorageTypeOK
  <2>2. request' = Idle
    BY <1>2 DEF Discard
  <2> QED BY <2>1, <2>2, StorageRequests, StorageRequestInv DEF Discard, Busy
<1>3. CASE record[f] = "expired"
  <2> DEFINE r == [request EXCEPT !.op = "remove"]
  <2>1. request' = r /\ r \in Requests /\ r.op = "remove" /\ r.file = f
    BY <1>3, StorageRequests DEF Discard, Busy, StorageInv, StorageTypeOK
  <2>2. f \in kept => f \in doomed
    BY <1>3 DEF StorageInv, PermanentStays
  <2>3. unstated' \subseteq Files
    BY DEF Discard, StorageInv, StorageTypeOK
  <2> HIDE DEF r
  <2> QED BY <1>1, <1>3, <2>1, <2>2, <2>3, PopInv DEF Discard, Busy
<1> QED BY <1>1, <1>2, <1>3

\* The content is removed when its record has gone.
LEMMA RemoveInv ==
    ASSUME StorageInv, Remove
    PROVE  StorageInv'
<1> DEFINE f == request.file
<1>1. /\ f \in Files /\ record[f] = "none"
      /\ content' \subseteq content /\ content \subseteq content' \cup {f}
      /\ orphans \subseteq orphans' /\ orphans' \subseteq Files
      /\ f \notin content' \/ f \in orphans'
      /\ request' = Idle /\ request'.op = "idle" /\ Idle \in Requests
      /\ UNCHANGED <<record, used, workers, kept, doomed, unstated>>
  BY StorageRequests DEF Remove, Removed, Busy, StorageInv, StorageTypeOK, RecordsGoFirst
<1>2. StorageTypeOK' /\ KnownFilesAreUsed'
  BY <1>1 DEF workers, StorageInv, StorageTypeOK, KnownFilesAreUsed
<1>3. RegisteredIsNew' /\ RecordsGoFirst'
  BY <1>1 DEF workers, StorageInv, RegisteredIsNew, RecordsGoFirst, Busy
<1>4. ChosenAreDoomed' /\ PermanentStays'
  BY <1>1 DEF workers, StorageInv, ChosenAreDoomed, PermanentStays, Chosen
<1>5. RecordsHaveContents'
  BY <1>1 DEF workers, StorageInv, RecordsHaveContents, OnTheWay
<1> QED BY <1>2, <1>3, <1>4, <1>5 DEF StorageInv

\* What a cleanup has chosen as expired may be made permanent: it is doomed.
LEMMA MoveToPermanentInv ==
    ASSUME StorageInv, NEW f \in Files, MoveToPermanent(f)
    PROVE  StorageInv'
<1>1. \A g \in Files : record'[g] = IF g = f THEN "permanent" ELSE record[g]
  BY DEF MoveToPermanent, StorageInv, StorageTypeOK
<1>2. f \in used
  BY DEF MoveToPermanent, StorageInv, StorageTypeOK, RecordsHaveContents
<1>3. StorageTypeOK' /\ KnownFilesAreUsed'
  BY <1>2 DEF MoveToPermanent, workers, StorageInv, StorageTypeOK, KnownFilesAreUsed
<1>4. RegisteredIsNew' /\ RecordsGoFirst'
  BY <1>1 DEF MoveToPermanent, workers, StorageInv, StorageTypeOK, RegisteredIsNew,
              RecordsGoFirst, Busy
<1>5. ChosenAreDoomed' /\ PermanentStays'
  BY <1>1 DEF MoveToPermanent, workers, StorageInv, StorageTypeOK, ChosenAreDoomed, PermanentStays,
              Chosen
<1>6. RecordsHaveContents'
  BY <1>1 DEF MoveToPermanent, workers, StorageInv, RecordsHaveContents, OnTheWay
<1> QED BY <1>3, <1>4, <1>5, <1>6 DEF StorageInv

-----------------------------------------------------------------------------
\* A cleanup chooses expired files only, and dooms them.
LEMMA CollectInv ==
    ASSUME StorageInv, NEW w \in Workers, Collect(w)
    PROVE  StorageInv'
<1>1. \A v \in Workers : todo'[v] = IF v = w THEN ExpiredFiles ELSE todo[v]
  BY DEF Collect, StorageInv, StorageTypeOK
<1>2. ExpiredFiles \subseteq Files /\ \A f \in ExpiredFiles : record[f] = "expired" /\ f \in used
  BY DEF ExpiredFiles, Expired, StorageInv, StorageTypeOK, RecordsHaveContents
<1>3. StorageTypeOK' /\ KnownFilesAreUsed'
  BY <1>1, <1>2 DEF Collect, files, StorageInv, StorageTypeOK, KnownFilesAreUsed
<1>4. RegisteredIsNew' /\ RecordsGoFirst'
  BY <1>1, <1>2 DEF Collect, files, StorageInv, RegisteredIsNew, RecordsGoFirst, Busy, Chosen
<1>5. ChosenAreDoomed'
  BY <1>1, <1>2 DEF Collect, files, StorageInv, ChosenAreDoomed, PermanentStays, Chosen
<1>6. PermanentStays' /\ RecordsHaveContents'
  BY DEF Collect, files, StorageInv, PermanentStays, RecordsHaveContents, OnTheWay
<1> QED BY <1>3, <1>4, <1>5, <1>6 DEF StorageInv

\* A cleanup takes the record of what it has chosen, permanent or not.
LEMMA CleanInv ==
    ASSUME StorageInv, NEW w \in Workers, NEW f \in Files, Clean(w, f)
    PROVE  StorageInv'
<1>1. /\ \A g \in Files : record'[g] = IF g = f THEN "none" ELSE record[g]
      /\ \A v \in Workers :
             /\ todo'[v] = IF v = w THEN todo[v] \ {f} ELSE todo[v]
             /\ removing'[v] = IF v # w THEN removing[v]
                               ELSE IF record[f] = "none" THEN NoFile ELSE f
  BY DEF Clean, Popped, StorageInv, StorageTypeOK
<1>2. f \in used /\ f # NoFile /\ removing[w] = NoFile /\ Chosen(f)
  BY StorageAssumption DEF Clean, StorageInv, KnownFilesAreUsed, Chosen
<1>3. StorageTypeOK'
  BY <1>2 DEF Clean, Popped, StorageInv, StorageTypeOK
<1>4. KnownFilesAreUsed'
  BY <1>1, <1>2 DEF Clean, StorageInv, KnownFilesAreUsed
<1>5. RegisteredIsNew'
  BY <1>1, <1>2, StorageRequests DEF Clean, StorageInv, StorageTypeOK, RegisteredIsNew, Busy, Chosen
<1>6. RecordsGoFirst'
  BY <1>1, <1>2, StorageRequests DEF Clean, StorageInv, StorageTypeOK, RecordsGoFirst, Busy
<1>7. ChosenAreDoomed'
  BY <1>1 DEF Clean, StorageInv, ChosenAreDoomed, Chosen
<1>8. PermanentStays'
  <2> SUFFICES ASSUME NEW g \in kept, record[g] = "permanent"
               PROVE  record'[g] = "permanent" \/ g \in doomed
    BY DEF Clean, StorageInv, PermanentStays
  <2> QED BY <1>1, <1>2 DEF StorageInv, StorageTypeOK, ChosenAreDoomed
<1>9. RecordsHaveContents'
  <2>1. UNCHANGED <<content, request, orphans>>
    BY DEF Clean
  <2>2. ASSUME NEW g \in Files, OnTheWay(g) PROVE OnTheWay(g)'
    BY <1>1, <1>2, <2>1, <2>2, StorageAssumption DEF OnTheWay
  <2>3. ASSUME NEW g \in Files, record'[g] # "none" PROVE g \in content
    BY <1>1, <2>3 DEF StorageInv, RecordsHaveContents
  <2>4. ASSUME NEW g \in content, g \in Files
        PROVE  record'[g] # "none" \/ OnTheWay(g)' \/ g \in orphans
    <3>1. CASE g = f /\ record[f] # "none"
      BY <1>1, <3>1 DEF OnTheWay
    <3>2. CASE ~(g = f /\ record[f] # "none")
      BY <1>1, <2>2, <2>4, <3>2 DEF StorageInv, RecordsHaveContents
    <3> QED BY <3>1, <3>2
  <2> QED BY <2>1, <2>3, <2>4 DEF RecordsHaveContents
<1> QED BY <1>3, <1>4, <1>5, <1>6, <1>7, <1>8, <1>9 DEF StorageInv

\* A cleanup removes the content after the record, or leaves an orphan.
LEMMA CleanContentInv ==
    ASSUME StorageInv, NEW w \in Workers, CleanContent(w)
    PROVE  StorageInv'
<1> DEFINE f == removing[w]
<1>1. /\ f \in Files /\ record[f] = "none"
      /\ content' \subseteq content /\ content \subseteq content' \cup {f}
      /\ orphans \subseteq orphans' /\ orphans' \subseteq Files
      /\ f \notin content' \/ f \in orphans'
      /\ UNCHANGED <<record, used, request, running, current, worker, todo, kept, doomed, unstated>>
  BY DEF CleanContent, Removed, StorageInv, StorageTypeOK, RecordsGoFirst
<1>2. \A v \in Workers : removing'[v] = IF v = w THEN NoFile ELSE removing[v]
  BY DEF CleanContent, StorageInv, StorageTypeOK
<1>3. StorageTypeOK'
  BY <1>1 DEF CleanContent, StorageInv, StorageTypeOK
<1>4. KnownFilesAreUsed'
  BY <1>1, <1>2 DEF StorageInv, KnownFilesAreUsed
<1>5. RegisteredIsNew'
  <2> SUFFICES ASSUME Busy("register") PROVE RegisteredIsNew'
    BY <1>1 DEF RegisteredIsNew, Busy
  <2>1. request.file # f /\ request.file # NoFile
    BY StorageAssumption, StorageRequests DEF Busy, StorageInv, StorageTypeOK, RegisteredIsNew
  <2> QED BY <1>1, <1>2, <2>1 DEF StorageInv, RegisteredIsNew, Busy, Chosen
<1>6. RecordsGoFirst'
  BY <1>1, <1>2 DEF StorageInv, RecordsGoFirst, Busy
<1>7. ChosenAreDoomed' /\ PermanentStays'
  BY <1>1 DEF StorageInv, ChosenAreDoomed, PermanentStays, Chosen
<1>8. RecordsHaveContents'
  BY <1>1, <1>2 DEF StorageInv, RecordsHaveContents, OnTheWay
<1> QED BY <1>3, <1>4, <1>5, <1>6, <1>7, <1>8 DEF StorageInv

\* A restart forgets the records, and every content becomes an orphan.
LEMMA CrashInv ==
    ASSUME StorageInv, Crash
    PROVE  StorageInv'
<1>1. StorageTypeOK'
  BY StorageRequests DEF Crash, StorageInv, StorageTypeOK
<1>2. KnownFilesAreUsed' /\ RegisteredIsNew' /\ RecordsGoFirst'
  BY StorageRequests DEF Crash, KnownFilesAreUsed, RegisteredIsNew, RecordsGoFirst, Busy
<1>3. ChosenAreDoomed' /\ PermanentStays' /\ RecordsHaveContents'
  BY DEF Crash, StorageInv, ChosenAreDoomed, PermanentStays, RecordsHaveContents
<1> QED BY <1>1, <1>2, <1>3 DEF StorageInv

\* No step of a request, a cleanup or a crash breaks the invariant.
LEMMA StorageNextInv == StorageInv /\ [StorageNext]_storageVars => StorageInv'
<1> SUFFICES ASSUME StorageInv, [StorageNext]_storageVars PROVE StorageInv'
  OBVIOUS
<1>1. CASE UNCHANGED storageVars
  BY <1>1, WorkerInv DEF storageVars, files, StorageInv, StorageTypeOK
<1>2. ASSUME NEW f \in Files, NEW ttl \in Ttls, Store(f, ttl) PROVE StorageInv'
  <2>1. Life(ttl) \in {"live", "permanent"} /\ unstated' \subseteq Files
    BY <1>2 DEF Life, Store, StorageInv, StorageTypeOK
  <2> QED BY <1>2, <2>1, WriteInv DEF Store, Busy
<1>3. ASSUME NEW f \in Files, NEW copy \in BOOLEAN, Look(f, copy) PROVE StorageInv'
  <2>1. /\ Doing("look", f, copy, "live") \in Requests
        /\ Doing("look", f, copy, "live").op = "look"
    BY DoingIsRequest
  <2> QED BY <1>3, <2>1, StorageRequestInv DEF Look, Busy
<1>4. CASE Judge
  <2> DEFINE reads == [request EXCEPT !.op = "read"]
             deletes == [request EXCEPT !.op = "delete"]
  <2>1. request \in Requests /\ request.op = "look"
    BY <1>4 DEF Judge, Busy, StorageInv, StorageTypeOK
  <2>2. reads \in Requests /\ reads.op = "read"
    BY <2>1, StorageRequests
  <2>3. deletes \in Requests /\ deletes.op = "delete" /\ deletes.file = request.file
    BY <2>1, StorageRequests
  <2>4. \/ request' = reads
        \/ request' = deletes /\ record[request.file] \in {"none", "expired"}
    BY <1>4 DEF Judge, Expired
  <2> HIDE DEF reads, deletes
  <2> QED BY <1>4, <2>1, <2>2, <2>3, <2>4, StorageRequestInv DEF Judge, Busy
<1>5. CASE Read
  <2>1. CASE request' = Idle /\ UNCHANGED <<content, used>>
    BY <1>5, <2>1, StorageRequests, StorageRequestInv DEF Read, Busy
  <2>2. ASSUME NEW g \in Files, Write(g, "live") PROVE StorageInv'
    BY <1>5, <2>2, WriteInv DEF Read, Busy, StorageInv, StorageTypeOK
  <2> QED BY <1>5, <2>1, <2>2 DEF Read
<1>6. ASSUME NEW f \in Files, Delete(f) PROVE StorageInv'
  <2> DEFINE r == Doing("remove", f, FALSE, "live")
  <2>1. r \in Requests /\ r.op = "remove" /\ r.file = f
    BY DoingIsRequest
  <2>2. unstated' \subseteq Files
    BY <1>6 DEF Delete, StorageInv, StorageTypeOK
  <2> HIDE DEF r
  <2> QED BY <1>6, <2>1, <2>2, PopInv DEF Delete, Busy, r
<1>7. ASSUME NEW w \in Workers, StartWorker(w) \/ EndWorker(w) \/ Sleep(w) PROVE StorageInv'
  BY <1>7, WorkerInv DEF StartWorker, EndWorker, Sleep, StorageInv, StorageTypeOK
<1>8. CASE StopWorker
  BY <1>8, WorkerInv DEF StopWorker, StorageInv, StorageTypeOK
<1> QED BY <1>1, <1>2, <1>3, <1>4, <1>5, <1>6, <1>7, <1>8, ExpireInv, RegisterInv, DiscardInv,
           RemoveInv, MoveToPermanentInv, CollectInv, CleanInv, CleanContentInv, CrashInv
        DEF StorageNext

-----------------------------------------------------------------------------
\* The inductive invariant of FileStorage holds in every state of it.
THEOREM StorageInvariance == StorageSpec => []StorageInv
  BY StorageInitInv, StorageNextInv, PTL DEF StorageSpec

\* The variables of FileStorage keep their types.
THEOREM StorageTypes == StorageSpec => []StorageTypeOK
  BY StorageInvariance, PTL DEF StorageInv

\* The cleanup takes no permanent file but one it chose before it became one,
\* for any number of files and of cleanup threads left over.
THEOREM StoragePermanentStays == StorageSpec => []PermanentStays
  BY StorageInvariance, PTL DEF StorageInv

\* No step of the request thread and the cleanup threads, in any order, loses a
\* content that has a record or leaves one behind that has none.
THEOREM StorageRecordsHaveContents == StorageSpec => []RecordsHaveContents
  BY StorageInvariance, PTL DEF StorageInv

-----------------------------------------------------------------------------
(* AuditChain: what a report has of a log whose entries are a chain in the order
   of their times. *)

\* A set of numbers that is not empty has a least one.
LEMMA LeastNumber ==
    ASSUME NEW S \in SUBSET Nat, S # {}
    PROVE  \E n \in S : \A m \in S : n <= m
<1>1. PICK n \in S : \A m \in S : ~(<<m, n>> \in OpToRel(<, Nat))
  BY NatLessThanWellFounded, WFMin
<1>2. \A m \in S : ~(m < n)
  BY <1>1 DEF OpToRel
<1> QED BY <1>2

\* The entries of a log have times that compare.
LEMMA LogTimes ==
    ASSUME log \in Seq(Entries), AuditAssumption
    PROVE  /\ Len(log) \in Nat
           /\ \A i \in 1..Len(log) : /\ log[i].time \in Nat /\ log[i].id \in 1..MaxEntries
                                     /\ log[i].previous \in 0..MaxEntries
                                     /\ log[i].signed \in 0..MaxEntries
<1>1. \A i \in 1..Len(log) : log[i] \in Entries
  OBVIOUS
<1>2. \A e \in Entries : /\ e.time \in Nat /\ e.id \in 1..MaxEntries
                         /\ e.previous \in 0..MaxEntries /\ e.signed \in 0..MaxEntries
  BY DEF Entries, AuditAssumption
<1> QED BY <1>1, <1>2

\* Ahead is a strict total order of the entries.
LEMMA AheadOrders ==
    ASSUME log \in Seq(Entries), AuditAssumption
    PROVE  \A i, j \in 1..Len(log) :
               /\ ~Ahead(i, i)
               /\ i # j => Ahead(i, j) \/ Ahead(j, i)
               /\ \A k \in 1..Len(log) : Ahead(i, j) /\ Ahead(j, k) => Ahead(i, k)
<1>1. Len(log) \in Nat /\ \A i \in 1..Len(log) : log[i].time \in Nat
  BY LogTimes
<1>2. ASSUME NEW i \in 1..Len(log), NEW j \in 1..Len(log)
      PROVE  ~Ahead(i, i) /\ (i # j => Ahead(i, j) \/ Ahead(j, i))
  BY <1>1 DEF Ahead
<1>3. ASSUME NEW i \in 1..Len(log), NEW j \in 1..Len(log), NEW k \in 1..Len(log),
             Ahead(i, j), Ahead(j, k)
      PROVE  Ahead(i, k)
  BY <1>1, <1>3 DEF Ahead
<1> QED BY <1>2, <1>3

\* The places of a set of entries: 1, 2, ... with one entry at each, and an entry
\* that is ahead of another has the smaller place.
LEMMA PlacesOrder ==
    ASSUME log \in Seq(Entries), AuditAssumption, NEW I \in SUBSET (1..Len(log))
    PROVE  /\ Cardinality(I) \in Nat
           /\ \A i \in I : Place(I, i) \in 1..Cardinality(I)
           /\ \A i, j \in I : Ahead(i, j) <=> Place(I, i) < Place(I, j)
           /\ \A i, j \in I : Place(I, i) = Place(I, j) => i = j
<1>1. Len(log) \in Nat
  BY LogTimes
<1>2. IsFiniteSet(I) /\ Cardinality(I) \in Nat
  <2>1. IsFiniteSet(1..Len(log))
    BY <1>1, FS_Interval
  <2>2. IsFiniteSet(I)
    BY <2>1, FS_Subset
  <2> QED BY <2>2, FS_CardinalityType
<1> DEFINE B(i) == {j \in I : Ahead(j, i)}
<1>3. \A i \in I : Place(I, i) = Cardinality(B(i)) + 1
  BY DEF Place
<1>4. ASSUME NEW S \in SUBSET I PROVE IsFiniteSet(S) /\ Cardinality(S) \in Nat
  <2>1. IsFiniteSet(S)
    BY <1>2, FS_Subset
  <2> QED BY <2>1, FS_CardinalityType
<1>5. \A i, j, k \in I : /\ ~Ahead(i, i)
                         /\ i # j => Ahead(i, j) \/ Ahead(j, i)
                         /\ Ahead(i, j) /\ Ahead(j, k) => Ahead(i, k)
  BY AheadOrders
<1>6. ASSUME NEW i \in I PROVE Place(I, i) \in 1..Cardinality(I)
  <2>1. B(i) \in SUBSET I /\ i \notin B(i)
    BY <1>5
  <2>2. Cardinality(B(i)) <= Cardinality(I) /\ (Cardinality(I) = Cardinality(B(i)) => I = B(i))
    BY <1>2, <2>1, FS_Subset
  <2>3. Cardinality(B(i)) \in Nat /\ Cardinality(B(i)) # Cardinality(I)
    BY <1>4, <2>1, <2>2
  <2> HIDE DEF B
  <2> QED BY <1>2, <1>3, <2>2, <2>3
<1>7. ASSUME NEW i \in I, NEW j \in I, Ahead(i, j) PROVE Place(I, i) < Place(I, j)
  <2>1. B(i) \in SUBSET B(j) /\ i \in B(j) /\ i \notin B(i) /\ B(j) \in SUBSET I
    BY <1>5, <1>7
  <2>2. IsFiniteSet(B(j))
    BY <1>4, <2>1
  <2>3. /\ Cardinality(B(i)) <= Cardinality(B(j))
        /\ Cardinality(B(j)) = Cardinality(B(i)) => B(j) = B(i)
    BY <2>1, <2>2, FS_Subset
  <2>4. Cardinality(B(i)) \in Nat /\ Cardinality(B(j)) \in Nat
    BY <1>4, <2>1
  <2>5. Cardinality(B(i)) # Cardinality(B(j))
    BY <2>1, <2>3
  <2> HIDE DEF B
  <2> QED BY <1>3, <2>3, <2>4, <2>5
<1>8. ASSUME NEW i \in I, NEW j \in I PROVE Place(I, i) \in Int /\ Place(I, j) \in Int
  BY <1>2, <1>6
<1>9. ASSUME NEW i \in I, NEW j \in I, Place(I, i) < Place(I, j) PROVE Ahead(i, j)
  <2>1. i # j
    BY <1>8, <1>9
  <2>2. ~Ahead(j, i)
    BY <1>7, <1>8, <1>9
  <2> QED BY <1>5, <2>1, <2>2
<1>10. ASSUME NEW i \in I, NEW j \in I, Place(I, i) = Place(I, j) PROVE i = j
  <2>1. ~Ahead(i, j) /\ ~Ahead(j, i)
    BY <1>7, <1>8, <1>10
  <2> QED BY <1>5, <2>1
<1> QED BY <1>2, <1>6, <1>7, <1>9, <1>10

\* A report has an entry at every place.
LEMMA PlacesFilled ==
    ASSUME log \in Seq(Entries), AuditAssumption, NEW I \in SUBSET (1..Len(log)),
           NEW k \in 1..Cardinality(I)
    PROVE  AtPlace(I, k) \in I /\ Place(I, AtPlace(I, k)) = k
<1>1. Len(log) \in Nat /\ Cardinality(I) \in Nat
  BY LogTimes, PlacesOrder
<1>2. IsFiniteSet(I)
  <2>1. IsFiniteSet(1..Len(log))
    BY <1>1, FS_Interval
  <2> QED BY <2>1, FS_Subset
<1> DEFINE f == [i \in I |-> Place(I, i)]
<1> DEFINE T == 1..Cardinality(I)
<1>3. f \in Injection(I, T)
  <2>1. f \in [I -> T] /\ \A i, j \in I : f[i] = f[j] => i = j
    BY PlacesOrder
  <2> QED BY <2>1 DEF Injection, IsInjective
<1>4. IsFiniteSet(T) /\ Cardinality(T) = Cardinality(I)
  <2>1. \A n \in Nat : IsFiniteSet(1..n) /\ Cardinality(1..n) = n
    BY FS_Interval
  <2> QED BY <1>1, <2>1
<1> HIDE DEF T
<1>5. f \in Surjection(I, T)
  BY <1>3, <1>4, FS_Injection
<1>6. \E i \in I : f[i] = k
  BY <1>5 DEF Surjection, T
<1> QED BY <1>6 DEF AtPlace

\* A log whose entries are in order of their numbers and times, each following the
\* one before it, the first one none.
InOrder == /\ \A i, j \in 1..Len(log) : i < j => log[i].id < log[j].id /\ log[i].time <= log[j].time
           /\ Verified(log)
           /\ log # <<>> => log[1].previous = NoChecksum

\* What the report has at its places.
LEMMA ReportEntries ==
    ASSUME log \in Seq(Entries), AuditAssumption, NEW from, NEW to
    PROVE  LET I == InPeriod(from, to)
               R == Reported(from, to)
           IN  /\ I \in SUBSET (1..Len(log)) /\ Cardinality(I) \in Nat
               /\ Len(R) \in Nat /\ Len(R) <= Cardinality(I)
               /\ DOMAIN R = 1..Len(R)
               /\ \A k \in 1..Len(R) : R[k] = log[AtPlace(I, k)]
<1> DEFINE I == InPeriod(from, to)
           size == IF Cardinality(I) < ReportPage THEN Cardinality(I) ELSE ReportPage
<1>1. I \in SUBSET (1..Len(log))
  BY DEF InPeriod
<1>2. Cardinality(I) \in Nat
  <2> HIDE DEF I
  <2> QED BY <1>1, PlacesOrder
<1>3. size \in Nat /\ size <= Cardinality(I)
  BY <1>2 DEF ReportPage
<1>4. Reported(from, to) = [k \in 1..size |-> log[AtPlace(I, k)]]
  BY DEF Reported
<1> HIDE DEF size, I
<1>5. Len(Reported(from, to)) = size /\ DOMAIN Reported(from, to) = 1..size
  BY <1>3, <1>4
<1> QED BY <1>1, <1>2, <1>3, <1>4, <1>5 DEF I

\* Neighbours of a report that is verified are neighbours of the log, in this order.
LEMMA VerifiedNeighbours ==
    ASSUME log \in Seq(Entries), AuditAssumption, InOrder,
           NEW i \in 1..Len(log), NEW j \in 1..Len(log), log[j].previous = log[i].id
    PROVE  j = i + 1
<1>1. /\ Len(log) \in Nat
      /\ \A k \in 1..Len(log) : log[k].id \in 1..MaxEntries
  BY LogTimes
<1>2. j # 1
  BY <1>1, AuditAssumption DEF InOrder, NoChecksum, AuditAssumption
<1>3. j - 1 \in 1..Len(log) /\ log[j].previous = log[j - 1].id
  <2>1. j - 1 \in 1..Len(log)
    BY <1>1, <1>2
  <2>2. Intact(log[j], j, log)
    BY DEF InOrder, Verified
  <2> QED BY <1>2, <2>1, <2>2 DEF Intact
<1>4. log[j - 1].id = log[i].id
  BY <1>3
<1>5. ~(j - 1 < i) /\ ~(i < j - 1)
  <2>1. \A k \in 1..Len(log) : log[k].id \in Nat
    BY <1>1, AuditAssumption DEF AuditAssumption
  <2>2. \A k, m \in 1..Len(log) : k < m => log[k].id < log[m].id
    BY DEF InOrder
  <2>3. ~(log[j - 1].id < log[i].id) /\ ~(log[i].id < log[j - 1].id)
    BY <1>3, <1>4, <2>1
  <2> QED BY <1>3, <2>2, <2>3
<1> QED BY <1>1, <1>3, <1>5

\* A report of a log that is a chain is intact just if it is of one instant.
LEMMA ReportIsOfOneInstant ==
    ASSUME log \in Seq(Entries), AuditAssumption, InOrder,
           NEW from \in Nat, NEW to \in Nat
    PROVE  LET report == Reported(from, to)
           IN  Verified(report) <=>
                   \A i, j \in 1..Len(report) : report[i].time = report[j].time
<1> DEFINE I == InPeriod(from, to)
           report == Reported(from, to)
           n == Len(report)
           at(k) == AtPlace(I, k)
<1>1. /\ I \in SUBSET (1..Len(log)) /\ Cardinality(I) \in Nat
      /\ n \in Nat /\ n <= Cardinality(I)
      /\ \A k \in 1..n : report[k] = log[at(k)]
  BY ReportEntries
<1>2. /\ Len(log) \in Nat
      /\ \A k \in 1..Len(log) : log[k].time \in Nat
  BY LogTimes
<1>3. \A k \in 1..n : at(k) \in I /\ Place(I, at(k)) = k
  <2> SUFFICES ASSUME NEW k \in 1..n PROVE at(k) \in I /\ Place(I, at(k)) = k
    OBVIOUS
  <2> HIDE DEF I, n
  <2>1. k \in 1..Cardinality(I)
    BY <1>1
  <2> QED BY <1>1, <2>1, PlacesFilled
<1>4. /\ \A i \in I : Place(I, i) \in Int
      /\ \A i, j \in I : Ahead(i, j) <=> Place(I, i) < Place(I, j)
  <2> HIDE DEF I
  <2>1. \A i \in I : Place(I, i) \in 1..Cardinality(I)
    BY <1>1, PlacesOrder
  <2> QED BY <1>1, <2>1, PlacesOrder
<1>5. \A i \in 1..Len(log) : i \in I <=> log[i].time \in from..to
  BY DEF InPeriod
<1> HIDE DEF I, report, n, at
<1>6. \A k \in 1..n : k > 1 => Ahead(at(k - 1), at(k))
  <2> SUFFICES ASSUME NEW k \in 1..n, k > 1 PROVE Ahead(at(k - 1), at(k))
    OBVIOUS
  <2>1. k - 1 \in 1..n
    BY <1>1
  <2>2. /\ at(k - 1) \in I /\ Place(I, at(k - 1)) = k - 1
        /\ at(k) \in I /\ Place(I, at(k)) = k
    BY <1>3, <2>1
  <2> QED BY <1>4, <2>2
<1>7. ASSUME \A i, j \in 1..n : report[i].time = report[j].time
      PROVE  Verified(report)
  <2> SUFFICES ASSUME NEW k \in 1..n PROVE Intact(report[k], k, report)
    BY DEF Verified, n
  <2>1. at(k) \in I /\ at(k) \in 1..Len(log) /\ report[k] = log[at(k)]
    BY <1>1, <1>3
  <2>2. Intact(log[at(k)], at(k), log)
    BY <2>1 DEF InOrder, Verified
  <2>3. CASE k = 1
    BY <2>1, <2>2, <2>3 DEF Intact
  <2>4. CASE k > 1
    <3>1. k - 1 \in 1..n
      BY <1>1, <2>4
    <3>2. at(k - 1) \in I /\ at(k - 1) \in 1..Len(log) /\ report[k - 1] = log[at(k - 1)]
      BY <1>1, <1>3, <3>1
    <3>3. log[at(k - 1)].time = log[at(k)].time
      BY <1>7, <2>1, <3>1, <3>2
    <3>4. at(k - 1) < at(k)
      BY <1>2, <1>6, <2>1, <2>4, <3>2, <3>3 DEF Ahead
    <3>5. at(k) - 1 <= at(k - 1)
      <4> SUFFICES ASSUME at(k - 1) < at(k) - 1 PROVE FALSE
        BY <2>1, <3>2
      <4> DEFINE b == at(k) - 1
      <4>1. b \in 1..Len(log) /\ at(k - 1) < b /\ b < at(k)
        BY <1>2, <2>1, <3>2
      <4> HIDE DEF b
      <4>2. log[at(k - 1)].time <= log[b].time /\ log[b].time <= log[at(k)].time
        BY <2>1, <3>2, <4>1 DEF InOrder
      <4>3. log[b].time = log[at(k)].time
        BY <1>2, <2>1, <3>2, <3>3, <4>1, <4>2
      <4>4. b \in I
        BY <1>5, <2>1, <4>1, <4>3
      <4>5. Ahead(at(k - 1), b) /\ Ahead(b, at(k))
        BY <3>3, <4>1, <4>3 DEF Ahead
      <4>6. /\ Place(I, at(k - 1)) < Place(I, b) /\ Place(I, b) < Place(I, at(k))
            /\ Place(I, b) \in Int
        BY <1>4, <2>1, <3>2, <4>4, <4>5
      <4> QED BY <1>3, <3>1, <4>6
    <3>6. at(k) - 1 = at(k - 1) /\ at(k) # 1
      BY <2>1, <3>2, <3>4, <3>5
    <3>7. log[at(k)].previous = log[at(k) - 1].id
      BY <2>2, <3>6 DEF Intact
    <3> QED BY <2>1, <2>2, <3>2, <3>6, <3>7 DEF Intact
  <2> QED BY <1>1, <2>3, <2>4
<1>8. ASSUME Verified(report)
      PROVE  \A i, j \in 1..n : report[i].time = report[j].time
  <2>1. \A k \in 1..n : k > 1 => report[k].time = report[k - 1].time
    <3> SUFFICES ASSUME NEW k \in 1..n, k > 1 PROVE report[k].time = report[k - 1].time
      OBVIOUS
    <3>1. k - 1 \in 1..n
      BY <1>1
    <3>2. /\ at(k) \in 1..Len(log) /\ report[k] = log[at(k)]
          /\ at(k - 1) \in 1..Len(log) /\ report[k - 1] = log[at(k - 1)]
      BY <1>1, <1>3, <3>1
    <3>3. report[k].previous = report[k - 1].id
      BY <1>8 DEF Verified, Intact, n
    <3>4. at(k) = at(k - 1) + 1
      BY <3>2, <3>3, VerifiedNeighbours
    <3>5. log[at(k - 1)].time <= log[at(k)].time
      BY <3>2, <3>4 DEF InOrder
    <3>6. ~(log[at(k - 1)].time < log[at(k)].time)
      BY <1>2, <1>6, <3>2 DEF Ahead
    <3> QED BY <1>2, <3>2, <3>5, <3>6
  <2>2. \A k \in 1..n : report[k].time = report[1].time
    <3> DEFINE Other == {k \in 1..n : report[k].time # report[1].time}
    <3> SUFFICES ASSUME Other # {} PROVE FALSE
      OBVIOUS
    <3>1. Other \in SUBSET Nat
      BY <1>1
    <3>2. PICK k \in Other : \A m \in Other : k <= m
      BY <3>1, LeastNumber
    <3>3. k \in 1..n /\ k > 1 /\ report[k].time # report[1].time
      BY <1>1, <3>2
    <3>4. k - 1 \in 1..n /\ report[k - 1].time # report[1].time
      BY <1>1, <2>1, <3>3
    <3>5. k - 1 \in Other
      BY <3>4
    <3> QED BY <3>2, <3>3, <3>5
  <2> QED BY <2>2
<1> QED BY <1>7, <1>8 DEF report, n

-----------------------------------------------------------------------------
(* AuditChain: as long as no two calls of log() overlap, the log is a chain
   in order, so that a report verifies just if it is of one instant. *)

\* The checksum that the next entry must follow.
Newest == IF log = <<>> THEN NoChecksum ELSE log[Len(log)].id

\* Of calls that do not overlap one is under way at most, and it follows the log.
OneCallFollows ==
    ~overlapped =>
        /\ \A t, u \in Threads : entry[t] # NoEntry /\ entry[u] # NoEntry => t = u
        /\ (\A t \in Threads : entry[t] = NoEntry) => last = Newest
        /\ \A t \in Threads : entry[t] # NoEntry =>
               /\ entry[t].previous = Newest
               /\ last = IF entry[t].step = "linked" THEN entry[t].id ELSE Newest
               /\ entry[t].step # "new" => entry[t].signed = Newest

\* The first half of ReportsReadBackwards.
ChainUnlessOverlapped == ~overlapped => Verified(log)

AuditInv == /\ AuditTypeOK
            /\ OneCallFollows
            /\ ChainUnlessOverlapped

\* What threads log has a checksum; NoEntry has none.
LEMMA EntryTypes ==
    /\ \A e \in Entries : /\ e # NoEntry
                          /\ e.id \in 1..MaxEntries
                          /\ e.step \in {"new", "signed", "linked"}
    /\ AuditTypeOK => \A t \in Threads : entry[t] # NoEntry => entry[t] \in Entries
<1>1. \A e \in Entries : e.id \in 1..MaxEntries /\ e.step \in {"new", "signed", "linked"}
  BY DEF Entries
<1>2. NoEntry.id = 0
  BY DEF NoEntry
<1>3. \A e \in Entries : e # NoEntry
  BY <1>1, <1>2, AuditAssumption DEF AuditAssumption
<1>4. AuditTypeOK => \A t \in Threads : entry[t] # NoEntry => entry[t] \in Entries
  BY DEF AuditTypeOK
<1> QED BY <1>1, <1>3, <1>4

\* An empty log satisfies the invariant.
LEMMA EmptyLogInv ==
    ASSUME AuditAssumption, log = <<>>, last = NoChecksum,
           entry = [t \in Threads |-> NoEntry], overlapped = FALSE,
           now \in 0..LastTime, begun \in 0..MaxEntries
    PROVE  AuditInv
<1>1. AuditTypeOK
  <2>1. log \in Seq(Entries)
    OBVIOUS
  <2>2. last \in 0..MaxEntries
    BY DEF AuditAssumption, NoChecksum
  <2>3. entry \in [Threads -> Entries \cup {NoEntry}]
    OBVIOUS
  <2> QED BY <2>1, <2>2, <2>3 DEF AuditTypeOK
<1>2. \A t \in Threads : entry[t] = NoEntry
  OBVIOUS
<1>3. OneCallFollows
  BY <1>2 DEF OneCallFollows, Newest
<1>4. ChainUnlessOverlapped
  BY DEF ChainUnlessOverlapped, Verified
<1> QED BY <1>1, <1>3, <1>4 DEF AuditInv

\* A step of t that leaves log and clock: its entry becomes e.
LEMMA LogCallInv ==
    ASSUME AuditInv, NEW t \in Threads, NEW e \in Entries,
           entry' = [entry EXCEPT ![t] = e],
           last' \in 0..MaxEntries, begun' \in 0..MaxEntries, overlapped' \in BOOLEAN,
           UNCHANGED <<now, log>>,
           ~overlapped' => /\ ~overlapped
                           /\ \A u \in Threads \ {t} : entry[u] = NoEntry
                           /\ e.previous = Newest
                           /\ last' = IF e.step = "linked" THEN e.id ELSE Newest
                           /\ e.step # "new" => e.signed = Newest
    PROVE  AuditInv'
<1>1. AuditTypeOK'
  BY DEF AuditInv, AuditTypeOK
<1>2. entry'[t] = e /\ e # NoEntry /\ \A u \in Threads \ {t} : entry'[u] = entry[u]
  BY EntryTypes DEF AuditInv, AuditTypeOK
<1>3. Newest' = Newest
  BY DEF Newest
<1>4. OneCallFollows'
  BY <1>2, <1>3 DEF OneCallFollows
<1>5. ChainUnlessOverlapped'
  BY DEF AuditInv, ChainUnlessOverlapped, Verified, Intact
<1> QED BY <1>1, <1>4, <1>5 DEF AuditInv

\* Without an overlap, the thread that has an entry is the only one.
LEMMA OnlyCall ==
    ASSUME AuditInv, NEW t \in Threads, entry[t] # NoEntry
    PROVE  /\ entry[t] \in Entries
           /\ ~overlapped => \A u \in Threads \ {t} : entry[u] = NoEntry
  BY EntryTypes DEF AuditInv, OneCallFollows

\* A new entry is begun with the checksum of the newest.
LEMMA CreateInv ==
    ASSUME AuditInv, NEW t \in Threads, Create(t)
    PROVE  AuditInv'
<1> DEFINE e == [id |-> begun', time |-> now, previous |-> last,
                 signed |-> NoChecksum, step |-> "new"]
<1>1. begun' \in 1..MaxEntries
  BY AuditAssumption DEF Create, AuditInv, AuditTypeOK, AuditAssumption
<1>2. now \in 0..LastTime /\ last \in 0..MaxEntries /\ overlapped \in BOOLEAN
  BY DEF AuditInv, AuditTypeOK
<1>3. e \in Entries
  BY <1>1, <1>2, AuditAssumption DEF Entries, NoChecksum, AuditAssumption
<1>4. e.previous = last /\ e.step = "new"
  OBVIOUS
<1>5. entry' = [entry EXCEPT ![t] = e]
  BY DEF Create
<1> HIDE DEF e
<1>6. ~overlapped' => ~overlapped /\ \A u \in Threads : entry[u] = NoEntry
  BY DEF Create
<1>7. ~overlapped' => last = Newest
  BY <1>6 DEF AuditInv, OneCallFollows
<1>8. last' = last /\ overlapped' \in BOOLEAN /\ UNCHANGED <<now, log>>
  BY <1>2 DEF Create
<1>9. begun' \in 0..MaxEntries
  BY <1>1
<1> QED BY <1>2, <1>3, <1>4, <1>5, <1>6, <1>7, <1>8, <1>9, LogCallInv

\* Signing takes the newest checksum again.
LEMMA SignInv ==
    ASSUME AuditInv, NEW t \in Threads, Sign(t)
    PROVE  AuditInv'
<1> DEFINE e == [entry[t] EXCEPT !.signed = last, !.step = "signed"]
<1>1. entry[t] \in Entries /\ ~overlapped => \A u \in Threads \ {t} : entry[u] = NoEntry
  BY OnlyCall DEF Sign
<1>2. entry[t] \in Entries /\ last \in 0..MaxEntries
  BY OnlyCall DEF Sign, AuditInv, AuditTypeOK
<1>3. e \in Entries /\ e.previous = entry[t].previous /\ e.step = "signed" /\ e.signed = last
  BY <1>2 DEF Entries
<1>4. entry' = [entry EXCEPT ![t] = e]
  BY DEF Sign
<1> HIDE DEF e
<1>5. ~overlapped => entry[t].previous = Newest /\ last = Newest
  BY DEF Sign, AuditInv, OneCallFollows
<1>6. UNCHANGED <<now, last, log, begun, overlapped>>
  BY DEF Sign
<1> QED BY <1>1, <1>2, <1>3, <1>4, <1>5, <1>6, LogCallInv DEF AuditInv, AuditTypeOK

\* The checksum of the entry becomes the newest before it is in the log.
LEMMA LinkInv ==
    ASSUME AuditInv, NEW t \in Threads, Link(t)
    PROVE  AuditInv'
<1> DEFINE e == [entry[t] EXCEPT !.step = "linked"]
<1>1. entry[t] \in Entries /\ ~overlapped => \A u \in Threads \ {t} : entry[u] = NoEntry
  BY OnlyCall DEF Link
<1>2. entry[t] \in Entries /\ last' = entry[t].id
  BY OnlyCall DEF Link, NextLink
<1>3. /\ e \in Entries /\ e.previous = entry[t].previous /\ e.step = "linked"
      /\ e.signed = entry[t].signed /\ e.id = entry[t].id
  BY <1>2 DEF Entries
<1>4. entry' = [entry EXCEPT ![t] = e]
  BY DEF Link
<1> HIDE DEF e
<1>5. ~overlapped => entry[t].previous = Newest /\ entry[t].signed = Newest
  BY DEF Link, AuditInv, OneCallFollows
<1>6. UNCHANGED <<now, log, begun, overlapped>>
  BY DEF Link
<1>7. last' \in 0..MaxEntries
  BY <1>2, EntryTypes
<1> QED BY <1>1, <1>2, <1>3, <1>4, <1>5, <1>6, <1>7, LogCallInv DEF AuditInv, AuditTypeOK

\* The entry at the end of the log follows the one before it.
LEMMA StoreEntryInv ==
    ASSUME AuditInv, NEW t \in Threads, StoreEntry(t)
    PROVE  AuditInv'
<1> DEFINE e == entry[t]
<1>1. e \in Entries /\ log \in Seq(Entries) /\ log' = Append(log, e)
  BY OnlyCall DEF StoreEntry, AuditInv, AuditTypeOK
<1>2. /\ entry'[t] = NoEntry
      /\ \A u \in Threads \ {t} : entry'[u] = entry[u]
  BY DEF StoreEntry, AuditInv, AuditTypeOK
<1>3. AuditTypeOK'
  BY <1>1 DEF StoreEntry, AuditInv, AuditTypeOK
<1>4. ~overlapped => /\ \A u \in Threads : entry'[u] = NoEntry
                     /\ last = e.id /\ e.previous = Newest /\ e.signed = Newest
  BY <1>2, OnlyCall DEF StoreEntry, AuditInv, OneCallFollows
<1> HIDE DEF e
<1>5. /\ Len(log') = Len(log) + 1 /\ Len(log) \in Nat
      /\ log'[Len(log')] = e /\ \A i \in 1..Len(log) : log'[i] = log[i]
  BY <1>1
<1>6. Newest' = e.id
  BY <1>5 DEF Newest
<1>7. overlapped' = overlapped /\ last' = last
  BY DEF StoreEntry
<1>8. OneCallFollows'
  BY <1>4, <1>6, <1>7 DEF OneCallFollows
<1>9. ChainUnlessOverlapped'
  <2> SUFFICES ASSUME ~overlapped, NEW i \in 1..Len(log') PROVE Intact(log'[i], i, log')
    BY <1>7 DEF ChainUnlessOverlapped, Verified
  <2>1. CASE i \in 1..Len(log)
    <3>1. Intact(log[i], i, log)
      BY <2>1 DEF AuditInv, ChainUnlessOverlapped, Verified
    <3>2. i = 1 \/ i - 1 \in 1..Len(log)
      BY <1>5, <2>1
    <3> QED BY <1>5, <2>1, <3>1, <3>2 DEF Intact
  <2>2. CASE i = Len(log')
    <3>1. i = 1 \/ (log # <<>> /\ i - 1 = Len(log) /\ i - 1 \in 1..Len(log))
      BY <1>1, <1>5, <2>2
    <3> QED BY <1>4, <1>5, <2>2, <3>1 DEF Intact, Newest
  <2> QED BY <1>5, <2>1, <2>2
<1> QED BY <1>3, <1>8, <1>9 DEF AuditInv

\* The steps of the log keep the invariant.
LEMMA AuditNextInv == AuditInv /\ [AuditNext]_auditVars => AuditInv'
<1> SUFFICES ASSUME AuditInv, [AuditNext]_auditVars PROVE AuditInv'
  OBVIOUS
<1>1. CASE UNCHANGED auditVars
  BY <1>1 DEF auditVars, AuditInv, AuditTypeOK, OneCallFollows, ChainUnlessOverlapped, Newest,
              Verified, Intact
<1>2. CASE Tick
  <2>1. now' \in 0..LastTime
    BY <1>2, AuditAssumption DEF Tick, AuditInv, AuditTypeOK, AuditAssumption
  <2> QED BY <1>2, <2>1 DEF Tick, AuditInv, AuditTypeOK, OneCallFollows, ChainUnlessOverlapped,
                            Newest, Verified, Intact
<1>3. CASE Restart
  <2>1. AuditTypeOK'
    <3>1. log' \in Seq(Entries)
      BY <1>3 DEF Restart
    <3>2. last' \in 0..MaxEntries
      BY <1>3, AuditAssumption DEF Restart, AuditAssumption, NoChecksum
    <3>3. entry' \in [Threads -> Entries \cup {NoEntry}]
      BY <1>3 DEF Restart
    <3> QED BY <1>3, <3>1, <3>2, <3>3 DEF Restart, AuditInv, AuditTypeOK
  <2>2. \A t \in Threads : entry'[t] = NoEntry
    BY <1>3 DEF Restart
  <2>3. OneCallFollows' /\ ChainUnlessOverlapped'
    BY <1>3, <2>2 DEF Restart, OneCallFollows, ChainUnlessOverlapped, Newest, Verified
  <2> QED BY <2>1, <2>3 DEF AuditInv
<1>4. CASE \E t \in Threads : Create(t) \/ Sign(t) \/ Link(t) \/ StoreEntry(t)
  BY <1>4, CreateInv, SignInv, LinkInv, StoreEntryInv
<1> QED BY <1>1, <1>2, <1>3, <1>4 DEF AuditNext

\* The inductive invariant of the audit log.
THEOREM AuditInvariance == AuditSpec => []AuditInv
<1>1. AuditInit => AuditInv
  <2> SUFFICES ASSUME AuditInit PROVE AuditInv
    OBVIOUS
  <2>1. now \in 0..LastTime /\ begun \in 0..MaxEntries
    BY AuditAssumption DEF AuditInit, AuditAssumption
  <2> QED BY <2>1, EmptyLogInv, AuditAssumption DEF AuditInit
<1> QED BY <1>1, AuditNextInv, PTL DEF AuditSpec

\* The log, its chain and the entries under way keep their types.
THEOREM AuditTypes == AuditSpec => []AuditTypeOK
<1>1. AuditInv => AuditTypeOK
  BY DEF AuditInv
<1> QED BY <1>1, AuditInvariance, PTL

\* Without an overlap the log has its entries in the order in which they were begun,
\* and the entry under way comes after them.
BegunInOrder ==
    ~overlapped =>
        /\ \A i, j \in 1..Len(log) : i < j => log[i].id < log[j].id /\ log[i].time <= log[j].time
        /\ \A i \in 1..Len(log) : log[i].id <= begun /\ log[i].time <= now
        /\ \A t \in Threads : entry[t] # NoEntry =>
               /\ entry[t].id <= begun /\ entry[t].time <= now
               /\ \A i \in 1..Len(log) : /\ log[i].id < entry[t].id
                                         /\ log[i].time <= entry[t].time
        /\ log # <<>> => log[1].previous = NoChecksum

\* A step of t that leaves the log keeps the order if its new entry is a number above those logged.
LEMMA LogCallOrder ==
    ASSUME BegunInOrder, NEW t \in Threads, NEW e,
           \A u \in Threads \ {t} : entry'[u] = entry[u],
           entry'[t] = e, UNCHANGED <<now, log>>,
           ~overlapped' =>
               /\ ~overlapped
               /\ \A u \in Threads \ {t} : entry[u] = NoEntry
               /\ \A i \in 1..Len(log) : log[i].id <= begun'
               /\ e.id <= begun' /\ e.time <= now
               /\ \A i \in 1..Len(log) : log[i].id < e.id /\ log[i].time <= e.time
    PROVE  BegunInOrder'
  BY DEF BegunInOrder

\* A new entry has a number and a time that none before it exceeds.
LEMMA CreateOrder ==
    ASSUME AuditInv, BegunInOrder, NEW t \in Threads, Create(t)
    PROVE  BegunInOrder'
<1> DEFINE e == [id |-> begun', time |-> now, previous |-> last,
                 signed |-> NoChecksum, step |-> "new"]
<1>1. /\ begun \in Nat /\ begun' = begun + 1 /\ now \in Nat
      /\ log \in Seq(Entries) /\ entry \in [Threads -> Entries \cup {NoEntry}]
  BY AuditAssumption DEF Create, AuditInv, AuditTypeOK, AuditAssumption
<1>2. e.id = begun + 1 /\ e.time = now
  BY <1>1
<1>3. entry' = [entry EXCEPT ![t] = e]
  BY DEF Create
<1> HIDE DEF e
<1>4. entry'[t] = e /\ \A u \in Threads \ {t} : entry'[u] = entry[u]
  BY <1>1, <1>3
<1>5. ~overlapped' => ~overlapped /\ \A u \in Threads : entry[u] = NoEntry
  BY DEF Create
<1>6. \A i \in 1..Len(log) : log[i].id \in Nat
  BY <1>1, LogTimes, AuditAssumption DEF AuditAssumption
<1>7. ~overlapped' => \A i \in 1..Len(log) :
                          log[i].id <= begun' /\ log[i].id < e.id /\ log[i].time <= e.time
  BY <1>1, <1>2, <1>5, <1>6 DEF BegunInOrder
<1>8. UNCHANGED <<now, log>>
  BY DEF Create
<1> QED BY <1>1, <1>2, <1>4, <1>5, <1>7, <1>8, LogCallOrder

\* Signing and linking keep the number and the time.
LEMMA SignLinkOrder ==
    ASSUME AuditInv, BegunInOrder, NEW t \in Threads, Sign(t) \/ Link(t)
    PROVE  BegunInOrder'
<1>1. /\ entry[t] \in Entries /\ entry \in [Threads -> Entries \cup {NoEntry}]
      /\ entry[t] # NoEntry
      /\ ~overlapped => \A u \in Threads \ {t} : entry[u] = NoEntry
  BY OnlyCall DEF Sign, Link, AuditInv, AuditTypeOK
<1>2. /\ entry'[t].id = entry[t].id /\ entry'[t].time = entry[t].time
      /\ \A u \in Threads \ {t} : entry'[u] = entry[u]
  <2>1. CASE Sign(t)
    <3> DEFINE e == [entry[t] EXCEPT !.signed = last, !.step = "signed"]
    <3>1. entry' = [entry EXCEPT ![t] = e]
      BY <2>1 DEF Sign
    <3>2. e.id = entry[t].id /\ e.time = entry[t].time
      BY <1>1 DEF Entries
    <3> HIDE DEF e
    <3> QED BY <1>1, <3>1, <3>2
  <2>2. CASE Link(t)
    <3> DEFINE e == [entry[t] EXCEPT !.step = "linked"]
    <3>1. entry' = [entry EXCEPT ![t] = e]
      BY <2>2 DEF Link
    <3>2. e.id = entry[t].id /\ e.time = entry[t].time
      BY <1>1 DEF Entries
    <3> HIDE DEF e
    <3> QED BY <1>1, <3>1, <3>2
  <2> QED BY <2>1, <2>2
<1>3. UNCHANGED <<now, log, begun, overlapped>>
  BY DEF Sign, Link
<1>4. ~overlapped' =>
          /\ \A i \in 1..Len(log) : log[i].id <= begun'
          /\ entry'[t].id <= begun' /\ entry'[t].time <= now
          /\ \A i \in 1..Len(log) : log[i].id < entry'[t].id /\ log[i].time <= entry'[t].time
  BY <1>1, <1>2, <1>3 DEF BegunInOrder
<1> QED BY <1>1, <1>2, <1>3, <1>4, LogCallOrder

\* The entry of the only call comes after all of the log.
LEMMA StoreEntryOrder ==
    ASSUME AuditInv, BegunInOrder, NEW t \in Threads, StoreEntry(t)
    PROVE  BegunInOrder'
<1> DEFINE e == entry[t]
<1>1. e \in Entries /\ e # NoEntry /\ log \in Seq(Entries) /\ log' = Append(log, e)
  BY OnlyCall DEF StoreEntry, AuditInv, AuditTypeOK
<1>2. /\ entry'[t] = NoEntry
      /\ \A u \in Threads \ {t} : entry'[u] = entry[u]
  BY DEF StoreEntry, AuditInv, AuditTypeOK
<1>3. ~overlapped => /\ \A u \in Threads : entry'[u] = NoEntry
                     /\ e.previous = Newest
  BY <1>2, OnlyCall DEF StoreEntry, AuditInv, OneCallFollows
<1>4. UNCHANGED <<now, begun, overlapped>>
  BY DEF StoreEntry
<1>5. ~overlapped => /\ e.id <= begun /\ e.time <= now
                     /\ \A i \in 1..Len(log) : log[i].id < e.id /\ log[i].time <= e.time
  BY <1>1 DEF BegunInOrder
<1> HIDE DEF e
<1>6. /\ Len(log') = Len(log) + 1 /\ Len(log) \in Nat
      /\ log'[Len(log')] = e /\ \A i \in 1..Len(log) : log'[i] = log[i]
  BY <1>1
<1>7. \A i \in 1..Len(log') : i \in 1..Len(log) \/ i = Len(log')
  BY <1>6
<1>8. ~overlapped' => \A i, j \in 1..Len(log') :
          i < j => log'[i].id < log'[j].id /\ log'[i].time <= log'[j].time
  <2> SUFFICES ASSUME ~overlapped, NEW i \in 1..Len(log'), NEW j \in 1..Len(log'), i < j
               PROVE  log'[i].id < log'[j].id /\ log'[i].time <= log'[j].time
    BY <1>4
  <2>1. i \in 1..Len(log)
    BY <1>6
  <2>2. CASE j \in 1..Len(log)
    BY <1>6, <2>1, <2>2 DEF BegunInOrder
  <2>3. CASE j = Len(log')
    BY <1>5, <1>6, <2>1, <2>3
  <2> QED BY <1>7, <2>2, <2>3
<1>9. ~overlapped' => \A i \in 1..Len(log') : log'[i].id <= begun' /\ log'[i].time <= now'
  BY <1>4, <1>5, <1>6, <1>7 DEF BegunInOrder
<1>10. ~overlapped' => (log' # <<>> => log'[1].previous = NoChecksum)
  <2>1. CASE log = <<>>
    <3>1. Len(log') = 1
      BY <1>1, <2>1
    <3> QED BY <1>3, <1>4, <1>6, <2>1, <3>1 DEF Newest
  <2>2. CASE log # <<>>
    <3>1. 1 \in 1..Len(log)
      BY <1>1, <2>2
    <3> QED BY <1>4, <1>6, <2>2, <3>1 DEF BegunInOrder
  <2> QED BY <2>1, <2>2
<1> QED BY <1>3, <1>4, <1>8, <1>9, <1>10 DEF BegunInOrder

\* The steps of the log keep its order.
LEMMA AuditNextOrder == AuditInv /\ BegunInOrder /\ [AuditNext]_auditVars => BegunInOrder'
<1> SUFFICES ASSUME AuditInv, BegunInOrder, [AuditNext]_auditVars PROVE BegunInOrder'
  OBVIOUS
<1>1. CASE UNCHANGED auditVars
  BY <1>1 DEF auditVars, BegunInOrder
<1>2. CASE Tick
  <2>1. /\ now \in Nat /\ now' = now + 1 /\ log \in Seq(Entries)
        /\ entry \in [Threads -> Entries \cup {NoEntry}]
        /\ UNCHANGED <<log, entry, begun, overlapped>>
    BY <1>2, AuditAssumption DEF Tick, AuditInv, AuditTypeOK, AuditAssumption
  <2>2. \A i \in 1..Len(log) : log[i].time \in Nat
    BY <2>1, LogTimes, AuditAssumption
  <2>3. \A t \in Threads : entry[t] # NoEntry => entry[t].time \in Nat
    BY <2>1, AuditAssumption DEF Entries, AuditAssumption
  <2>4. \A i \in 1..Len(log) : log[i].time <= now => log[i].time <= now'
    BY <2>1, <2>2
  <2>5. \A t \in Threads : entry[t] # NoEntry /\ entry[t].time <= now => entry[t].time <= now'
    BY <2>1, <2>3
  <2>6. UNCHANGED <<log, entry, begun, overlapped>>
    BY <2>1
  <2> QED BY <2>4, <2>5, <2>6 DEF BegunInOrder
<1>3. CASE Restart
  <2>1. log' = <<>> /\ \A t \in Threads : entry'[t] = NoEntry
    BY <1>3 DEF Restart
  <2>2. Len(log') = 0
    BY <2>1
  <2> QED BY <2>1, <2>2 DEF BegunInOrder
<1>4. CASE \E t \in Threads : Create(t) \/ Sign(t) \/ Link(t) \/ StoreEntry(t)
  BY <1>4, CreateOrder, SignLinkOrder, StoreEntryOrder
<1> QED BY <1>1, <1>2, <1>3, <1>4 DEF AuditNext

\* Without an overlap a log of any length keeps the order in which its entries were begun.
THEOREM LogKeepsItsOrder == AuditSpec => []BegunInOrder
<1>1. AuditInit => BegunInOrder
  <2> SUFFICES ASSUME AuditInit PROVE BegunInOrder
    OBVIOUS
  <2>1. log = <<>> /\ \A t \in Threads : entry[t] = NoEntry
    BY DEF AuditInit
  <2>2. Len(log) = 0
    BY <2>1
  <2> QED BY <2>1, <2>2 DEF BegunInOrder
<1> QED BY <1>1, AuditInvariance, AuditNextOrder, PTL DEF AuditSpec

\* The chain as generate_compliance_report() gives it to verify_chain(): as long as no two
\* calls of log() overlapped the log itself verifies, and a report of any period verifies
\* just if all its entries are of one instant.
THEOREM ReportsOfAChain == AuditSpec => []ReportsReadBackwards
<1>1. AuditInv /\ BegunInOrder => ReportsReadBackwards
  <2> SUFFICES ASSUME AuditInv, BegunInOrder, ~overlapped,
                      NEW from \in 0..LastTime, NEW to \in from..LastTime
               PROVE  /\ Verified(log)
                      /\ LET report == Reported(from, to)
                         IN  Verified(report) <=>
                             \A i, j \in 1..Len(report) : report[i].time = report[j].time
    <3>1. 0 \in 0..LastTime /\ 0 \in 0..LastTime
      BY AuditAssumption DEF AuditAssumption
    <3> QED BY <3>1 DEF ReportsReadBackwards
  <2>1. log \in Seq(Entries) /\ from \in Nat /\ to \in Nat
    BY AuditAssumption DEF AuditInv, AuditTypeOK, AuditAssumption
  <2>2. Verified(log)
    BY DEF AuditInv, ChainUnlessOverlapped
  <2>3. InOrder
    BY <2>2 DEF InOrder, BegunInOrder
  <2> QED BY <2>1, <2>2, <2>3, AuditAssumption, ReportIsOfOneInstant
<1> QED BY <1>1, AuditInvariance, LogKeepsItsOrder, PTL

-----------------------------------------------------------------------------
(* ProfileEditor: a version of the profile has one content, so that a check
   that finds the version a save is based on finds what the save is based on. *)

\* The profiles of the server that somebody still holds.
Held == {server, original} \cup loads \cup ({cache, conflict} \ {NoProfile})
        \cup {s.base : s \in saves}
        \cup {s.found : s \in {r \in saves : r.step \in {"answered", "applied"}}}

OneProfilePerVersion ==
    /\ Held \subseteq Profiles
    /\ \A p, q \in Held : p.version = q.version => p = q
    /\ \A p \in Held : p.version <= server.version

\* The ref holds what the profile shows of its version; if that is the version,
\* a check found the one the save is based on unless the profile was loaded anew
\* meanwhile.
BasesAreSeen ==
    /\ versionRef = Visible(original)
    /\ versioned => \A s \in saves : s.checked # NoVersion /\ ~s.reloaded =>
                                        s.checked = s.base.version

EditorInv == /\ EditorTypeOK
             /\ OneProfilePerVersion
             /\ BasesAreSeen

\* Pending changes stay changes, and applied to a profile give a profile.
LEMMA ChangesTypes ==
    ASSUME NEW changes \in Changes, NEW f \in ProfileFields
    PROVE  /\ NoChanges \in Changes
           /\ Without(changes, f) \in Changes
           /\ \A v \in Values : With(changes, [g \in {f} |-> v]) \in Changes
           /\ \A value \in [ProfileFields -> Values] :
                  With(value, changes) \in [ProfileFields -> Values]
<1>1. PICK fs \in SUBSET ProfileFields : changes \in [fs -> Values]
  BY DEF Changes
<1>2. NoChanges \in Changes
  <2>1. NoChanges \in [{} -> Values]
    BY DEF NoChanges
  <2> QED BY <2>1 DEF Changes
<1>3. Without(changes, f) \in Changes
  <2>1. Without(changes, f) \in [fs \ {f} -> Values]
    BY <1>1 DEF Without
  <2> QED BY <2>1 DEF Changes
<1>4. ASSUME NEW v \in Values PROVE With(changes, [g \in {f} |-> v]) \in Changes
  <2>1. With(changes, [g \in {f} |-> v]) \in [fs \cup {f} -> Values]
    BY <1>1 DEF With
  <2> QED BY <2>1 DEF Changes
<1>5. ASSUME NEW value \in [ProfileFields -> Values]
      PROVE  With(value, changes) \in [ProfileFields -> Values]
  <2>1. DOMAIN value \cup DOMAIN changes = ProfileFields /\ DOMAIN changes = fs
    BY <1>1
  <2> QED BY <1>1, <2>1 DEF With
<1> QED BY <1>2, <1>3, <1>4, <1>5

\* The fields of a profile and of a save.
LEMMA ProfileFieldTypes ==
    /\ \A p \in Profiles : p.value \in [ProfileFields -> Values] /\ p.version \in 0..MaxVersion
    /\ \A s \in Saves : /\ s.body \in Changes /\ s.base \in Profiles
                        /\ s.found \in Profiles \cup {NoProfile}
                        /\ s.reloaded \in BOOLEAN
                        /\ s.checked \in 0..NoVersion
    /\ MaxVersion \in Nat
<1>1. \A p \in Profiles : p.value \in [ProfileFields -> Values] /\ p.version \in 0..MaxVersion
  BY DEF Profiles
<1>2. \A s \in Saves : /\ s.body \in Changes /\ s.base \in Profiles
                       /\ s.found \in Profiles \cup {NoProfile}
                       /\ s.reloaded \in BOOLEAN
                       /\ s.checked \in 0..NoVersion
  BY DEF Saves
<1> QED BY <1>1, <1>2, EditorAssumption DEF EditorAssumption

\* What is shown of a profile is a version or none.
LEMMA VisibleType == ASSUME NEW p \in Profiles PROVE Visible(p) \in 0..NoVersion
  BY ProfileFieldTypes DEF Visible, NoVersion

\* The editor of a profile that was just loaded satisfies the invariant.
LEMMA EditorInitInv == EditorInit => EditorInv
<1> SUFFICES ASSUME EditorInit PROVE EditorInv
  OBVIOUS
<1> DEFINE first == [value   |-> [f \in ProfileFields |-> CHOOSE v \in Values : TRUE],
                     version |-> 0]
<1>1. (CHOOSE v \in Values : TRUE) \in Values
  BY EditorAssumption DEF EditorAssumption
<1>2. [f \in ProfileFields |-> CHOOSE v \in Values : TRUE] \in [ProfileFields -> Values]
  BY <1>1
<1>3. first \in Profiles /\ first.version = 0
  BY <1>2, ProfileFieldTypes DEF Profiles
<1>4. /\ server = first /\ cache = first /\ original = first
      /\ versionRef = Visible(first) /\ versioned \in BOOLEAN
      /\ pendingChanges = [f \in {} |-> 0] /\ conflict = NoProfile
      /\ loads = {} /\ saves = {}
  BY DEF EditorInit
<1> HIDE DEF first
<1>5. pendingChanges \in Changes
  <2>1. pendingChanges \in [{} -> Values]
    BY <1>4
  <2> QED BY <2>1 DEF Changes
<1>6. EditorTypeOK
  BY <1>3, <1>4, <1>5, VisibleType DEF EditorTypeOK
<1>7. Held \subseteq {first}
  BY <1>4 DEF Held
<1>8. OneProfilePerVersion
  BY <1>3, <1>4, <1>7 DEF OneProfilePerVersion
<1>9. BasesAreSeen
  BY <1>3, <1>4 DEF BasesAreSeen
<1> QED BY <1>6, <1>8, <1>9 DEF EditorInv

\* Who takes a profile takes one that is held; a new one has a version of its own.
LEMMA HeldInv ==
    ASSUME EditorInv, EditorTypeOK', BasesAreSeen',
           Held' \subseteq Held \cup {server'},
           server' = server \/ server'.version = server.version + 1
    PROVE  EditorInv'
<1>1. server \in Held /\ server' \in Profiles
  BY DEF Held, EditorTypeOK
<1>2. CASE server' = server
  BY <1>1, <1>2 DEF EditorInv, OneProfilePerVersion
<1>3. CASE server'.version = server.version + 1
  <2>1. Held' \subseteq Profiles
    BY <1>1 DEF EditorInv, OneProfilePerVersion
  <2>2. \A p \in Held : p.version \in Nat /\ p.version < server'.version
    BY <1>1, <1>3, ProfileFieldTypes DEF EditorInv, OneProfilePerVersion
  <2>3. server'.version \in Nat
    BY <1>1, ProfileFieldTypes
  <2> QED BY <2>1, <2>2, <2>3 DEF EditorInv, OneProfilePerVersion
<1> QED BY <1>2, <1>3

\* Steps that do not touch the saves.
LEMMA EditInv ==
    ASSUME EditorInv, UNCHANGED versioned,
           \/ \E f \in ProfileFields, v \in Values : OtherSaves(f, v) \/ UpdateField(f, v)
           \/ \E f \in ProfileFields : RevertField(f)
           \/ \E p \in loads : Loaded(p) \/ LoadFails(p)
           \/ CacheExpires \/ LoadCached \/ Fetch \/ KeepServer \/ Merge
    PROVE  EditorInv'
<1>0. EditorTypeOK /\ BasesAreSeen /\ UNCHANGED <<saves, versioned>>
  BY DEF EditorInv, OtherSaves, UpdateField, RevertField, Loaded, LoadFails, CacheExpires,
         LoadCached, Fetch, KeepServer, Merge
<1>1. /\ server \in Profiles /\ original \in Profiles /\ loads \subseteq Profiles
      /\ cache # NoProfile => cache \in Profiles
      /\ conflict # NoProfile => conflict \in Profiles
      /\ pendingChanges \in Changes
  BY <1>0 DEF EditorTypeOK
<1>2. ASSUME NEW f \in ProfileFields, NEW v \in Values, OtherSaves(f, v)
      PROVE  EditorInv'
  <2> DEFINE new == [server.value EXCEPT ![f] = v]
  <2>1. new \in [ProfileFields -> Values] /\ server.version + 1 \in 0..MaxVersion
    BY <1>1, <1>2, ProfileFieldTypes DEF OtherSaves
  <2>2. server' = [value |-> new, version |-> server.version + 1]
    BY <1>2 DEF OtherSaves
  <2> HIDE DEF new
  <2>3. server' \in Profiles /\ server'.version = server.version + 1
    BY <2>1, <2>2 DEF Profiles
  <2>4. EditorTypeOK'
    BY <1>0, <1>2, <2>3 DEF OtherSaves, EditorTypeOK
  <2>5. BasesAreSeen'
    BY <1>0, <1>2 DEF OtherSaves, BasesAreSeen, Visible
  <2>6. Held' \subseteq Held \cup {server'}
    BY <1>2 DEF OtherSaves, Held
  <2> QED BY <2>3, <2>4, <2>5, <2>6, HeldInv
<1>3. ASSUME pendingChanges' \in Changes,
             UNCHANGED <<server, cache, original, versionRef, conflict, loads, saves>>
      PROVE  EditorInv'
  <2>1. EditorTypeOK' /\ BasesAreSeen' /\ Held' = Held
    BY <1>0, <1>3 DEF EditorTypeOK, BasesAreSeen, Visible, Held
  <2> QED BY <1>3, <2>1, HeldInv
<1>4. ASSUME NEW f \in ProfileFields, NEW v \in Values, UpdateField(f, v)
      PROVE  EditorInv'
  <2>1. pendingChanges' \in Changes
    BY <1>1, <1>4, ChangesTypes DEF UpdateField
  <2> QED BY <1>3, <1>4, <2>1 DEF UpdateField
<1>5. ASSUME NEW f \in ProfileFields, RevertField(f)
      PROVE  EditorInv'
  <2>1. pendingChanges' \in Changes
    BY <1>1, <1>5, ChangesTypes DEF RevertField
  <2> QED BY <1>3, <1>5, <2>1 DEF RevertField
<1>6. ASSUME NEW p \in Held, Adopted(p), UNCHANGED <<server, saves>>,
             cache' \in {cache, p, NoProfile}, conflict' \in {conflict, NoProfile},
             pendingChanges' \in Changes, loads' \subseteq loads
      PROVE  EditorInv'
  <2>1. p \in Profiles /\ Visible(p) \in 0..NoVersion
    BY VisibleType DEF EditorInv, OneProfilePerVersion
  <2>2. EditorTypeOK'
    BY <1>0, <1>6, <2>1 DEF Adopted, EditorTypeOK
  <2>3. BasesAreSeen'
    BY <1>0, <1>6 DEF Adopted, BasesAreSeen, Visible
  <2>4. Held' \subseteq Held
    BY <1>6 DEF Adopted, Held
  <2> QED BY <1>6, <2>2, <2>3, <2>4, HeldInv
<1>7. ASSUME NEW p \in loads, Loaded(p) PROVE EditorInv'
  <2>1. p \in Held
    BY DEF Held
  <2> QED BY <1>0, <1>1, <1>6, <1>7, <2>1 DEF Loaded
<1>8. ASSUME LoadCached PROVE EditorInv'
  <2>1. cache \in Held
    BY <1>8 DEF LoadCached, Held
  <2> QED BY <1>0, <1>1, <1>6, <1>8, <2>1 DEF LoadCached
<1>9. ASSUME KeepServer \/ Merge PROVE EditorInv'
  <2>1. conflict \in Held
    BY <1>9 DEF KeepServer, Merge, Held
  <2>2. NoChanges \in Changes
    BY DEF NoChanges, Changes
  <2> QED BY <1>0, <1>1, <1>6, <1>9, <2>1, <2>2 DEF KeepServer, Merge
<1>10. ASSUME CacheExpires \/ Fetch \/ \E p \in loads : LoadFails(p) PROVE EditorInv'
  <2>1. /\ UNCHANGED <<server, original, versionRef, pendingChanges, conflict, saves>>
        /\ cache' \in {cache, NoProfile} /\ loads' \subseteq loads \cup {server}
    BY <1>10 DEF CacheExpires, Fetch, LoadFails
  <2>2. EditorTypeOK'
    BY <1>0, <1>1, <2>1 DEF EditorTypeOK
  <2>3. BasesAreSeen'
    BY <1>0, <2>1 DEF BasesAreSeen, Visible
  <2>4. Held' \subseteq Held
    BY <2>1 DEF Held
  <2> QED BY <2>1, <2>2, <2>3, <2>4, HeldInv
<1> QED BY <1>2, <1>4, <1>5, <1>7, <1>8, <1>9, <1>10

\* A save begins with what is pending, on what is there.
LEMMA NewSaveTypes ==
    ASSUME EditorInv, NEW step \in {"asking", "sent"}
    PROVE  /\ NewSave(step) \in Saves
           /\ NewSave(step).step = step /\ NewSave(step).base = original
           /\ NewSave(step).checked = NoVersion
<1>1. /\ original \in Profiles /\ pendingChanges \in Changes
      /\ NoVersion \in 0..NoVersion
  BY ProfileFieldTypes DEF EditorInv, EditorTypeOK, NoVersion
<1> QED BY <1>1 DEF NewSave, Saves

\* A save begins with the changes and the version of the editor.
LEMMA BeginSaveInv ==
    ASSUME EditorInv, UNCHANGED versioned, (\E force \in BOOLEAN : Save(force)) \/ KeepLocal
    PROVE  EditorInv'
<1>1. PICK step \in {"asking", "sent"} : saves' \subseteq saves \cup {NewSave(step)}
  BY DEF Save, KeepLocal
<1>2. /\ UNCHANGED <<server, cache, original, versionRef, pendingChanges, loads>>
      /\ conflict' \in {conflict, NoProfile}
  BY DEF Save, KeepLocal
<1>3. EditorTypeOK'
  BY <1>1, <1>2, NewSaveTypes DEF EditorInv, EditorTypeOK
<1>4. BasesAreSeen'
  BY <1>1, <1>2, NewSaveTypes DEF EditorInv, BasesAreSeen, Visible
<1>5. Held' \subseteq Held
  BY <1>1, <1>2, NewSaveTypes DEF Held
<1> QED BY <1>2, <1>3, <1>4, <1>5, HeldInv

\* A save s goes on as t, or is over when t is s.
LEMMA GoOnInv ==
    ASSUME EditorInv, NEW s \in saves, NEW t \in Saves,
           saves' \subseteq (saves \ {s}) \cup {t},
           t.base = s.base,
           versioned /\ t.checked # NoVersion /\ ~t.reloaded => t.checked = s.base.version,
           t.step \in {"answered", "applied"} => t.found \in Held \cup {server'},
           server' = server \/ (server' \in Profiles /\ server'.version = server.version + 1),
           conflict' \in Held \cup {NoProfile, conflict},
           UNCHANGED <<versioned, cache, original, versionRef, pendingChanges, loads>>
    PROVE  EditorInv'
<1>1. /\ server' \in Profiles
      /\ conflict' \in Profiles \cup {NoProfile}
  BY DEF EditorInv, EditorTypeOK, OneProfilePerVersion
<1>2. EditorTypeOK'
  BY <1>1 DEF EditorInv, EditorTypeOK
<1>3. BasesAreSeen'
  BY DEF EditorInv, BasesAreSeen, Visible
<1>4. Held' \subseteq Held \cup {server'}
  <2>1. s.base \in Held
    BY DEF Held
  <2>2. \A r \in saves' : /\ r.base \in Held
                          /\ r.step \in {"answered", "applied"} => r.found \in Held \cup {server'}
    BY <2>1 DEF Held
  <2> QED BY <2>2 DEF Held
<1> QED BY <1>2, <1>3, <1>4, HeldInv

\* A save is checked, answered, and sends what it had.
LEMMA SaveStepInv ==
    ASSUME EditorInv, UNCHANGED versioned, NEW s \in saves,
           AnswerCheck(s) \/ CheckFails(s) \/ Checked(s) \/ Apply(s) \/ SaveFails(s)
    PROVE  EditorInv'
<1>1. /\ s \in Saves /\ server \in Profiles /\ server \in Held
      /\ versioned /\ s.checked # NoVersion /\ ~s.reloaded => s.checked = s.base.version
  BY DEF EditorInv, EditorTypeOK, BasesAreSeen, Held
<1>2. CASE AnswerCheck(s)
  <2> DEFINE t == [s EXCEPT !.step = "answered", !.found = server]
  <2>1. /\ t \in Saves /\ t.base = s.base /\ t.checked = s.checked
        /\ t.reloaded = s.reloaded /\ t.found = server
    BY <1>1 DEF Saves
  <2>2. saves' = (saves \ {s}) \cup {t}
    BY <1>2 DEF AnswerCheck, Moved
  <2> HIDE DEF t
  <2> QED BY <1>1, <1>2, <2>1, <2>2, GoOnInv DEF AnswerCheck
<1>3. CASE CheckFails(s)
  <2> DEFINE t == [s EXCEPT !.step = "sent"]
  <2>1. /\ t \in Saves /\ t.base = s.base /\ t.checked = s.checked
        /\ t.reloaded = s.reloaded /\ t.step = "sent"
    BY <1>1 DEF Saves
  <2>2. saves' = (saves \ {s}) \cup {t}
    BY <1>3 DEF CheckFails, Moved
  <2> HIDE DEF t
  <2> QED BY <1>1, <1>3, <2>1, <2>2, GoOnInv DEF CheckFails
<1>4. CASE Checked(s)
  <2>1. s.found \in Held /\ s.found \in Profiles /\ s.found.version \in 0..MaxVersion
    <3>1. s.found \in Held
      BY <1>4 DEF Checked, Held
    <3> QED BY <3>1, ProfileFieldTypes DEF EditorInv, OneProfilePerVersion
  <2>2. CASE Conflicts(s)
    <3>1. saves' \subseteq (saves \ {s}) \cup {s} /\ conflict' \in Held
      BY <1>4, <2>1, <2>2 DEF Checked
    <3>2. s.step \in {"answered", "applied"} => s.found \in Held
      BY <2>1
    <3> QED BY <1>1, <1>4, <3>1, <3>2, GoOnInv DEF Checked
  <2>3. CASE ~Conflicts(s)
    <3> DEFINE t == [s EXCEPT !.step = "sent", !.checked = s.found.version,
                              !.reloaded = original.version # s.base.version]
    <3>1. s.found.version \in 0..NoVersion /\ (original.version # s.base.version) \in BOOLEAN
      BY <2>1, ProfileFieldTypes DEF NoVersion
    <3>2. /\ t \in Saves /\ t.base = s.base /\ t.checked = s.found.version
          /\ t.reloaded = (original.version # s.base.version) /\ t.step = "sent"
      BY <1>1, <3>1 DEF Saves
    <3>3. saves' = (saves \ {s}) \cup {t}
      BY <1>4, <2>3 DEF Checked, Moved
    <3>4. versioned => s.found.version = original.version
      BY <2>3 DEF Conflicts, EditorInv, BasesAreSeen, Visible
    <3>5. conflict' = conflict
      BY <1>4, <2>3 DEF Checked
    <3> HIDE DEF t
    <3>6. versioned /\ t.checked # NoVersion /\ ~t.reloaded => t.checked = s.base.version
      BY <1>1, <3>2, <3>4
    <3> QED BY <1>1, <1>4, <3>2, <3>3, <3>5, <3>6, GoOnInv DEF Checked
  <2> QED BY <2>2, <2>3
<1>5. CASE Apply(s)
  <2> DEFINE t == [s EXCEPT !.step = "applied", !.found = server']
             new == With(server.value, s.body)
  <2>1. new \in [ProfileFields -> Values] /\ server.version + 1 \in 0..MaxVersion
    <3>1. s.body \in Changes /\ server.value \in [ProfileFields -> Values]
      BY <1>1, ProfileFieldTypes
    <3>2. new \in [ProfileFields -> Values]
      <4>1. CASE ProfileFields = {}
        <5>1. DOMAIN server.value \cup DOMAIN s.body = {}
          BY <3>1, <4>1 DEF Changes
        <5> QED BY <4>1, <5>1 DEF With
      <4>2. CASE ProfileFields # {}
        BY <3>1, <4>2, ChangesTypes
      <4> QED BY <4>1, <4>2
    <3>3. server.version + 1 \in 0..MaxVersion
      BY <1>1, <1>5, ProfileFieldTypes DEF Apply
    <3> QED BY <3>2, <3>3
  <2>2. server' = [value |-> new, version |-> server.version + 1]
    BY <1>5 DEF Apply
  <2> HIDE DEF new
  <2>3. server' \in Profiles /\ server'.version = server.version + 1
    BY <2>1, <2>2 DEF Profiles
  <2>4. /\ t \in Saves /\ t.base = s.base /\ t.checked = s.checked
        /\ t.reloaded = s.reloaded /\ t.found = server'
    BY <1>1, <2>3 DEF Saves
  <2>5. saves' = (saves \ {s}) \cup {t}
    BY <1>5 DEF Apply, Moved
  <2> HIDE DEF t
  <2> QED BY <1>1, <1>5, <2>3, <2>4, <2>5, GoOnInv DEF Apply
<1>6. CASE SaveFails(s)
  <2>1. s.step \in {"answered", "applied"} => s.found \in Held
    BY DEF Held
  <2>2. saves' \subseteq (saves \ {s}) \cup {s}
    BY <1>6 DEF SaveFails
  <2> QED BY <1>1, <1>6, <2>1, <2>2, GoOnInv DEF SaveFails
<1> QED BY <1>2, <1>3, <1>4, <1>5, <1>6

\* The answer to a save brings the profile that the save wrote.
LEMMA SavedInv ==
    ASSUME EditorInv, UNCHANGED versioned, NEW s \in saves, Saved(s)
    PROVE  EditorInv'
<1>1. s.found \in Held
  BY DEF Saved, Held
<1>2. s.found \in Profiles /\ Visible(s.found) \in 0..NoVersion
  BY <1>1, VisibleType DEF EditorInv, OneProfilePerVersion
<1>3. NoChanges \in Changes
  <2>1. NoChanges \in [{} -> Values]
    BY DEF NoChanges
  <2> QED BY <2>1 DEF Changes
<1>4. EditorTypeOK'
  BY <1>2, <1>3 DEF Saved, Adopted, EditorInv, EditorTypeOK
<1>5. BasesAreSeen'
  BY DEF Saved, Adopted, EditorInv, BasesAreSeen, Visible
<1>6. Held' \subseteq Held
  BY <1>1 DEF Saved, Adopted, Held
<1> QED BY <1>4, <1>5, <1>6, HeldInv DEF Saved

\* The steps of the editor keep the invariant.
LEMMA EditorNextInv == EditorInv /\ [EditorNext]_editorVars => EditorInv'
<1> SUFFICES ASSUME EditorInv, [EditorNext]_editorVars PROVE EditorInv'
  OBVIOUS
<1>1. CASE UNCHANGED editorVars
  BY <1>1 DEF editorVars, EditorInv, EditorTypeOK, OneProfilePerVersion, BasesAreSeen, Visible, Held
<1>2. CASE EditorNext
  BY <1>2, EditInv, BeginSaveInv, SaveStepInv, SavedInv DEF EditorNext
<1> QED BY <1>1, <1>2

\* The inductive invariant of the profile editor.
THEOREM EditorInvariance == EditorSpec => []EditorInv
<1> QED BY EditorInitInv, EditorNextInv, PTL DEF EditorSpec

\* Profile, pending changes, loads and saves keep their types, for any fields,
\* values and number of saves.
THEOREM EditorTypes == EditorSpec => []EditorTypeOK
<1>1. EditorInv => EditorTypeOK
  BY DEF EditorInv
<1> QED BY <1>1, EditorInvariance, PTL

\* For a user who is sent updated_at, a save that was checked overwrites unseen
\* changes only if a write came after the check, or the profile was loaded anew
\* before its answer.
THEOREM EditorChecksAreSound == EditorSpec => []ChecksAreSound
<1>1. EditorInv => ChecksAreSound
  <2> SUFFICES ASSUME EditorInv, versioned, NEW s \in saves, s.step = "sent",
                      server.version = s.checked, ~s.reloaded
               PROVE  s.base = server
    BY DEF ChecksAreSound, FindsConflicts
  <2>1. server \in Held /\ s.base \in Held /\ server \in Profiles
    BY DEF Held, EditorInv, EditorTypeOK
  <2>2. s.checked # NoVersion
    BY <2>1, ProfileFieldTypes DEF NoVersion
  <2>3. s.base.version = server.version
    BY <2>2 DEF EditorInv, BasesAreSeen
  <2> QED BY <2>1, <2>3 DEF EditorInv, OneProfilePerVersion
<1> QED BY <1>1, EditorInvariance, PTL

-----------------------------------------------------------------------------
(* The front end asks again whenever what is asked for changes, and takes the
   answers in any order: Directory, SearchBox and DirectoryCache. *)

\* Max of two numbers.
LEMMA MaxOfTwo ==
    ASSUME NEW i \in Nat, NEW j \in Nat
    PROVE  Max({i, j}) = IF i > j THEN i ELSE j
<1> DEFINE m == IF i > j THEN i ELSE j
<1>1. m \in {i, j} /\ \A y \in {i, j} : m >= y
  OBVIOUS
<1>2. \A n \in {i, j} : (\A y \in {i, j} : n >= y) => n = m
  OBVIOUS
<1>3. Max({i, j}) = CHOOSE x \in {i, j} : \A y \in {i, j} : x >= y
  BY DEF Max
<1> HIDE DEF m
<1>4. (CHOOSE x \in {i, j} : \A y \in {i, j} : x >= y) = m
  BY <1>1, <1>2
<1> QED BY <1>3, <1>4 DEF m

\* No two requests under way have one number, and none that of the newest answer
\* or of a request still to come.
Numbering(unanswered, top, answer) ==
    /\ \A r \in unanswered : r.id \in 1..top /\ r.id # answer
    /\ \A r, q \in unanswered : r.id = q.id => r = q
    /\ answer <= top

\* A request that gets the next number.
LEMMA NumberingGoesOn ==
    ASSUME NEW unanswered, NEW top \in Nat, NEW answer \in Nat,
           Numbering(unanswered, top, answer), NEW r, r.id = top + 1
    PROVE  Numbering(unanswered \cup {r}, top + 1, answer)
<1>1. \A q \in unanswered : q.id \in 1..(top + 1) /\ q.id # answer /\ q.id # r.id
  BY DEF Numbering
<1>2. r.id \in 1..(top + 1) /\ r.id # answer /\ answer <= top + 1
  BY DEF Numbering
<1> QED BY <1>1, <1>2 DEF Numbering

\* The answer to a request: the last one, or one older than it.
LEMMA NumberingAnswered ==
    ASSUME NEW unanswered, NEW top \in Nat, NEW answer \in Nat,
           Numbering(unanswered, top, answer), NEW r \in unanswered
    PROVE  /\ Numbering(unanswered \ {r}, top, Max({r.id, answer}))
           /\ Max({r.id, answer}) \in {r.id, answer}
           /\ r.id = top => Max({r.id, answer}) = top /\ ~(r.id < answer)
           /\ answer = top => r.id < answer /\ Max({r.id, answer}) = top
<1>1. r.id \in 1..top /\ answer <= top /\ r.id # answer
  BY DEF Numbering
<1>2. Max({r.id, answer}) = IF r.id > answer THEN r.id ELSE answer
  BY <1>1, MaxOfTwo
<1>3. \A q \in unanswered \ {r} : q.id \in 1..top /\ q.id # r.id /\ q.id # answer
  BY DEF Numbering
<1>4. Numbering(unanswered \ {r}, top, Max({r.id, answer}))
  BY <1>1, <1>2, <1>3 DEF Numbering
<1> QED BY <1>1, <1>2, <1>4

-----------------------------------------------------------------------------
(* Directory *)

RequestsAreNumbered == Numbering(requests, sent, newest)

\* The last request is for what the effects saw last: it is under way, or its
\* answer is on the page unless an older one came later.
LastIsForWhatWasSeen ==
    open /\ seen # NotYet =>
        \/ \E r \in requests : r.id = sent /\ r.query = seen
        \/ newest = sent /\ (shown \in {seen, Nobody} \/ overtaken)

LoadsSomething == open /\ seen # NotYet /\ loading => requests # {}

DirectoryInv == /\ DirectoryTypeOK
                /\ RequestsAreNumbered
                /\ LastIsForWhatWasSeen
                /\ LoadsSomething

\* Effects that have not run have seen no query.
LEMMA NotYetIsNoQuery == \A q \in PageQueries : q # NotYet
<1> SUFFICES ASSUME NEW q \in PageQueries PROVE q # NotYet
  OBVIOUS
<1>1. "page" \in DOMAIN q
  BY DEF PageQueries
<1>2. "page" \notin DOMAIN NotYet
  BY DEF NotYet
<1> QED BY <1>1, <1>2

\* The first page without filters is a query.
LEMMA FreshIsAQuery == Fresh \in PageQueries
<1>1. (CHOOSE f \in Filters : TRUE) \in Filters /\ (CHOOSE o \in Orders : TRUE) \in Orders
  BY DirectoryAssumption DEF DirectoryAssumption
<1>2. 1 \in 1..LastPage
  BY DirectoryAssumption DEF DirectoryAssumption
<1> QED BY <1>1, <1>2 DEF Fresh, PageQueries

\* Nothing has been asked yet.
LEMMA DirectoryInitInv == DirectoryInit => DirectoryInv
<1> SUFFICES ASSUME DirectoryInit PROVE DirectoryInv
  OBVIOUS
<1>1. DirectoryTypeOK
  <2>1. 0 \in 0..MaxFetches
    BY DirectoryAssumption DEF DirectoryAssumption
  <2>2. /\ open = TRUE /\ asked = Fresh /\ seen = NotYet /\ requests = {} /\ sent = 0
        /\ shown = NotYet /\ loading = TRUE /\ newest = 0 /\ overtaken = FALSE
    BY DEF DirectoryInit
  <2> QED BY <2>1, <2>2, FreshIsAQuery DEF DirectoryTypeOK
<1>2. RequestsAreNumbered /\ LastIsForWhatWasSeen /\ LoadsSomething
  BY DEF DirectoryInit, RequestsAreNumbered, LastIsForWhatWasSeen, LoadsSomething,
         Numbering
<1> QED BY <1>1, <1>2 DEF DirectoryInv

\* The effects send the request that is for what they have seen.
LEMMA EffectsInv == DirectoryInv /\ Effects => DirectoryInv'
<1> SUFFICES ASSUME DirectoryInv, Effects PROVE DirectoryInv'
  OBVIOUS
<1> DEFINE new == [id |-> sent', query |-> asked]
<1>1. new.id = sent' /\ new.query = asked
  OBVIOUS
<1>2. /\ sent' = sent + 1 /\ requests' = requests \cup {new} /\ loading' = TRUE
      /\ seen' = asked /\ UNCHANGED <<open, shown, newest, overtaken>>
      /\ sent < MaxFetches
  BY DEF Effects, Refetch
<1>3. asked' \in {asked, [asked EXCEPT !.page = 1]}
  BY DEF Effects
<1> HIDE DEF new
<1>4. sent \in 0..MaxFetches /\ newest \in 0..MaxFetches /\ MaxFetches \in Nat
      /\ asked \in PageQueries /\ LastPage \in Nat \ {0}
  BY DirectoryAssumption DEF DirectoryInv, DirectoryTypeOK, DirectoryAssumption
<1>5. asked' \in PageQueries
  BY <1>3, <1>4 DEF PageQueries
<1>6. sent' \in 1..MaxFetches /\ sent' \in 0..MaxFetches
  BY <1>2, <1>4
<1>7. DirectoryTypeOK'
  BY <1>1, <1>2, <1>4, <1>5, <1>6 DEF DirectoryInv, DirectoryTypeOK
<1>8. RequestsAreNumbered'
  BY <1>1, <1>2, <1>4, NumberingGoesOn DEF DirectoryInv, RequestsAreNumbered
<1>9. LastIsForWhatWasSeen' /\ LoadsSomething'
  BY <1>1, <1>2 DEF LastIsForWhatWasSeen, LoadsSomething
<1> QED BY <1>7, <1>8, <1>9 DEF DirectoryInv

\* An answer is that of the last request, or older than it.
LEMMA AnswerPageInv ==
    ASSUME DirectoryInv, NEW r \in requests, NEW ok \in BOOLEAN, AnswerPage(r, ok)
    PROVE  DirectoryInv'
<1>1. /\ r.id \in 1..MaxFetches /\ r.query \in PageQueries
      /\ sent \in 0..MaxFetches /\ newest \in 0..MaxFetches
  BY DEF DirectoryInv, DirectoryTypeOK
<1>2. /\ newest' = Max({r.id, newest}) /\ newest' \in {r.id, newest}
      /\ Numbering(requests \ {r}, sent, newest')
      /\ r.id = sent => newest' = sent
      /\ newest = sent => r.id < newest /\ newest' = sent
  <2>1. \A a, b \in Nat : \A q \in requests :
            Numbering(requests, a, b) =>
                /\ Numbering(requests \ {q}, a, Max({q.id, b}))
                /\ Max({q.id, b}) \in {q.id, b}
                /\ q.id = a => Max({q.id, b}) = a /\ ~(q.id < b)
                /\ b = a => q.id < b /\ Max({q.id, b}) = a
    BY NumberingAnswered
  <2>2. sent \in Nat /\ newest \in Nat
    BY <1>1, DirectoryAssumption DEF DirectoryAssumption
  <2>3. newest' = Max({r.id, newest}) /\ Numbering(requests, sent, newest)
    BY DEF AnswerPage, DirectoryInv, RequestsAreNumbered
  <2> QED BY <2>1, <2>2, <2>3, Zenon
<1>3. /\ requests' = requests \ {r} /\ loading' = FALSE
      /\ shown' = (IF ok THEN r.query ELSE Nobody) /\ overtaken' = (r.id < newest)
      /\ UNCHANGED <<open, asked, seen, sent>>
  BY DEF AnswerPage
<1>4. newest' \in 0..MaxFetches
  BY <1>1, <1>2
<1>5. DirectoryTypeOK'
  <2>1. shown' \in PageQueries \cup {NotYet, Nobody}
    BY <1>1, <1>3
  <2>2. overtaken' \in BOOLEAN /\ loading' \in BOOLEAN
    <3>1. (r.id < newest) \in BOOLEAN
      BY <1>1
    <3> QED BY <1>3, <3>1, Zenon
  <2>3. \A q \in requests' : q.id \in 1..MaxFetches /\ q.query \in PageQueries
    BY <1>3 DEF DirectoryInv, DirectoryTypeOK
  <2> QED BY <1>3, <1>4, <2>1, <2>2, <2>3 DEF DirectoryInv, DirectoryTypeOK
<1>6. RequestsAreNumbered'
  BY <1>2, <1>3 DEF RequestsAreNumbered
<1>7. LastIsForWhatWasSeen'
  <2> SUFFICES ASSUME open, seen # NotYet
               PROVE  \/ \E q \in requests' : q.id = sent /\ q.query = seen
                      \/ newest' = sent /\ (shown' \in {seen, Nobody} \/ overtaken')
    BY <1>3 DEF LastIsForWhatWasSeen
  <2>1. CASE \E q \in requests : q.id = sent /\ q.query = seen
    <3> PICK q \in requests : q.id = sent /\ q.query = seen
      BY <2>1
    <3>1. CASE q = r
      BY <1>2, <1>3, <3>1
    <3>2. CASE q # r
      BY <1>3, <3>2
    <3> QED BY <3>1, <3>2
  <2>2. CASE newest = sent
    BY <1>2, <1>3, <2>2
  <2> QED BY <2>1, <2>2 DEF DirectoryInv, LastIsForWhatWasSeen
<1>8. LoadsSomething'
  BY <1>3 DEF LoadsSomething
<1> QED BY <1>5, <1>6, <1>7, <1>8 DEF DirectoryInv

\* The other steps change what is asked for, or leave or enter the directory.
LEMMA AskInv ==
    ASSUME DirectoryInv,
           \/ Leave \/ Enter
           \/ \E f \in Filters, o \in Orders : ChangeFilters(f, o)
           \/ \E p \in 1..LastPage : ChangePage(p)
    PROVE  DirectoryInv'
<1>1. ASSUME NEW q \in PageQueries, Ask(q) PROVE DirectoryInv'
  BY <1>1 DEF Ask, DirectoryInv, DirectoryTypeOK, RequestsAreNumbered, LastIsForWhatWasSeen,
              LoadsSomething
<1>2. asked \in PageQueries
  BY DEF DirectoryInv, DirectoryTypeOK
<1>3. ASSUME NEW f \in Filters, NEW o \in Orders, ChangeFilters(f, o) PROVE DirectoryInv'
  <2>1. [asked EXCEPT !.filter = f, !.order = o] \in PageQueries
    BY <1>2 DEF PageQueries
  <2> QED BY <1>1, <1>3, <2>1 DEF ChangeFilters
<1>4. ASSUME NEW p \in 1..LastPage, ChangePage(p) PROVE DirectoryInv'
  <2>1. [asked EXCEPT !.page = p] \in PageQueries
    BY <1>2 DEF PageQueries
  <2> QED BY <1>1, <1>4, <2>1 DEF ChangePage
<1>5. CASE Leave
  BY <1>5 DEF Leave, DirectoryInv, DirectoryTypeOK, RequestsAreNumbered, LastIsForWhatWasSeen,
              LoadsSomething, Numbering
<1>6. CASE Enter
  <2>1. DirectoryTypeOK'
    BY <1>6, FreshIsAQuery DEF Enter, DirectoryInv, DirectoryTypeOK
  <2>2. RequestsAreNumbered' /\ LastIsForWhatWasSeen' /\ LoadsSomething'
    BY <1>6 DEF Enter, DirectoryInv, RequestsAreNumbered, LastIsForWhatWasSeen, LoadsSomething
  <2> QED BY <2>1, <2>2 DEF DirectoryInv
<1> QED BY <1>3, <1>4, <1>5, <1>6

\* The steps of the directory keep the invariant.
LEMMA DirectoryNextInv == DirectoryInv /\ [DirectoryNext]_directoryVars => DirectoryInv'
<1> SUFFICES ASSUME DirectoryInv, [DirectoryNext]_directoryVars PROVE DirectoryInv'
  OBVIOUS
<1>1. CASE UNCHANGED directoryVars
  BY <1>1 DEF directoryVars, DirectoryInv, DirectoryTypeOK, RequestsAreNumbered,
              LastIsForWhatWasSeen, LoadsSomething
<1>2. CASE DirectoryNext
  BY <1>2, EffectsInv, AnswerPageInv, AskInv DEF DirectoryNext
<1> QED BY <1>1, <1>2

\* The inductive invariant of the directory.
THEOREM DirectoryInvariance == DirectorySpec => []DirectoryInv
<1> QED BY DirectoryInitInv, DirectoryNextInv, PTL DEF DirectorySpec

\* What is asked for, requested and shown keeps its type, for any filters, orders
\* and pages.
THEOREM DirectoryTypes == DirectorySpec => []DirectoryTypeOK
<1>1. DirectoryInv => DirectoryTypeOK
  BY DEF DirectoryInv
<1> QED BY <1>1, DirectoryInvariance, PTL

\* With no request under way the directory shows what is asked for, or an error,
\* unless an older answer came last, for any number of requests.
THEOREM DirectoryShowsWhatIsAsked == DirectorySpec => []PageShowsWhatIsAsked
<1>1. DirectoryInv => PageShowsWhatIsAsked
  <2>1. DirectoryInv /\ seen = asked => seen # NotYet
    BY NotYetIsNoQuery DEF DirectoryInv, DirectoryTypeOK
  <2> QED BY <2>1 DEF DirectoryInv, LastIsForWhatWasSeen, LoadsSomething, PageShowsWhatIsAsked,
                      Settled, DirectoryTypeOK
<1> QED BY <1>1, DirectoryInvariance, PTL

-----------------------------------------------------------------------------
(* SearchBox *)

BoxIsNumbered ==
    /\ Numbering(suggesting, asks["suggestion"], answered["suggestion"])
    /\ Numbering(searches, asks["search"], answered["search"])

\* The last request for suggestions is for the debounced query: it is under way,
\* or its answer is listed unless an older one came later.
SuggestsForDebounced ==
    \/ \E r \in suggesting : r.id = asks["suggestion"] /\ r.of = debounced
    \/ /\ answered["suggestion"] = asks["suggestion"]
       /\ suggestions \in {debounced, Short} \/ late["suggestion"]

\* The last search is what was asked for, unless it took over filters.
SearchesForLastSearch ==
    searched =>
        \/ \E r \in searches : r.id = asks["search"] /\ (r.of = lastSearch \/ leaked)
        \/ /\ answered["search"] = asks["search"]
           /\ results \in {lastSearch, NoResults} \/ late["search"] \/ leaked

SearchingForSomething == searching => searches # {}

\* A highlight set with its list at hand stays in it until the list goes.
HighlightIsListed == blind \/ index = 0 \/ (~Waiting /\ index <= Listed)

BoxInv == /\ BoxTypeOK
          /\ BoxIsNumbered
          /\ SuggestsForDebounced
          /\ SearchesForLastSearch
          /\ SearchingForSomething
          /\ HighlightIsListed

\* The numbers of a state.
LEMMA BoxNumbers ==
    ASSUME BoxTypeOK
    PROVE  /\ \A k \in Kinds : asks[k] \in Nat /\ answered[k] \in Nat
           /\ MaxRequests \in Nat /\ Short \in Queries /\ Listed \in Nat /\ index \in Nat
<1>1. MaxRequests \in Nat /\ Short \in Queries /\ Hits \in [Queries -> Nat]
  BY SearchAssumption DEF SearchAssumption
<1> QED BY <1>1 DEF BoxTypeOK, Listed

\* Nothing has been typed or searched yet.
LEMMA BoxInitInv == BoxInit => BoxInv
<1> SUFFICES ASSUME BoxInit PROVE BoxInv
  OBVIOUS
<1>1. Short \in Queries /\ 0 \in 0..MaxRequests
  BY SearchAssumption DEF SearchAssumption
<1>2. BoxTypeOK
  <2>1. /\ asks \in [Kinds -> 0..MaxRequests] /\ answered \in [Kinds -> 0..MaxRequests]
        /\ late \in [Kinds -> BOOLEAN]
    BY <1>1 DEF BoxInit
  <2> QED BY <1>1, <2>1 DEF BoxInit, BoxTypeOK
<1>3. asks["suggestion"] = 0 /\ answered["suggestion"] = 0
  BY DEF BoxInit, Kinds
<1>4. asks["search"] = 0 /\ answered["search"] = 0
  BY DEF BoxInit, Kinds
<1>5. BoxIsNumbered
  BY <1>3, <1>4 DEF BoxInit, BoxIsNumbered, Numbering
<1>6. SuggestsForDebounced /\ SearchesForLastSearch /\ SearchingForSomething /\ HighlightIsListed
  BY <1>3 DEF BoxInit, SuggestsForDebounced, SearchesForLastSearch, SearchingForSomething,
              HighlightIsListed
<1> QED BY <1>2, <1>5, <1>6 DEF BoxInv

\* The highlight goes, goes blind, or stays with its query and list.
LEMMA ChoiceInv ==
    ASSUME BoxInv, BoxTypeOK',
           UNCHANGED <<debounced, suggestions, suggesting, pageVars, counters>>,
           blind' \/ index' = 0 \/ (~Waiting' /\ index' <= Listed')
    PROVE  BoxInv'
  BY DEF pageVars, counters, BoxInv, BoxIsNumbered, SuggestsForDebounced, SearchesForLastSearch,
         SearchingForSomething, HighlightIsListed

\* A highlight kept over a list to come goes blind.
LEMMA GoesBlind ==
    ASSUME index \in Nat, blind \in BOOLEAN, blind' = (blind \/ index > 0)
    PROVE  blind' \in BOOLEAN /\ (blind' \/ index = 0)
<1>1. (index > 0) \in BOOLEAN
  OBVIOUS
<1>2. blind' \in BOOLEAN
  BY <1>1, Zenon
<1>3. CASE index = 0
  BY <1>2, <1>3
<1>4. CASE index # 0
  <2>1. index > 0
    BY <1>4
  <2> QED BY <1>2, <2>1, Zenon
<1> QED BY <1>3, <1>4

\* Steps of the input and of the list that send no request.
LEMMA InputInv ==
    ASSUME BoxInv,
           \/ \E q \in Queries : TypeQuery(q) \/ (q # Short /\ Select(q))
           \/ \E i \in 0..(Listed + index) : Highlight(i)
           \/ Toggle \/ ResetFilters
    PROVE  BoxInv'
<1>1. BoxTypeOK /\ HighlightIsListed /\ index \in Nat /\ Listed \in Nat
  BY BoxNumbers DEF BoxInv
<1>2. ASSUME NEW q \in Queries, TypeQuery(q) PROVE BoxInv'
  <2>1. BoxTypeOK'
    BY <1>1, <1>2 DEF TypeQuery, ResetIndex, listVars, pageVars, counters, BoxTypeOK
  <2> QED BY <1>2, <2>1, ChoiceInv DEF TypeQuery, ResetIndex, listVars
<1>3. ASSUME NEW q \in Queries, Select(q) PROVE BoxInv'
  <2>1. BoxTypeOK'
    BY <1>1, <1>3 DEF Select, listVars, pageVars, counters, BoxTypeOK
  <2>2. blind' = (blind \/ index > 0) /\ index' = index /\ blind \in BOOLEAN
    BY <1>1, <1>3 DEF Select, BoxTypeOK
  <2>3. blind' \/ index' = 0
    BY <1>1, <2>2, GoesBlind
  <2> QED BY <1>3, <2>1, <2>3, ChoiceInv DEF Select, listVars
<1>4. ASSUME NEW i \in 0..(Listed + index), Highlight(i) PROVE BoxInv'
  <2>1. index' \in Nat /\ blind' \in BOOLEAN
    BY <1>1, <1>4 DEF Highlight, BoxTypeOK
  <2>2. BoxTypeOK'
    BY <1>1, <1>4, <2>1 DEF Highlight, inputVars, listVars, pageVars, counters, BoxTypeOK
  <2>3. Waiting' = Waiting /\ Listed' = Listed
    BY <1>4 DEF Highlight, inputVars, listVars, Waiting, Listed
  <2>4. blind' \/ (~Waiting' /\ index' <= Listed')
    <3>1. CASE Waiting \/ (blind /\ i > Listed)
      BY <1>4, <3>1 DEF Highlight
    <3>2. CASE ~Waiting /\ i <= Listed
      BY <1>4, <2>3, <3>2 DEF Highlight
    <3>3. CASE ~blind /\ i > Listed
      \* only a blind highlight lies beyond the end
      <4>1. index <= Listed
        BY <1>1, <3>3 DEF HighlightIsListed
      <4> QED BY <1>1, <1>4, <3>3, <4>1 DEF Highlight
    <3> QED BY <1>1, <3>1, <3>2, <3>3
  <2> QED BY <1>4, <2>2, <2>4, ChoiceInv DEF Highlight, listVars
<1>5. ASSUME Toggle \/ ResetFilters PROVE BoxInv'
  <2>1. BoxTypeOK'
    BY <1>1, <1>5 DEF Toggle, ResetFilters, inputVars, listVars, choiceVars, pageVars, counters,
                      BoxTypeOK
  <2>2. UNCHANGED <<query, debounced, suggestions, suggesting, index, blind, pageVars, counters>>
    BY <1>5 DEF Toggle, ResetFilters, inputVars, listVars, choiceVars
  <2>3. Waiting' = Waiting /\ Listed' = Listed
    BY <2>2 DEF Waiting, Listed
  <2> QED BY <1>1, <2>1, <2>2, <2>3, ChoiceInv DEF HighlightIsListed
<1> QED BY <1>2, <1>3, <1>4, <1>5

\* Waiting for the debounce, the highlight is blind or gone.
LEMMA WaitingInv ==
    ASSUME BoxInv, Waiting, UNCHANGED <<index, blind>>
    PROVE  HighlightIsListed'
  BY DEF BoxInv, HighlightIsListed

\* The request for suggestions has the newest number, or is answered by none.
LEMMA DebounceInv == BoxInv /\ Debounce => BoxInv'
<1> SUFFICES ASSUME BoxInv, Debounce PROVE BoxInv'
  OBVIOUS
<1> DEFINE n == asks["suggestion"] + 1
<1>1. /\ asks["suggestion"] \in 0..MaxRequests /\ asks["search"] \in 0..MaxRequests
      /\ answered["suggestion"] \in 0..MaxRequests /\ MaxRequests \in Nat /\ Short \in Queries
      /\ query \in Queries
  BY BoxNumbers DEF BoxInv, BoxTypeOK, Kinds
<1>2. n \in 1..MaxRequests
  BY <1>1 DEF Debounce, MayAsk
<1>3. asks' \in [Kinds -> 0..MaxRequests] /\ asks'["suggestion"] = n /\ asks'["search"] = asks["search"]
  BY <1>2 DEF Debounce, BoxInv, BoxTypeOK, Kinds
<1>4. /\ debounced' = query
      /\ UNCHANGED <<query, filters, index, dropdown, blind, results, searched, searching,
                     searches, lastSearch, leaked>>
  BY DEF Debounce, inputVars, choiceVars, pageVars
<1>5. HighlightIsListed'
  BY <1>4, WaitingInv DEF Debounce, Waiting
<1> HIDE DEF n
<1>6. CASE query = Short
  <2>1. /\ suggestions' = Short /\ suggesting' = suggesting
        /\ answered' = [answered EXCEPT !["suggestion"] = n]
        /\ late' = [late EXCEPT !["suggestion"] = FALSE]
    BY <1>3, <1>6 DEF Debounce
  <2>2. /\ answered' \in [Kinds -> 0..MaxRequests] /\ late' \in [Kinds -> BOOLEAN]
        /\ answered'["suggestion"] = n
        /\ answered'["search"] = answered["search"] /\ late'["search"] = late["search"]
    BY <1>2, <2>1 DEF BoxInv, BoxTypeOK, Kinds
  <2>3. BoxTypeOK'
    BY <1>1, <1>3, <1>4, <2>1, <2>2 DEF BoxInv, BoxTypeOK
  <2>4. Numbering(suggesting, n, n)
    BY <1>1 DEF BoxInv, BoxIsNumbered, Numbering, n
  <2>5. BoxIsNumbered'
    BY <1>3, <1>4, <2>1, <2>2, <2>4 DEF BoxInv, BoxIsNumbered
  <2>6. SuggestsForDebounced'
    BY <1>3, <2>1, <2>2 DEF SuggestsForDebounced
  <2>7. SearchesForLastSearch' /\ SearchingForSomething'
    BY <1>3, <1>4, <2>2 DEF BoxInv, SearchesForLastSearch, SearchingForSomething
  <2> QED BY <1>5, <2>3, <2>5, <2>6, <2>7 DEF BoxInv
<1>7. CASE query # Short
  <2> DEFINE new == [id |-> n, of |-> query]
  <2>1. /\ suggesting' = suggesting \cup {new} /\ UNCHANGED <<suggestions, answered, late>>
    BY <1>3, <1>7 DEF Debounce
  <2>2. new \in Numbered(Queries) /\ new.id = n /\ new.of = query
    BY <1>1, <1>2 DEF Numbered
  <2> HIDE DEF new
  <2>3. BoxTypeOK'
    BY <1>1, <1>3, <1>4, <2>1, <2>2 DEF BoxInv, BoxTypeOK
  <2>4. Numbering(suggesting \cup {new}, n, answered["suggestion"])
    BY <1>1, <2>2, NumberingGoesOn DEF BoxInv, BoxIsNumbered, n
  <2>5. BoxIsNumbered'
    BY <1>3, <1>4, <2>1, <2>4 DEF BoxInv, BoxIsNumbered
  <2>6. SuggestsForDebounced'
    BY <1>3, <1>4, <2>1, <2>2 DEF SuggestsForDebounced
  <2>7. SearchesForLastSearch' /\ SearchingForSomething'
    BY <1>3, <1>4, <2>1 DEF BoxInv, SearchesForLastSearch, SearchingForSomething
  <2> QED BY <1>5, <2>3, <2>5, <2>6, <2>7 DEF BoxInv
<1> QED BY <1>6, <1>7

\* What an answer does to the counters of its kind.
LEMMA AnsweredCounters ==
    ASSUME BoxInv, NEW kind \in Kinds, NEW other \in Kinds \ {kind}, NEW unanswered,
           Numbering(unanswered, asks[kind], answered[kind]), NEW r \in unanswered,
           r.id \in 1..MaxRequests, Answered(kind, r)
    PROVE  /\ answered' \in [Kinds -> 0..MaxRequests] /\ late' \in [Kinds -> BOOLEAN]
           /\ answered'[other] = answered[other] /\ late'[other] = late[other]
           /\ Numbering(unanswered \ {r}, asks[kind], answered'[kind])
           /\ r.id = asks[kind] => answered'[kind] = asks[kind]
           /\ answered[kind] = asks[kind] => late'[kind] /\ answered'[kind] = asks[kind]
<1> DEFINE m == Max({r.id, answered[kind]})
<1>1. asks[kind] \in Nat /\ answered[kind] \in 0..MaxRequests /\ answered[kind] \in Nat
  BY BoxNumbers DEF BoxInv, BoxTypeOK
<1>2. /\ Numbering(unanswered \ {r}, asks[kind], m) /\ m \in {r.id, answered[kind]}
      /\ r.id = asks[kind] => m = asks[kind]
      /\ answered[kind] = asks[kind] => r.id < answered[kind] /\ m = asks[kind]
  <2>1. /\ Numbering(unanswered \ {r}, asks[kind], m) /\ m \in {r.id, answered[kind]}
        /\ r.id = asks[kind] => m = asks[kind] /\ ~(r.id < answered[kind])
        /\ answered[kind] = asks[kind] => r.id < answered[kind] /\ m = asks[kind]
    <3>1. \A a, b \in Nat : \A q \in unanswered :
              Numbering(unanswered, a, b) =>
                  /\ Numbering(unanswered \ {q}, a, Max({q.id, b}))
                  /\ Max({q.id, b}) \in {q.id, b}
                  /\ q.id = a => Max({q.id, b}) = a /\ ~(q.id < b)
                  /\ b = a => q.id < b /\ Max({q.id, b}) = a
      BY NumberingAnswered
    <3> QED BY <1>1, <3>1, Zenon
  <2> QED BY <2>1
<1>3. /\ answered' = [answered EXCEPT ![kind] = m]
      /\ late' = [late EXCEPT ![kind] = r.id < answered[kind]]
  BY DEF Answered
<1> HIDE DEF m
<1>4. m \in 0..MaxRequests /\ (r.id < answered[kind]) \in BOOLEAN
  BY <1>1, <1>2
<1>5. answered' \in [Kinds -> 0..MaxRequests] /\ late' \in [Kinds -> BOOLEAN]
  BY <1>3, <1>4 DEF BoxInv, BoxTypeOK
<1>6. /\ answered'[kind] = m /\ answered'[other] = answered[other]
      /\ late'[kind] = (r.id < answered[kind]) /\ late'[other] = late[other]
  BY <1>3 DEF BoxInv, BoxTypeOK
<1> QED BY <1>2, <1>5, <1>6

\* Suggestions are those of the last request, or older than those listed.
LEMMA SuggestInv ==
    ASSUME BoxInv, NEW r \in suggesting, NEW ok \in BOOLEAN, Suggest(r, ok)
    PROVE  BoxInv'
<1>1. /\ r.id \in 1..MaxRequests /\ r.of \in Queries /\ Short \in Queries
      /\ Numbering(suggesting, asks["suggestion"], answered["suggestion"])
      /\ "suggestion" \in Kinds /\ "search" \in Kinds \ {"suggestion"}
  BY BoxNumbers DEF BoxInv, BoxTypeOK, BoxIsNumbered, Numbered, Kinds
<1>2. /\ answered' \in [Kinds -> 0..MaxRequests] /\ late' \in [Kinds -> BOOLEAN]
      /\ answered'["search"] = answered["search"] /\ late'["search"] = late["search"]
      /\ Numbering(suggesting \ {r}, asks["suggestion"], answered'["suggestion"])
      /\ r.id = asks["suggestion"] => answered'["suggestion"] = asks["suggestion"]
      /\ answered["suggestion"] = asks["suggestion"] =>
             late'["suggestion"] /\ answered'["suggestion"] = asks["suggestion"]
  BY <1>1, AnsweredCounters DEF Suggest
<1>3. /\ suggesting' = suggesting \ {r} /\ suggestions' = (IF ok THEN r.of ELSE Short)
      /\ dropdown' = (dropdown \/ ok)
      /\ UNCHANGED <<query, filters, debounced, index, blind, results, searched, searching,
                     searches, lastSearch, leaked, asks>>
  BY DEF Suggest, inputVars, pageVars
<1>4. BoxTypeOK'
  <2>1. suggestions' \in Queries /\ dropdown' \in BOOLEAN
    BY <1>1, <1>3 DEF BoxInv, BoxTypeOK
  <2> QED BY <1>2, <1>3, <2>1 DEF BoxInv, BoxTypeOK
<1>5. BoxIsNumbered'
  BY <1>2, <1>3 DEF BoxInv, BoxIsNumbered
<1>6. SuggestsForDebounced'
  <2>1. CASE \E q \in suggesting : q.id = asks["suggestion"] /\ q.of = debounced
    <3> PICK q \in suggesting : q.id = asks["suggestion"] /\ q.of = debounced
      BY <2>1
    <3>1. CASE q = r
      BY <1>2, <1>3, <3>1 DEF SuggestsForDebounced
    <3>2. CASE q # r
      BY <1>3, <3>2 DEF SuggestsForDebounced
    <3> QED BY <3>1, <3>2
  <2>2. CASE answered["suggestion"] = asks["suggestion"]
    BY <1>2, <1>3, <2>2 DEF SuggestsForDebounced
  <2> QED BY <2>1, <2>2 DEF BoxInv, SuggestsForDebounced
<1>7. SearchesForLastSearch' /\ SearchingForSomething'
  BY <1>2, <1>3 DEF BoxInv, SearchesForLastSearch, SearchingForSomething
<1>8. HighlightIsListed'
  BY <1>3, WaitingInv DEF Waiting
<1> QED BY <1>4, <1>5, <1>6, <1>7, <1>8 DEF BoxInv

\* Results are those of the last search, or older than those shown.
LEMMA SearchAnsweredInv ==
    ASSUME BoxInv, NEW r \in searches, NEW ok \in BOOLEAN, Answer(r, ok)
    PROVE  BoxInv'
<1>1. /\ r.id \in 1..MaxRequests /\ r.of \in Searches
      /\ Numbering(searches, asks["search"], answered["search"])
      /\ "search" \in Kinds /\ "suggestion" \in Kinds \ {"search"}
  BY DEF BoxInv, BoxTypeOK, BoxIsNumbered, Numbered, Kinds
<1>2. /\ answered' \in [Kinds -> 0..MaxRequests] /\ late' \in [Kinds -> BOOLEAN]
      /\ answered'["suggestion"] = answered["suggestion"]
      /\ late'["suggestion"] = late["suggestion"]
      /\ Numbering(searches \ {r}, asks["search"], answered'["search"])
      /\ r.id = asks["search"] => answered'["search"] = asks["search"]
      /\ answered["search"] = asks["search"] =>
             late'["search"] /\ answered'["search"] = asks["search"]
  BY <1>1, AnsweredCounters DEF Answer
<1>3. /\ searches' = searches \ {r} /\ results' = (IF ok THEN r.of ELSE NoResults)
      /\ searching' = FALSE
      /\ UNCHANGED <<query, filters, debounced, suggestions, suggesting, index, dropdown, blind,
                     searched, lastSearch, leaked, asks>>
  BY DEF Answer, inputVars, listVars, choiceVars
<1>4. BoxTypeOK'
  <2>1. results' \in Searches \cup {NoResults}
    BY <1>1, <1>3
  <2> QED BY <1>2, <1>3, <2>1 DEF BoxInv, BoxTypeOK
<1>5. BoxIsNumbered' /\ SuggestsForDebounced'
  BY <1>2, <1>3 DEF BoxInv, BoxIsNumbered, SuggestsForDebounced
<1>6. SearchesForLastSearch'
  <2> SUFFICES ASSUME searched PROVE SearchesForLastSearch'
    BY <1>3 DEF SearchesForLastSearch
  <2>1. CASE \E q \in searches : q.id = asks["search"] /\ (q.of = lastSearch \/ leaked)
    <3> PICK q \in searches : q.id = asks["search"] /\ (q.of = lastSearch \/ leaked)
      BY <2>1
    <3>1. CASE q = r
      BY <1>2, <1>3, <3>1 DEF SearchesForLastSearch
    <3>2. CASE q # r
      BY <1>3, <3>2 DEF SearchesForLastSearch
    <3> QED BY <3>1, <3>2
  <2>2. CASE answered["search"] = asks["search"]
    BY <1>2, <1>3, <2>2 DEF SearchesForLastSearch
  <2> QED BY <2>1, <2>2 DEF BoxInv, SearchesForLastSearch
<1>7. SearchingForSomething'
  BY <1>3 DEF SearchingForSomething
<1>8. HighlightIsListed'
  BY <1>3 DEF BoxInv, HighlightIsListed, Waiting, Listed
<1> QED BY <1>4, <1>5, <1>6, <1>7, <1>8 DEF BoxInv

\* A search that leaves its filters behind, or tells that it took over others.
LEMMA ExecuteInv ==
    ASSUME BoxInv, NEW q \in Queries, NEW f \in FilterSets \cup {NoFilters},
           NEW after \in FilterSets \cup {NoFilters}, Execute(q, f, after),
           f # NoFilters => after = f,
           query' \in Queries, blind' \in BOOLEAN,
           blind' \/ index = 0 \/ (query' = query /\ blind' = blind)
    PROVE  BoxInv'
<1> DEFINE n == asks["search"] + 1
           of == [query |-> q, filters |-> Merged(f)]
           new == [id |-> n, of |-> of]
<1>1. /\ asks["suggestion"] \in 0..MaxRequests /\ asks["search"] \in 0..MaxRequests
      /\ answered["search"] \in 0..MaxRequests /\ MaxRequests \in Nat
      /\ filters \in FilterSets \cup {NoFilters}
  BY BoxNumbers DEF BoxInv, BoxTypeOK, Kinds
<1>2. n \in 1..MaxRequests
  BY <1>1 DEF Execute, MayAsk
<1>3. /\ asks' \in [Kinds -> 0..MaxRequests] /\ asks'["search"] = n
      /\ asks'["suggestion"] = asks["suggestion"]
  BY <1>2 DEF Execute, BoxInv, BoxTypeOK, Kinds
<1>4. Merged(f) \in FilterSets \cup {NoFilters}
  BY <1>1 DEF Merged
<1>5. of \in Searches
  BY <1>4 DEF Searches
<1>6. lastSearch' = [query |-> q, filters |-> after] /\ lastSearch' \in Searches
  BY DEF Execute, Searches
<1>7. leaked' = (f = NoFilters /\ after # filters) /\ leaked' \in BOOLEAN
  BY DEF Execute
<1>8. of = lastSearch' \/ leaked'
  BY <1>6, <1>7 DEF Merged
<1>9. searches' = searches \cup {new}
  BY <1>3 DEF Execute
<1>10. /\ searching' = TRUE /\ searched' = TRUE /\ dropdown' = FALSE /\ filters' = after
       /\ UNCHANGED <<debounced, suggestions, suggesting, index, results, answered, late>>
  BY DEF Execute, listVars
<1> HIDE DEF of, n
<1>11. new \in Numbered(Searches) /\ new.id = n /\ new.of = of
  BY <1>2, <1>5 DEF Numbered
<1> HIDE DEF new
<1>12. BoxTypeOK'
  BY <1>3, <1>6, <1>7, <1>9, <1>10, <1>11 DEF BoxInv, BoxTypeOK
<1>13. Numbering(searches \cup {new}, n, answered["search"])
  BY <1>1, <1>11, NumberingGoesOn DEF BoxInv, BoxIsNumbered, n
<1>14. BoxIsNumbered'
  BY <1>3, <1>9, <1>10, <1>13 DEF BoxInv, BoxIsNumbered
<1>15. SuggestsForDebounced'
  BY <1>3, <1>10 DEF BoxInv, SuggestsForDebounced
<1>16. SearchesForLastSearch' /\ SearchingForSomething'
  BY <1>3, <1>8, <1>9, <1>11 DEF SearchesForLastSearch, SearchingForSomething
<1>17. HighlightIsListed'
  BY <1>10 DEF BoxInv, HighlightIsListed, Waiting, Listed
<1> QED BY <1>12, <1>14, <1>15, <1>16, <1>17 DEF BoxInv

\* Every way to search leaves its query and filters as the last search.
LEMMA SearchInv ==
    ASSUME BoxInv,
           \/ \E q \in Queries, f \in FilterSets \cup {NoFilters} : Repeat(q, f)
           \/ \E f \in FilterSets : SearchFor(f)
           \/ Search
    PROVE  BoxInv'
<1>1. /\ query \in Queries /\ filters \in FilterSets \cup {NoFilters} /\ index \in Nat
      /\ blind \in BOOLEAN
  BY DEF BoxInv, BoxTypeOK
<1>2. ASSUME NEW q \in Queries, NEW f \in FilterSets \cup {NoFilters}, Repeat(q, f)
      PROVE  BoxInv'
  <2>1. blind' = (blind \/ index > 0) /\ query' = q /\ Execute(q, f, f)
    BY <1>2 DEF Repeat
  <2>2. blind' \in BOOLEAN /\ (blind' \/ index = 0)
    BY <1>1, <2>1, GoesBlind
  <2> QED BY <1>2, <2>1, <2>2, ExecuteInv
<1>3. ASSUME NEW f \in FilterSets, SearchFor(f) PROVE BoxInv'
  BY <1>1, <1>3, ExecuteInv DEF SearchFor
<1>4. ASSUME Search PROVE BoxInv'
  BY <1>1, <1>4, ExecuteInv DEF Search
<1> QED BY <1>2, <1>3, <1>4

\* Clearing forgets the search and lets the highlight go blind.
LEMMA ClearSearchInv == BoxInv /\ ClearSearch => BoxInv'
<1> SUFFICES ASSUME BoxInv, ClearSearch PROVE BoxInv'
  OBVIOUS
<1>1. index \in Nat /\ Short \in Queries /\ blind \in BOOLEAN
  BY BoxNumbers DEF BoxInv, BoxTypeOK
<1>2. /\ query' = Short /\ results' = NoResults /\ searched' = FALSE /\ suggestions' = Short
      /\ blind' = (blind \/ index > 0)
      /\ UNCHANGED <<filters, debounced, suggesting, index, dropdown, searching, searches,
                     lastSearch, leaked, asks, answered, late>>
  BY DEF ClearSearch, counters
<1>3. blind' \in BOOLEAN /\ (blind' \/ index' = 0)
  BY <1>1, <1>2, GoesBlind
<1>4. BoxTypeOK'
  BY <1>1, <1>2, <1>3 DEF BoxInv, BoxTypeOK
<1>5. BoxIsNumbered' /\ SuggestsForDebounced' /\ SearchesForLastSearch' /\ SearchingForSomething'
  BY <1>2 DEF BoxInv, BoxIsNumbered, SuggestsForDebounced, SearchesForLastSearch,
              SearchingForSomething
<1> QED BY <1>3, <1>4, <1>5 DEF BoxInv, HighlightIsListed

\* The steps of the search box keep the invariant.
LEMMA BoxNextInv == BoxInv /\ [BoxNext]_boxVars => BoxInv'
<1> SUFFICES ASSUME BoxInv, [BoxNext]_boxVars PROVE BoxInv'
  OBVIOUS
<1>1. CASE UNCHANGED boxVars
  BY <1>1 DEF boxVars, BoxInv, BoxTypeOK, BoxIsNumbered, SuggestsForDebounced,
              SearchesForLastSearch, SearchingForSomething, HighlightIsListed, Waiting, Listed
<1>2. CASE BoxNext
  BY <1>2, InputInv, DebounceInv, SuggestInv, SearchAnsweredInv, SearchInv, ClearSearchInv
     DEF BoxNext
<1> QED BY <1>1, <1>2

\* The inductive invariant of the search box.
THEOREM BoxInvariance == BoxSpec => []BoxInv
<1> QED BY BoxInitInv, BoxNextInv, PTL DEF BoxSpec

\* Input, suggestions, searches and counters keep their types, for any queries and
\* filters.
THEOREM BoxTypes == BoxSpec => []BoxTypeOK
<1>1. BoxInv => BoxTypeOK
  BY DEF BoxInv
<1> QED BY <1>1, BoxInvariance, PTL

\* With no request under way the results are those of the last search and the
\* suggestions those of the input, unless an older answer came last or a search
\* took over filters.
THEOREM SearchShowsWhatIsAsked == BoxSpec => []BoxShowsWhatIsAsked
<1>1. BoxInv => BoxShowsWhatIsAsked
  <2> SUFFICES ASSUME BoxInv PROVE BoxShowsWhatIsAsked
    OBVIOUS
  <2>1. searched /\ searches = {} =>
            ~searching /\ (results \in {lastSearch, NoResults} \/ late["search"] \/ leaked)
    BY DEF BoxInv, SearchesForLastSearch, SearchingForSomething
  <2>2. ~Waiting => suggestions \in {query, Short} \/ late["suggestion"]
    BY DEF BoxInv, SuggestsForDebounced, Waiting
  <2> QED BY <2>1, <2>2 DEF BoxShowsWhatIsAsked
<1> QED BY <1>1, BoxInvariance, PTL

\* The highlight lies beyond the end of an open list only if it was set, or kept,
\* before that list came, for any numbers of suggestions.
THEOREM SearchEnterTakesAListed == BoxSpec => []EnterTakesAListed
<1>1. BoxInv => EnterTakesAListed
  <2> SUFFICES ASSUME BoxInv, dropdown, Listed > 0 PROVE index <= Listed \/ blind
    BY DEF EnterTakesAListed
  <2>1. Listed \in Nat /\ index \in Nat
    BY BoxNumbers DEF BoxInv
  <2> QED BY <2>1 DEF BoxInv, HighlightIsListed
<1> QED BY <1>1, BoxInvariance, PTL

-----------------------------------------------------------------------------
(* DirectoryCache *)

\* The request under way is for what is asked for unless the cache answered since,
\* and without one the list shows it.
FlightIsForWhatIsAsked ==
    IF flight = NoList THEN listed = viewed \/ failed \/ unstopped
                       ELSE flight = viewed \/ unstopped

TurnsForARequest == turning => flight # NoList \/ aborted

ListInv == /\ ListTypeOK
           /\ FlightIsForWhatIsAsked
           /\ TurnsForARequest

\* The first page of a view is a query, and so is any other page of a query.
LEMMA FirstIsAQuery ==
    /\ \A v \in Views : First(v) \in ListQueries
    /\ \A q \in ListQueries, p \in 1..MaxPage : [q EXCEPT !.page = p] \in ListQueries
<1>1. 1 \in 1..MaxPage
  BY HookAssumption DEF HookAssumption
<1> QED BY <1>1 DEF First, ListQueries

\* A request is for a query; "nothing" is none.
LEMMA NoListIsNoQuery == \A q \in ListQueries : q # NoList
<1> SUFFICES ASSUME NEW q \in ListQueries PROVE q # NoList
  OBVIOUS
<1>1. "page" \in DOMAIN q
  BY DEF ListQueries
<1>2. "page" \notin DOMAIN NoList
  BY DEF NoList
<1> QED BY <1>1, <1>2

\* The first page of the plain view is under way.
LEMMA ListInitInv == ListInit => ListInv
<1> SUFFICES ASSUME ListInit PROVE ListInv
  OBVIOUS
<1>1. First(Plain) \in ListQueries
  BY FirstIsAQuery, HookAssumption DEF HookAssumption
<1>2. ListTypeOK
  BY <1>1 DEF ListInit, ListTypeOK
<1>3. FlightIsForWhatIsAsked /\ TurnsForARequest
  BY DEF ListInit, FlightIsForWhatIsAsked, TurnsForARequest
<1> QED BY <1>2, <1>3 DEF ListInv

\* What is loaded next is what is asked for.
LEMMA LoadInv ==
    ASSUME ListInv, NEW q \in ListQueries, viewed' = q, Load(q) \/ Send(q),
           typing' \in Views \cup {NoView}
    PROVE  ListInv'
<1>1. CASE Hit(q)
  BY <1>1 DEF Hit, ListInv, ListTypeOK, FlightIsForWhatIsAsked, TurnsForARequest
<1>2. CASE Send(q)
  BY <1>2, NoListIsNoQuery DEF Send, ListInv, ListTypeOK, FlightIsForWhatIsAsked, TurnsForARequest
<1> QED BY <1>1, <1>2 DEF Load

\* A changed view, page or input is answered by the cache or asked for anew.
LEMMA AskListInv ==
    ASSUME ListInv,
           \/ \E v \in Views : ChangeView(v) \/ TypeView(v)
           \/ \E p \in 1..MaxPage : Turn(p)
           \/ Debounced \/ Refresh
    PROVE  ListInv'
<1>1. viewed \in ListQueries /\ typing \in Views \cup {NoView}
  BY DEF ListInv, ListTypeOK
<1>2. ASSUME NEW v \in Views, ChangeView(v) PROVE ListInv'
  BY <1>1, <1>2, FirstIsAQuery, LoadInv DEF ChangeView
<1>3. ASSUME NEW v \in Views, TypeView(v) PROVE ListInv'
  BY <1>3 DEF TypeView, ListInv, ListTypeOK, FlightIsForWhatIsAsked, TurnsForARequest
<1>4. ASSUME NEW p \in 1..MaxPage, Turn(p) PROVE ListInv'
  BY <1>1, <1>4, FirstIsAQuery, LoadInv DEF Turn
<1>5. CASE Debounced
  <2>1. typing \in Views
    BY <1>1, <1>5 DEF Debounced
  <2> QED BY <1>5, <2>1, FirstIsAQuery, LoadInv DEF Debounced
<1>6. CASE Refresh
  BY <1>1, <1>6, LoadInv DEF Refresh
<1> QED BY <1>2, <1>3, <1>4, <1>5, <1>6

\* Answers, aborted requests, and entries that age.
LEMMA AnswerListInv ==
    ASSUME ListInv,
           \/ \E ok \in BOOLEAN : AnswerList(ok)
           \/ \E q \in ListQueries : Ages(q)
           \/ AbortedEnds \/ ClearCache
    PROVE  ListInv'
<1>1. ASSUME NEW ok \in BOOLEAN, AnswerList(ok) PROVE ListInv'
  <2>1. flight \in ListQueries
    BY <1>1 DEF AnswerList, ListInv, ListTypeOK
  <2>2. cached' \in [ListQueries -> {"none", "fresh", "old"}]
    BY <1>1, <2>1 DEF AnswerList, ListInv, ListTypeOK
  <2>3. ListTypeOK'
    BY <1>1, <2>1, <2>2 DEF AnswerList, ListInv, ListTypeOK
  <2>4. FlightIsForWhatIsAsked' /\ TurnsForARequest'
    BY <1>1 DEF AnswerList, ListInv, FlightIsForWhatIsAsked, TurnsForARequest
  <2> QED BY <2>3, <2>4 DEF ListInv
<1>2. ASSUME cached' \in [ListQueries -> {"none", "fresh", "old"}],
             UNCHANGED <<viewed, typing, flight, aborted, turning, failed, listed, unstopped>>
      PROVE  ListInv'
  BY <1>2 DEF ListInv, ListTypeOK, FlightIsForWhatIsAsked, TurnsForARequest
<1>3. ASSUME NEW q \in ListQueries, Ages(q) PROVE ListInv'
  <2>1. cached' \in [ListQueries -> {"none", "fresh", "old"}]
    BY <1>3 DEF Ages, ListInv, ListTypeOK
  <2> QED BY <1>2, <1>3, <2>1 DEF Ages
<1>4. CASE ClearCache
  BY <1>2, <1>4 DEF ClearCache
<1>5. CASE AbortedEnds
  BY <1>5 DEF AbortedEnds, ListInv, ListTypeOK, FlightIsForWhatIsAsked, TurnsForARequest
<1> QED BY <1>1, <1>3, <1>4, <1>5

\* The steps of the hook keep the invariant.
LEMMA ListNextInv == ListInv /\ [ListNext]_listHookVars => ListInv'
<1> SUFFICES ASSUME ListInv, [ListNext]_listHookVars PROVE ListInv'
  OBVIOUS
<1>1. CASE UNCHANGED listHookVars
  BY <1>1 DEF listHookVars, ListInv, ListTypeOK, FlightIsForWhatIsAsked, TurnsForARequest
<1>2. CASE ListNext
  BY <1>2, AskListInv, AnswerListInv DEF ListNext
<1> QED BY <1>1, <1>2

\* The inductive invariant of the cached directory.
THEOREM ListInvariance == ListSpec => []ListInv
<1> QED BY ListInitInv, ListNextInv, PTL DEF ListSpec

\* View, cache and request keep their types, for any views and pages.
THEOREM ListTypes == ListSpec => []ListTypeOK
<1>1. ListInv => ListTypeOK
  BY DEF ListInv
<1> QED BY <1>1, ListInvariance, PTL

\* With no request under way the hook shows what is asked for, or an error, unless
\* the cache answered while a request was under way.
THEOREM CacheShowsWhatIsAsked == ListSpec => []ListShowsWhatIsAsked
<1>1. ListInv => ListShowsWhatIsAsked
  BY DEF ListInv, FlightIsForWhatIsAsked, TurnsForARequest, ListShowsWhatIsAsked
<1> QED BY <1>1, ListInvariance, PTL

-----------------------------------------------------------------------------
(* FormSteps and FileUploader: their types. *)

\* A validation that passed or did not leaves steps and parts.
LEMMA AnsweredTypes ==
    ASSUME FormTypeOK, NEW c \in pending, Reject(c) \/ Throw(c) \/ Pass(c)
    PROVE  FormTypeOK'
<1>1. /\ c \in PendingCalls /\ pending' \subseteq PendingCalls
  BY DEF FormTypeOK, Reject, Throw, Pass
<1>2. c.at \in Steps /\ c.to \in Steps /\ c.data \in Parts
  BY <1>1 DEF PendingCalls
<1>3. CASE Reject(c)
  BY <1>1, <1>2, <1>3 DEF FormTypeOK, Reject
<1>4. CASE Throw(c)
  BY <1>1, <1>2, <1>4 DEF FormTypeOK, Throw
<1>5. CASE Pass(c)
  <2>1. data' = data /\ errors' \subseteq Steps
    BY <1>5 DEF FormTypeOK, Pass
  <2>2. CASE c.op = "submit"
    BY <1>1, <1>2, <1>5, <2>1, <2>2 DEF FormTypeOK, Pass
  <2>3. CASE c.op # "submit"
    BY <1>1, <1>2, <1>5, <2>1, <2>3 DEF FormTypeOK, Pass
  <2> QED BY <2>2, <2>3
<1> QED BY <1>3, <1>4, <1>5

\* The form keeps its types.
THEOREM FormTypes == FormSpec => []FormTypeOK
<1>1. FormInit => FormTypeOK
  <2> SUFFICES ASSUME FormInit PROVE FormTypeOK
    OBVIOUS
  <2>1. 0 \in Steps
    BY FormAssumption DEF FormAssumption, Steps
  <2> QED BY <2>1 DEF FormInit, FormTypeOK, Parts
<1>2. FormTypeOK /\ [FormNext]_formVars => FormTypeOK'
  <2> SUFFICES ASSUME FormTypeOK, [FormNext]_formVars PROVE FormTypeOK'
    OBVIOUS
  <2>1. CASE UNCHANGED formVars
    BY <2>1 DEF formVars, FormTypeOK
  <2>2. ASSUME NEW op \in {"go", "submit"}, NEW to \in Steps, Await(op, to) PROVE FormTypeOK'
    <3>1. [op |-> op, at |-> currentStep, to |-> to, data |-> data, visited |-> visited]
              \in PendingCalls
      BY DEF FormTypeOK, PendingCalls
    <3> QED BY <2>2, <3>1 DEF FormTypeOK, Await
  <2>3. CASE Edit
    BY <2>3 DEF FormTypeOK, Edit, Parts
  <2>4. CASE NextStep
    <3>1. currentStep + 1 \in Steps /\ Await("go", currentStep + 1)
      BY <2>4, FormAssumption DEF FormAssumption, FormTypeOK, NextStep, Steps
    <3> QED BY <2>2, <3>1
  <2>5. CASE PreviousStep
    <3>1. currentStep - 1 \in Steps
      BY <2>5, FormAssumption DEF FormAssumption, FormTypeOK, PreviousStep, Steps
    <3> QED BY <2>5, <3>1 DEF FormTypeOK, PreviousStep
  <2>6. CASE Submit
    <3>1. currentStep \in Steps /\ Await("submit", currentStep)
      BY <2>6 DEF FormTypeOK, Submit
    <3> QED BY <2>2, <3>1
  <2>7. ASSUME NEW s \in Steps, GoForward(s) \/ GoBack(s) PROVE FormTypeOK'
    <3>1. CASE GoForward(s)
      BY <2>2, <3>1 DEF GoForward
    <3>2. CASE GoBack(s)
      BY <3>2 DEF FormTypeOK, GoBack
    <3> QED BY <2>7, <3>1, <3>2
  <2>8. ASSUME NEW c \in pending, Reject(c) \/ Throw(c) \/ Pass(c) PROVE FormTypeOK'
    BY <2>8, AnsweredTypes
  <2> QED BY <2>1, <2>3, <2>4, <2>5, <2>6, <2>7, <2>8 DEF FormNext
<1> QED BY <1>1, <1>2, PTL DEF FormSpec

\* The uploader keeps its types.
THEOREM UploadTypes == UploadSpec => []UploadTypeOK
<1>1. UploadInit => UploadTypeOK
  BY DEF UploadInit, UploadTypeOK, Statuses
<1>2. UploadTypeOK /\ [UploadNext]_uploadVars => UploadTypeOK'
  <2> SUFFICES ASSUME UploadTypeOK, [UploadNext]_uploadVars PROVE UploadTypeOK'
    OBVIOUS
  <2> USE DEF UploadTypeOK
  <2>1. CASE UNCHANGED uploadVars
    BY <2>1 DEF uploadVars
  <2>2. ListedFiles \in SUBSET Uploads
    BY DEF ListedFiles
  <2>3. ASSUME NEW f \in Uploads, NEW s \in Statuses PROVE Marked(f, s) \in [Uploads -> Statuses]
    BY DEF Marked
  <2>4. ASSUME NEW fs \in SUBSET Uploads, Reconfigure(fs) PROVE UploadTypeOK'
    BY <2>4 DEF Reconfigure
  <2>5. ASSUME NEW fs \in SUBSET Uploads, AddFiles(fs) PROVE UploadTypeOK'
    BY <2>2, <2>5 DEF AddFiles, Statuses
  <2>6. ASSUME NEW f \in Uploads, Begin(f) \/ GetUrl(f) PROVE UploadTypeOK'
    <3>1. Marked(f, "uploading") \in [Uploads -> Statuses]
      BY <2>3 DEF Statuses
    <3> QED BY <2>6, <3>1 DEF Begin, GetUrl
  <2>7. ASSUME NEW f \in Uploads, FinishUpload(f) \/ FailUpload(f) PROVE UploadTypeOK'
    <3>1. /\ Marked(f, "completed") \in [Uploads -> Statuses]
          /\ Marked(f, "failed") \in [Uploads -> Statuses]
      BY <2>3 DEF Statuses
    <3> QED BY <2>7, <3>1 DEF FinishUpload, FailUpload
  <2>8. ASSUME NEW f \in Uploads, RemoveFile(f) \/ Retry(f) PROVE UploadTypeOK'
    BY <2>2, <2>8 DEF RemoveFile, Retry, Statuses
  <2> QED BY <2>1, <2>4, <2>5, <2>6, <2>7, <2>8 DEF UploadNext
<1> QED BY <1>1, <1>2, PTL DEF UploadSpec

-----------------------------------------------------------------------------
(* Services: what is proved of each component holds of it among the others. *)

\* A step of the composition is one of each component or leaves it alone.
LEMMA ServicesSteps ==
    [ServicesNext]_serviceVars =>
        /\ [WebhookNext]_webhookVars /\ [DraftNext]_draftVars /\ [EditorNext]_editorVars
        /\ [DirectoryNext]_directoryVars /\ [BoxNext]_boxVars /\ [ListNext]_listHookVars
        /\ [FormNext]_formVars /\ [UploadNext]_uploadVars
        /\ [StorageNext]_storageVars /\ [AuditNext]_auditVars
<1> SUFFICES ASSUME [ServicesNext]_serviceVars
             PROVE  /\ [WebhookNext]_webhookVars /\ [DraftNext]_draftVars /\ [EditorNext]_editorVars
                    /\ [DirectoryNext]_directoryVars /\ [BoxNext]_boxVars /\ [ListNext]_listHookVars
                    /\ [FormNext]_formVars /\ [UploadNext]_uploadVars
                    /\ [StorageNext]_storageVars /\ [AuditNext]_auditVars
  OBVIOUS
<1>1. CASE UNCHANGED serviceVars
  BY <1>1 DEF serviceVars
<1>2. CASE ServicesNext
  BY <1>2 DEF ServicesNext
<1> QED BY <1>1, <1>2

\* The composition implements the specification of each of its components, so that no
\* component's theorem depends on the others standing still.
THEOREM ServicesRunTheirComponents ==
    ServicesSpec => /\ WebhookSpec /\ DraftSpec /\ EditorSpec /\ DirectorySpec /\ BoxSpec
                    /\ ListSpec /\ FormSpec /\ UploadSpec /\ StorageSpec /\ AuditSpec
<1>1. ServicesInit => /\ WebhookInit /\ DraftInit /\ EditorInit /\ DirectoryInit /\ BoxInit
                      /\ ListInit /\ FormInit /\ UploadInit /\ StorageInit /\ AuditInit
  BY DEF ServicesInit
<1> QED BY <1>1, ServicesSteps, PTL
        DEF ServicesSpec, WebhookSpec, DraftSpec, EditorSpec, DirectorySpec, BoxSpec, ListSpec,
            FormSpec, UploadSpec, StorageSpec, AuditSpec

\* Every variable of every service keeps its type.
THEOREM ServicesTypes == ServicesSpec => []TypesOK
<1>1. WebhookTypeOK /\ DraftTypeOK /\ EditorTypeOK /\ DirectoryTypeOK /\ BoxTypeOK /\ ListTypeOK
      /\ FormTypeOK /\ UploadTypeOK /\ StorageTypeOK /\ AuditTypeOK => TypesOK
  BY DEF TypesOK
<1> QED BY <1>1, ServicesRunTheirComponents, WebhookTypes, DraftTypes, EditorTypes,
           DirectoryTypes, BoxTypes, ListTypes, FormTypes, UploadTypes, StorageTypes,
           AuditTypes, PTL

\* Every page of the front end shows what is asked for once the answers are in, in
\* any order, for any queries, filters and number of requests.
THEOREM FrontEndShowsWhatIsAsked == ServicesSpec => []ShowsWhatIsAsked
<1>1. PageShowsWhatIsAsked /\ BoxShowsWhatIsAsked /\ ListShowsWhatIsAsked => ShowsWhatIsAsked
  BY DEF ShowsWhatIsAsked
<1> QED BY <1>1, ServicesRunTheirComponents, DirectoryShowsWhatIsAsked, SearchShowsWhatIsAsked,
           CacheShowsWhatIsAsked, PTL

\* All that the services promise, of the composition that TLC checks.
THEOREM ServicesKeepTheirPromises ==
    ServicesSpec => [](/\ RestoredUnlessDisturbed /\ DraftHoldsWhatWasTyped /\ ChecksAreSound
                       /\ ShowsWhatIsAsked /\ EnterTakesAListed /\ PermanentStays
                       /\ RecordsHaveContents /\ ReportsReadBackwards)
  BY ServicesRunTheirComponents, WebhookRestoredUnlessDisturbed, DraftKeepsWhatWasTyped,
     EditorChecksAreSound, FrontEndShowsWhatIsAsked, SearchEnterTakesAListed,
     StoragePermanentStays, StorageRecordsHaveContents, ReportsOfAChain, PTL
=============================================================================
