------------------------------ MODULE Webhooks ------------------------------
(***************************************************************************)
(* WebhookService of src/infrastructure/webhooks/webhook_service.py and    *)
(* the test call of src/api/webhooks.py, its only caller of dispatch().    *)
(* A test call subscribes its endpoint for the time of the dispatch, which *)
(* awaits every delivery with its retries; configuration calls and other   *)
(* test calls run in between.  A step is the code between two awaits.      *)
(* The Faulty... operators are mistakes the properties must notice.        *)
(***************************************************************************)
EXTENDS Naturals, FiniteSets, FiniteSetsExt

CONSTANTS Endpoints,      \* ids that may be registered
          Events,         \* event types
          Lists,          \* the events lists callers ask for
          Calls,          \* the test calls that may be made
          MaxAttempts,    \* WebhookConfig.max_retries + 1
          MaxDeliveries,  \* WebhookConfig.max_concurrent_deliveries
          MaxPatches      \* bound on the calls of update_endpoint()

ASSUME WebhookAssumption ==
    /\ IsFiniteSet(Endpoints) /\ IsFiniteSet(Calls)
    /\ Lists \subseteq SUBSET Events
    /\ MaxAttempts \in Nat \ {0}
    /\ MaxDeliveries \in Nat \ {0}
    /\ MaxPatches \in Nat

VARIABLES
    known,       \* the keys of _endpoints
    deleted,     \* ids whose endpoint was deleted; an id is never used again
    active,      \* active[x]: is_active
    events,      \* events[x]: the events list, {} subscribes to everything
    stats,       \* stats[x]: total, successful and failed deliveries
    testCall,    \* testCall[c]: the test call c
    delivery,    \* delivery[c][x]: the delivery of call c to endpoint x
    attempts,    \* attempts[c][x]: its attempt_count
    patches,     \* how many updates there were
    configured,  \* history: the events the owner of x asked for last
    disturbed    \* history: endpoints patched or tested while a test call held them

webhookVars == <<known, deleted, active, events, stats, testCall, delivery, attempts,
          patches, configured, disturbed>>

Final == {"delivered", "failed"}
Phases == {"none", "waiting", "posting"} \cup Final
Counts == [total : Nat, ok : Nat, failed : Nat]

WebhookTypeOK ==
    /\ known \subseteq Endpoints
    /\ deleted \subseteq Endpoints
    /\ active \in [Endpoints -> BOOLEAN]
    /\ events \in [Endpoints -> SUBSET Events]
    /\ stats \in [Endpoints -> Counts]
    /\ testCall \in [Calls -> [at : {"none", "dispatching", "done"},
                            target : Endpoints, event : Events, saved : SUBSET Events]
                          \cup {[at |-> "none"]}]
    /\ delivery \in [Calls -> [Endpoints -> Phases]]
    /\ attempts \in [Calls -> [Endpoints -> 0..MaxAttempts]]
    /\ patches \in 0..MaxPatches
    /\ configured \in [Endpoints -> SUBSET Events]
    /\ disturbed \subseteq Endpoints

WebhookInit ==
    /\ known = {}
    /\ deleted = {}
    /\ active = [x \in Endpoints |-> FALSE]
    /\ events = [x \in Endpoints |-> {}]
    /\ stats = [x \in Endpoints |-> [total |-> 0, ok |-> 0, failed |-> 0]]
    /\ testCall = [c \in Calls |-> [at |-> "none"]]
    /\ delivery = [c \in Calls |-> [x \in Endpoints |-> "none"]]
    /\ attempts = [c \in Calls |-> [x \in Endpoints |-> 0]]
    /\ patches = 0
    /\ configured = [x \in Endpoints |-> {}]
    /\ disturbed = {}

Holds(c, x) == testCall[c].at = "dispatching" /\ testCall[c].target = x
Disturb(x) == disturbed' = IF \E c \in Calls : Holds(c, x) THEN disturbed \cup {x} ELSE disturbed

-----------------------------------------------------------------------------
(* Endpoint management. *)

\* register_endpoint()
RegisterEndpoint(x, subscribed) ==
    /\ x \notin known \cup deleted
    /\ known' = known \cup {x}
    /\ active' = [active EXCEPT ![x] = TRUE]
    /\ events' = [events EXCEPT ![x] = subscribed]
    /\ configured' = [configured EXCEPT ![x] = subscribed]
    /\ UNCHANGED <<deleted, stats, testCall, delivery, attempts, patches, disturbed>>

\* update_endpoint(): a new list of events when one is given, and is_active.
UpdateEndpoint(x, given, subscribed, on) ==
    /\ x \in known
    /\ patches < MaxPatches
    /\ patches' = patches + 1
    /\ active' = [active EXCEPT ![x] = on]
    /\ IF given
       THEN /\ events' = [events EXCEPT ![x] = subscribed]
            /\ configured' = [configured EXCEPT ![x] = subscribed]
            /\ Disturb(x)
       ELSE UNCHANGED <<events, configured, disturbed>>
    /\ UNCHANGED <<known, deleted, stats, testCall, delivery, attempts>>

\* delete_endpoint(): deliveries under way hold the object and go on.
DeleteEndpoint(x) ==
    /\ x \in known
    /\ known' = known \ {x}
    /\ deleted' = deleted \cup {x}
    /\ UNCHANGED <<active, events, stats, testCall, delivery, attempts, patches,
                   configured, disturbed>>

-----------------------------------------------------------------------------
(* The test call: subscribe, dispatch, restore. *)

\* "Temporarily subscribe to test event if not subscribed": only a list that is
\* not empty gets the event appended.
WithTestEvent(x, e) == IF events[x] = {} THEN {} ELSE events[x] \cup {e}

\* _get_subscribed_endpoints()
Subscribed(subscribed, e) ==
    {y \in known : active[y] /\ (subscribed[y] = {} \/ e \in subscribed[y])}

\* The events of all endpoints while the test call of x dispatches e.
Tested(x, e) == [events EXCEPT ![x] = WithTestEvent(x, e)]
TestCall(at, x, e) == [at |-> at, target |-> x, event |-> e, saved |-> events[x]]

\* The test call up to the first await of the dispatch.  An oversized payload
\* fails every delivery before its first attempt.
TestEndpoint(c, x, e, oversized) ==
    /\ testCall[c].at = "none"
    /\ x \in known
    /\ Subscribed(Tested(x, e), e) # {}
    /\ testCall' = [testCall EXCEPT ![c] = TestCall("dispatching", x, e)]
    /\ events' = Tested(x, e)
    /\ delivery' = [delivery EXCEPT ![c] =
                       [y \in Endpoints |->
                          IF y \notin Subscribed(events', e) THEN "none"
                          ELSE IF oversized THEN "failed" ELSE "waiting"]]
    /\ Disturb(x)
    /\ UNCHANGED <<known, deleted, active, stats, attempts, patches, configured>>

\* With nobody to deliver to, the dispatch awaits nothing: the events are back
\* before anyone else runs, and the answer is "Test delivery failed".
TestNobody(c, x, e) ==
    /\ testCall[c].at = "none"
    /\ x \in known
    /\ Subscribed(Tested(x, e), e) = {}
    /\ testCall' = [testCall EXCEPT ![c] = TestCall("done", x, e)]
    /\ UNCHANGED <<known, deleted, active, events, stats, delivery, attempts,
                   patches, configured, disturbed>>

FaultyPosting ==   \* a slot is not given back after the last attempt
    {p \in Calls \X Endpoints : delivery[p[1]][p[2]] \in Final \cup {"posting"}}
Posting == {p \in Calls \X Endpoints : delivery[p[1]][p[2]] = "posting"}

\* The back-off sleep, if any, is over and _attempt_delivery() gets the semaphore.
BeginPost(c, y) ==
    /\ delivery[c][y] = "waiting"
    /\ Cardinality(Posting) < MaxDeliveries
    /\ delivery' = [delivery EXCEPT ![c][y] = "posting"]
    /\ attempts' = [attempts EXCEPT ![c][y] = @ + 1]
    /\ UNCHANGED <<known, deleted, active, events, stats, testCall, patches, configured, disturbed>>

\* A 2xx answer.
Succeed(c, y) ==
    /\ delivery[c][y] = "posting"
    /\ delivery' = [delivery EXCEPT ![c][y] = "delivered"]
    /\ UNCHANGED <<known, deleted, active, events, stats, testCall, attempts, patches,
                   configured, disturbed>>

FaultyTriesAgain(n) == n <= MaxAttempts   \* one attempt too many

\* Any other answer, a timeout or a transport error: while attempts remain,
\* a back-off sleep and the wait for the semaphore again.
TriesAgain(n) == n < MaxAttempts
Fail(c, y) ==
    /\ delivery[c][y] = "posting"
    /\ delivery' = [delivery EXCEPT ![c][y] =
                       IF TriesAgain(attempts[c][y]) THEN "waiting" ELSE "failed"]
    /\ UNCHANGED <<known, deleted, active, events, stats, testCall, attempts, patches,
                   configured, disturbed>>

\* _update_endpoint_stats()
Credited(count, outcome) ==
    [total  |-> count.total + 1,
     ok     |-> IF outcome = "delivered" THEN count.ok + 1 ELSE count.ok,
     failed |-> IF outcome = "delivered" THEN count.failed ELSE count.failed + 1]

FaultyRestored(c) == events[testCall[c].target]   \* nothing restored

\* "Restore original events": what the list was when the call began.
Restored(c) == testCall[c].saved

\* The gather is complete: the statistics of the endpoints that still exist,
\* the events of the endpoint under test, and the answer.
Finish(c) ==
    /\ testCall[c].at = "dispatching"
    /\ \A y \in Endpoints : delivery[c][y] \in Final \cup {"none"}
    /\ stats' = [y \in Endpoints |->
                    IF y \in known /\ delivery[c][y] \in Final
                    THEN Credited(stats[y], delivery[c][y]) ELSE stats[y]]
    /\ events' = [events EXCEPT ![testCall[c].target] = Restored(c)]
    /\ testCall' = [testCall EXCEPT ![c].at = "done"]
    /\ UNCHANGED <<known, deleted, active, delivery, attempts, patches, configured, disturbed>>

WebhookNext ==
    \/ \E x \in Endpoints, subscribed \in Lists : RegisterEndpoint(x, subscribed)
    \/ \E x \in Endpoints, given, on \in BOOLEAN, subscribed \in Lists :
          UpdateEndpoint(x, given, subscribed, on)
    \/ \E x \in Endpoints : DeleteEndpoint(x)
    \/ \E c \in Calls, x \in Endpoints, e \in Events, oversized \in BOOLEAN :
          TestEndpoint(c, x, e, oversized)
    \/ \E c \in Calls, x \in Endpoints, e \in Events : TestNobody(c, x, e)
    \/ \E c \in Calls, y \in Endpoints : BeginPost(c, y)
    \/ \E c \in Calls, y \in Endpoints : Succeed(c, y)
    \/ \E c \in Calls, y \in Endpoints : Fail(c, y)
    \/ \E c \in Calls : Finish(c)

WebhookSpec == WebhookInit /\ [][WebhookNext]_webhookVars

\* The event loop runs what is ready, sleeps end, posts end within the timeout
\* of the HTTP client.
WebhookFairness ==
    /\ \A c \in Calls : WF_webhookVars(Finish(c))
    /\ \A c \in Calls, y \in Endpoints : /\ WF_webhookVars(BeginPost(c, y))
                                         /\ WF_webhookVars(Succeed(c, y) \/ Fail(c, y))

-----------------------------------------------------------------------------
(* Properties. *)

\* "Restore original events": with no test call under way an endpoint has the
\* events its owner asked for last, unless it was patched, or tested again,
\* during a test.
Quiet(x) == \A c \in Calls : ~Holds(c, x)
RestoredUnlessDisturbed ==
    \A x \in known : Quiet(x) => events[x] = configured[x] \/ x \in disturbed

\* Every test call is answered, however many deliveries wait for a slot.
CallsAnswered == \A c \in Calls : testCall[c].at = "dispatching" ~> testCall[c].at = "done"
=============================================================================
