--------------------------- MODULE TimeOffRequests --------------------------
(***************************************************************************)
(* src/api/time_off_requests.py: every worker process keeps the requests   *)
(* it accepted and the counter of their ids in its memory, which a restart *)
(* empties.  create_time_off_request() never waits, so it is one step of   *)
(* its worker.  Dates are days, numbered from 0.                           *)
(* accepted is history.                                                    *)
(* The Faulty... operator is a mistake the property must notice.           *)
(***************************************************************************)
EXTENDS Integers, Sequences, FiniteSets, Processes

CONSTANTS Requesters,  \* employees who may ask for time off
          LastDay,     \* days 0..LastDay may be asked for
          MaxRequests  \* bound on the requests accepted and on the restarts

ASSUME RequestAssumption == LastDay \in Nat /\ MaxRequests \in Nat

VARIABLES
    book,      \* _requests: book[w][i] is the request with id 1000 + i
    starts,    \* starts[w]: how often w was started
    accepted   \* history: every request accepted, where and in which start

requestVars == <<book, starts, accepted>>

Request == [employee : Requesters, from : 0..LastDay, to : 0..LastDay]

RequestTypeOK == /\ book \in [Pods -> Seq(Request)]
                 /\ starts \in [Pods -> 1..(MaxRequests + 1)]
                 /\ accepted \subseteq [request : Request, worker : Pods, start : Nat, id : Nat]

RequestInit == /\ book = [w \in Pods |-> <<>>]
               /\ starts = [w \in Pods |-> 1]
               /\ accepted = {}

-----------------------------------------------------------------------------
FaultyOverlap(r, from, to) == from < r.to /\ to > r.from

Overlap(r, from, to) == from <= r.to /\ to >= r.from

\* detect_conflicts(): drafts count too; what other workers hold does not.
Blocked(w, e, from, to) ==
    \E i \in DOMAIN book[w] : book[w][i].employee = e /\ Overlap(book[w][i], from, to)

\* create_time_off_request() for oneself (for others it raises: UserRole.HR).
\* The balance is a constant and only warned about, so the days are not counted.
CreateRequest(w, e, from, to) ==
    /\ Cardinality(accepted) < MaxRequests
    /\ from <= to
    /\ ~Blocked(w, e, from, to)
    /\ LET r == [employee |-> e, from |-> from, to |-> to]
       IN  /\ book' = [book EXCEPT ![w] = Append(@, r)]
           /\ accepted' = accepted \cup {[request |-> r, worker |-> w, start |-> starts[w],
                                          id |-> 1001 + Len(book[w])]}
    /\ UNCHANGED starts

RestartBook(w) ==
    /\ starts[w] <= MaxRequests
    /\ book' = [book EXCEPT ![w] = <<>>]
    /\ starts' = [starts EXCEPT ![w] = @ + 1]
    /\ UNCHANGED accepted

RequestNext == \E w \in Pods :
                   \/ \E e \in Requesters, from, to \in 0..LastDay : CreateRequest(w, e, from, to)
                   \/ RestartBook(w)

RequestSpec == RequestInit /\ [][RequestNext]_requestVars

-----------------------------------------------------------------------------
Share(a, b) == a.employee = b.employee /\ (a.from..a.to) \cap (b.from..b.to) # {}

\* Two requests of one employee that share a day, or that were given the same
\* id, went to different workers, or a restart forgot the first of them.
BookedOnce ==
    \A a, b \in accepted :
        (/\ a # b
         /\ a.id = b.id \/ Share(a.request, b.request))
        => a.worker # b.worker \/ a.start # b.start
=============================================================================
