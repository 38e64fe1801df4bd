----------------------------- MODULE Directory -----------------------------
(***************************************************************************)
(* EmployeeDirectory of src/components/EmployeeDirectory/                  *)
(* EmployeeDirectory.jsx: what is asked for (filters, order, page), the    *)
(* requests that effects send when it changes, and answers in any order.   *)
(* A change of search or filters is answered by two effects: the request,  *)
(* and the return to page 1, which may cause a second one.                 *)
(***************************************************************************)
EXTENDS Naturals, FiniteSetsExt

CONSTANTS Filters,     \* searches and filters
          Orders,      \* sortBy and sortOrder
          LastPage,    \* last page of any result
          MaxFetches   \* bound on the requests sent

ASSUME DirectoryAssumption ==
    Filters # {} /\ Orders # {} /\ LastPage \in Nat \ {0} /\ MaxFetches \in Nat

VARIABLES
    open,       \* the directory is the active view
    asked,      \* searchQuery, filters and pagination.page
    seen,       \* what asked was when the effects last ran, or NotYet
    requests,   \* requests under way, numbered
    sent,       \* requests sent so far
    shown,      \* the query whose answer is on the page, or what there is instead
    loading,
    newest,     \* history: number of the newest request answered
    overtaken   \* history: the answer on the page is older than one before it

directoryVars == <<open, asked, seen, requests, sent, shown, loading, newest, overtaken>>

PageQueries == [filter : Filters, order : Orders, page : 1..LastPage]
NotYet == [filter |-> "not yet"]
Nobody == [filter |-> "no employees"]

DirectoryTypeOK == /\ open \in BOOLEAN /\ loading \in BOOLEAN /\ overtaken \in BOOLEAN
                   /\ asked \in PageQueries
                   /\ seen \in PageQueries \cup {NotYet}
                   /\ \A r \in requests : r.id \in 1..MaxFetches /\ r.query \in PageQueries
                   /\ sent \in 0..MaxFetches /\ newest \in 0..MaxFetches
                   /\ shown \in PageQueries \cup {NotYet, Nobody}

\* The state a new component starts from.
Fresh == [filter |-> CHOOSE f \in Filters : TRUE, order |-> CHOOSE o \in Orders : TRUE, page |-> 1]

DirectoryInit == /\ open = TRUE
                 /\ asked = Fresh
                 /\ seen = NotYet
                 /\ requests = {}
                 /\ sent = 0
                 /\ shown = NotYet
                 /\ loading = TRUE
                 /\ newest = 0
                 /\ overtaken = FALSE

\* Everything that was rendered has had its effects.
Settled == open /\ seen = asked

FaultyRefetch == seen = NotYet \/ seen.filter # asked.filter   \* pages and orders forgotten
Refetch == seen # asked   \* the dependencies of fetchEmployees

\* The effects of a render: the request for what the render shows, then page 1
\* if the search or the filters changed.
Effects ==
    /\ open
    /\ seen # asked
    /\ sent < MaxFetches
    /\ IF Refetch
       THEN /\ sent' = sent + 1
            /\ requests' = requests \cup {[id |-> sent', query |-> asked]}
            /\ loading' = TRUE
       ELSE UNCHANGED <<requests, sent, loading>>
    /\ seen' = asked
    /\ asked' = IF seen = NotYet \/ seen.filter # asked.filter
                THEN [asked EXCEPT !.page = 1] ELSE asked
    /\ UNCHANGED <<open, shown, newest, overtaken>>

\* The handlers of search, filters, order and page.
Ask(query) == /\ asked' = query
              /\ UNCHANGED <<open, seen, requests, sent, shown, loading, newest, overtaken>>

\* handleSearchChange(), handleFilterChange(), handleClearFilters(): the page
\* is left to the effect.  (Equal filters in a new object send the same request
\* again; that, and the size of a page, is left out.)
ChangeFilters(f, o) == Settled /\ Ask([asked EXCEPT !.filter = f, !.order = o])
\* handlePageChange()
ChangePage(p) == Settled /\ Ask([asked EXCEPT !.page = p])

\* setEmployees() by whichever answer comes; an error empties the page.
AnswerPage(r, ok) ==
    /\ requests' = requests \ {r}
    /\ shown' = IF ok THEN r.query ELSE Nobody
    /\ loading' = FALSE
    /\ overtaken' = (r.id < newest)
    /\ newest' = Max({r.id, newest})
    /\ UNCHANGED <<open, asked, seen, sent>>

\* The other view is chosen: answers find no component.
Leave == /\ open
         /\ open' = FALSE
         /\ requests' = {}
         /\ UNCHANGED <<asked, seen, sent, shown, loading, newest, overtaken>>

Enter == /\ ~open
         /\ open' = TRUE
         /\ asked' = Fresh
         /\ seen' = NotYet
         /\ shown' = NotYet
         /\ loading' = TRUE
         /\ overtaken' = FALSE
         /\ UNCHANGED <<requests, sent, newest>>

DirectoryNext == \/ Effects \/ Leave \/ Enter
                 \/ \E f \in Filters, o \in Orders : ChangeFilters(f, o)
                 \/ \E p \in 1..LastPage : ChangePage(p)
                 \/ \E r \in requests, ok \in BOOLEAN : AnswerPage(r, ok)

DirectorySpec == DirectoryInit /\ [][DirectoryNext]_directoryVars

-----------------------------------------------------------------------------
(* Properties. *)

\* With no request under way nothing turns and the page shows what is asked for,
\* or an error, unless an older answer came last: none is dropped or aborted.
PageShowsWhatIsAsked ==
    Settled /\ requests = {} => ~loading /\ (shown \in {asked, Nobody} \/ overtaken)
=============================================================================
