--------------------------- MODULE DirectoryCache ---------------------------
(***************************************************************************)
(* useEmployeeDirectory of src/hooks/useEmployeeDirectory.js: the list of  *)
(* employees with a cache of answers, each good for two minutes, and one   *)
(* request at a time: a new one aborts the one before.                     *)
(***************************************************************************)
EXTENDS Naturals

CONSTANTS Views,    \* search, filters and order; a new one begins at page 1
          Plain,    \* the view that clearFilters() returns to
          Pages,    \* Pages[v]: how many pages the employees of v fill
          MaxPage

ASSUME HookAssumption == Plain \in Views /\ MaxPage \in Nat \ {0} /\ Pages \in [Views -> 0..MaxPage]

VARIABLES
    viewed,     \* the view, and currentPage
    typing,     \* the view that a debounced search waits with, or NoView
    cached,     \* cached[q]: the answer to q is "none", "fresh" or "old"
    flight,     \* the request under way, or NoList
    aborted,    \* an aborted request has yet to run its finally clause
    turning,
    failed,     \* an error is shown
    listed,     \* the query whose answer is shown, or NoList
    unstopped   \* history: the cache answered while a request was under way

listHookVars == <<viewed, typing, cached, flight, aborted, turning, failed, listed, unstopped>>

ListQueries == [view : Views, page : 1..MaxPage]
NoList == [view |-> "nothing"]
NoView == "no view"

ListTypeOK == /\ viewed \in ListQueries
              /\ typing \in Views \cup {NoView}
              /\ cached \in [ListQueries -> {"none", "fresh", "old"}]
              /\ flight \in ListQueries \cup {NoList} /\ listed \in ListQueries \cup {NoList}
              /\ aborted \in BOOLEAN /\ turning \in BOOLEAN /\ failed \in BOOLEAN
              /\ unstopped \in BOOLEAN

First(v) == [view |-> v, page |-> 1]

\* Both effects of the first render load; the second aborts the first.
ListInit == /\ viewed = First(Plain)
            /\ typing = NoView
            /\ cached = [q \in ListQueries |-> "none"]
            /\ flight = First(Plain) /\ aborted = TRUE
            /\ turning = TRUE /\ failed = FALSE
            /\ listed = NoList
            /\ unstopped = FALSE

\* totalPages, of what is shown
totalPages == IF listed = NoList THEN 0 ELSE Pages[listed.view]

-----------------------------------------------------------------------------
\* loadDirectory(): what the cache holds is shown at once, and a request that is
\* under way goes on; otherwise it is aborted.
Hit(q) == /\ listed' = q
          /\ unstopped' = (flight # NoList)
          /\ UNCHANGED <<cached, flight, aborted, turning, failed>>
Send(q) == /\ flight' = q
           /\ aborted' = (aborted \/ flight # NoList)
           /\ turning' = TRUE /\ failed' = FALSE
           /\ unstopped' = FALSE
           /\ UNCHANGED <<cached, listed>>
Load(q) == IF cached[q] = "fresh" THEN Hit(q) ELSE Send(q)

\* The setters of search, filters and order; the effect loads.
ChangeView(v) == /\ viewed' = First(v)
                 /\ Load(viewed')
                 /\ UNCHANGED typing

\* goToPage(), nextPage(), previousPage()
Turn(p) == /\ p # viewed.page
           /\ p \in 1..totalPages \cup {1} \/ p = viewed.page - 1
           /\ viewed' = [viewed EXCEPT !.page = p]
           /\ Load(viewed')
           /\ UNCHANGED typing

\* debouncedSearch(): only the next one clears the timer.
TypeView(v) == /\ typing' = v
               /\ UNCHANGED <<viewed, cached, flight, aborted, turning, failed, listed, unstopped>>
Debounced == /\ typing # NoView
             /\ viewed' = First(typing)
             /\ Load(viewed')
             /\ typing' = NoView

\* refresh(), past the cache
Refresh == Send(viewed) /\ UNCHANGED <<viewed, typing>>

AnswerList(ok) == /\ flight # NoList
                  /\ cached' = IF ok THEN [cached EXCEPT ![flight] = "fresh"] ELSE cached
                  /\ listed' = IF ok THEN flight ELSE listed
                  /\ failed' = (failed \/ ~ok)
                  /\ flight' = NoList
                  /\ turning' = FALSE
                  /\ UNCHANGED <<viewed, typing, aborted, unstopped>>

\* The finally clause of an aborted request, whose successor may be under way
AbortedEnds == /\ aborted
               /\ aborted' = FALSE
               /\ turning' = FALSE
               /\ UNCHANGED <<viewed, typing, cached, flight, failed, listed, unstopped>>

\* CACHE_TTL passes; clearCache()
Ages(q) == /\ cached[q] = "fresh"
           /\ cached' = [cached EXCEPT ![q] = "old"]
           /\ UNCHANGED <<viewed, typing, flight, aborted, turning, failed, listed, unstopped>>
ClearCache == /\ cached' = [q \in ListQueries |-> "none"]
              /\ UNCHANGED <<viewed, typing, flight, aborted, turning, failed, listed, unstopped>>

ListNext == \/ \E v \in Views : ChangeView(v) \/ TypeView(v)
            \/ \E p \in 1..MaxPage : Turn(p)
            \/ \E ok \in BOOLEAN : AnswerList(ok)
            \/ \E q \in ListQueries : Ages(q)
            \/ Debounced \/ Refresh \/ AbortedEnds \/ ClearCache

ListSpec == ListInit /\ [][ListNext]_listHookVars

-----------------------------------------------------------------------------
(* Properties. *)

\* With no request under way nothing turns and the list shows what is asked for,
\* or an error, unless the cache answered while another request was under way:
\* then nothing aborted that, and its answer replaced the one from the cache.
ListShowsWhatIsAsked ==
    flight = NoList /\ ~aborted => ~turning /\ (listed = viewed \/ failed \/ unstopped)
=============================================================================
