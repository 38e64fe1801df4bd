----------------------------- MODULE SearchBox -----------------------------
(***************************************************************************)
(* EmployeeSearch of src/components/EmployeeSearch/EmployeeSearch.jsx: a   *)
(* query with suggestions fetched 200 ms after the last change             *)
(* (useDebounce), searches with filters, and recent or saved searches that *)
(* replace both.  Suggestions and results are answered in any order.       *)
(***************************************************************************)
EXTENDS Naturals, FiniteSetsExt

CONSTANTS Queries,      \* what may stand in the input
          Short,        \* the query that is too short for suggestions
          Hits,         \* Hits[q]: how many suggestions q has
          FilterSets,   \* what the advanced form may hand over: all its fields
          MaxRequests   \* bound on suggestion requests and searches together

ASSUME SearchAssumption ==
    /\ Short \in Queries /\ Hits \in [Queries -> Nat] /\ Hits[Short] = 0
    /\ FilterSets # {} /\ MaxRequests \in Nat

VARIABLES
    query,        \* the input
    debounced,    \* the query as useDebounce() tells it
    filters,      \* advancedFilters
    suggestions,  \* the query whose suggestions are listed; Short: none are
    index,        \* selectedSuggestionIndex, counted from 1; 0 is none
    dropdown,     \* showSuggestionsDropdown
    suggesting,   \* suggestion requests under way, numbered
    results,      \* the search whose answer is shown, or NoResults
    searched,     \* hasSearched
    searching,    \* isSearching
    searches,     \* searches under way, numbered
    asks,         \* suggestion effects and searches so far
    answered,     \* history: of each, the newest that was answered
    late,         \* history: of each, the list shown is older than one before it
    lastSearch,   \* history: query and filters as the last search left them
    leaked,       \* history: that search took over filters it replaced
    blind         \* history: the index was set, or kept, before its list came

boxVars == <<query, debounced, filters, suggestions, index, dropdown, suggesting, results,
             searched, searching, searches, asks, answered, late, lastSearch, leaked, blind>>

NoFilters == "no filters"
NoResults == [query |-> "nothing"]
Searches == [query : Queries, filters : FilterSets \cup {NoFilters}]
Kinds == {"suggestion", "search"}
Numbered(of) == [id : 1..MaxRequests, of : of]

BoxTypeOK == /\ query \in Queries /\ debounced \in Queries
             /\ filters \in FilterSets \cup {NoFilters}
             /\ suggestions \in Queries /\ index \in Nat /\ dropdown \in BOOLEAN
             /\ suggesting \subseteq Numbered(Queries) /\ searches \subseteq Numbered(Searches)
             /\ results \in Searches \cup {NoResults} /\ lastSearch \in Searches \cup {NoResults}
             /\ searched \in BOOLEAN /\ searching \in BOOLEAN
             /\ asks \in [Kinds -> 0..MaxRequests] /\ answered \in [Kinds -> 0..MaxRequests]
             /\ late \in [Kinds -> BOOLEAN] /\ leaked \in BOOLEAN /\ blind \in BOOLEAN

BoxInit == /\ query = Short /\ debounced = Short
           /\ filters = NoFilters
           /\ suggestions = Short /\ index = 0 /\ dropdown = FALSE
           /\ results = NoResults /\ searched = FALSE /\ searching = FALSE
           /\ suggesting = {} /\ searches = {}
           /\ asks = [k \in Kinds |-> 0] /\ answered = [k \in Kinds |-> 0]
           /\ late = [k \in Kinds |-> FALSE]
           /\ lastSearch = NoResults /\ leaked = FALSE /\ blind = FALSE

inputVars  == <<query, filters>>
listVars   == <<debounced, suggestions, suggesting>>
choiceVars == <<index, dropdown, blind>>
pageVars   == <<results, searched, searching, searches, lastSearch, leaked>>
counters   == <<asks, answered, late>>

Listed == Hits[suggestions]
MayAsk == asks["suggestion"] + asks["search"] < MaxRequests
Waiting == query # debounced \/ suggesting # {}

-----------------------------------------------------------------------------
(* The input and its suggestions *)

FaultyResetIndex == index   \* the highlight stays where it was
ResetIndex == 0

\* handleInputChange()
TypeQuery(q) == /\ query' = q
                /\ index' = ResetIndex
                /\ dropdown' = (dropdown \/ q # Short)
                /\ blind' = FALSE
                /\ UNCHANGED <<filters, listVars, pageVars, counters>>

\* 200 ms without a change; the effect sends the request, or has nothing to ask.
Debounce ==
    /\ query # debounced
    /\ MayAsk
    /\ debounced' = query
    /\ asks' = [asks EXCEPT !["suggestion"] = @ + 1]
    /\ IF query = Short
       THEN /\ suggestions' = Short
            /\ answered' = [answered EXCEPT !["suggestion"] = asks'["suggestion"]]
            /\ late' = [late EXCEPT !["suggestion"] = FALSE]
            /\ UNCHANGED suggesting
       ELSE /\ suggesting' = suggesting \cup {[id |-> asks'["suggestion"], of |-> query]}
            /\ UNCHANGED <<suggestions, answered, late>>
    /\ UNCHANGED <<inputVars, choiceVars, pageVars>>

Answered(kind, r) ==
    /\ late' = [late EXCEPT ![kind] = r.id < answered[kind]]
    /\ answered' = [answered EXCEPT ![kind] = Max({r.id, @})]

\* An answer lists its suggestions and opens the list, whatever the input says
\* by now; an error lists none.
Suggest(r, ok) ==
    /\ suggesting' = suggesting \ {r}
    /\ suggestions' = IF ok THEN r.of ELSE Short
    /\ dropdown' = (dropdown \/ ok)
    /\ Answered("suggestion", r)
    /\ UNCHANGED <<inputVars, debounced, index, blind, pageVars, asks>>

\* ArrowDown, ArrowUp and the mouse.
Highlight(i) ==
    /\ dropdown /\ Listed > 0
    /\ \/ i = index + 1 /\ i <= Listed
       \/ i = index - 1
       \/ i \in 1..Listed
    /\ index' = i
    /\ blind' = (Waiting \/ (blind /\ i > Listed))
    /\ UNCHANGED <<inputVars, listVars, dropdown, pageVars, counters>>

\* Escape or a click elsewhere, and the focus that opens it again
Toggle == /\ dropdown \/ Listed > 0
          /\ dropdown' = ~dropdown
          /\ UNCHANGED <<inputVars, listVars, index, blind, pageVars, counters>>

\* handleSuggestionSelect(): the name of the suggestion is the new query.  The
\* highlight stays, over whatever the list will be.
Select(q) ==
    /\ dropdown /\ Listed > 0
    /\ query' = q
    /\ dropdown' = FALSE
    /\ blind' = (blind \/ index > 0)
    /\ UNCHANGED <<filters, listVars, index, pageVars, counters>>

-----------------------------------------------------------------------------
(* Searches *)

Merged(f) == IF f = NoFilters THEN filters ELSE f

\* executeSearch(), which merges the filters it is given into those of its
\* render; `after' are the filters its caller leaves behind.
Execute(q, f, after) ==
    /\ MayAsk
    /\ asks' = [asks EXCEPT !["search"] = @ + 1]
    /\ searches' = searches \cup
           {[id |-> asks'["search"], of |-> [query |-> q, filters |-> Merged(f)]]}
    /\ searching' = TRUE /\ searched' = TRUE
    /\ dropdown' = FALSE
    /\ filters' = after
    /\ lastSearch' = [query |-> q, filters |-> after]
    /\ leaked' = (f = NoFilters /\ after # filters)
    /\ UNCHANGED <<listVars, index, results, answered, late>>

\* Enter without a highlight, and the button, which waits for an answer
Search == /\ \/ ~searching
             \/ ~(dropdown /\ Listed > 0 /\ index > 0)
          /\ Execute(query, NoFilters, filters)
          /\ UNCHANGED <<query, blind>>

\* handleAdvancedSearch()
SearchFor(f) == /\ Execute(query, f, f)
                /\ UNCHANGED <<query, blind>>

\* handleRecentSearchSelect(), handleSavedSearchSelect()
Repeat(q, f) == /\ Execute(q, f, f)
                /\ query' = q
                /\ blind' = (blind \/ index > 0)

\* An answer, or an error, which empties the page
Answer(r, ok) ==
    /\ searches' = searches \ {r}
    /\ results' = IF ok THEN r.of ELSE NoResults
    /\ searching' = FALSE
    /\ Answered("search", r)
    /\ UNCHANGED <<inputVars, listVars, choiceVars, searched, lastSearch, leaked, asks>>

\* handleAdvancedReset(): the page stays.
ResetFilters == /\ filters' = NoFilters
                /\ UNCHANGED <<query, listVars, choiceVars, pageVars, counters>>

\* handleClearSearch(): nothing under way is stopped, and the highlight stays.
\* Its button is there for a query that is too short for suggestions, too.
ClearSearch == /\ query' = Short
               /\ results' = NoResults /\ searched' = FALSE
               /\ suggestions' = Short
               /\ blind' = (blind \/ index > 0)
               /\ UNCHANGED <<filters, debounced, suggesting, index, dropdown, searching, searches,
                              lastSearch, leaked, counters>>

BoxNext == \/ \E q \in Queries : \/ TypeQuery(q)
                                 \/ q # Short /\ Select(q)
                                 \/ \E f \in FilterSets \cup {NoFilters} : Repeat(q, f)
           \/ \E r \in suggesting, ok \in BOOLEAN : Suggest(r, ok)
           \/ \E i \in 0..(Listed + index) : Highlight(i)
           \/ \E f \in FilterSets : SearchFor(f)
           \/ \E r \in searches, ok \in BOOLEAN : Answer(r, ok)
           \/ Debounce \/ Toggle \/ Search \/ ResetFilters \/ ClearSearch

BoxSpec == BoxInit /\ [][BoxNext]_boxVars

-----------------------------------------------------------------------------
(* Properties. *)

\* With no search under way nothing turns and the page shows what the last
\* search asked for, or an error, unless an older answer came last or a search
\* without filters was run with those it replaced.  The suggestions are those of
\* the input, or none, unless an older answer came last.
BoxShowsWhatIsAsked ==
    /\ searched /\ searches = {} =>
           ~searching /\ (results \in {lastSearch, NoResults} \/ late["search"] \/ leaked)
    /\ ~Waiting => suggestions \in {query, Short} \/ late["suggestion"]

\* Enter takes a suggestion of the list: the highlight lies beyond its end only
\* if it was set while another list was to come, or outlived its query.
EnterTakesAListed == dropdown /\ Listed > 0 => index <= Listed \/ blind
=============================================================================
