------------------------------ MODULE SearchNews ------------------------------
(***************************************************************************)
(* The Search tab: SearchNewsViewModel and SearchNewsViewController.  The  *)
(* text of the search bar is searched 1.5 s after the last change, unless  *)
(* a load is running then; scrolling to the end loads the next page for    *)
(* whatever the text is at that moment; Cancel empties the list but not    *)
(* the requests in flight.  Alerts hold no state the view model reads and  *)
(* are left out.                                                           *)
(***************************************************************************)
EXTENDS Naturals, Sequences, FiniteSets

CONSTANTS
    Texts,     \* what the search bar may hold
    Empty,     \* the empty text
    Trimmed,   \* trimmingCharacters(in: .whitespacesAndNewlines), a function
    PageSize,  \* the most articles one answer holds (10 in the code)
    MaxPage,   \* bound: the highest page the model asks for
    Tasks      \* bound: requests in flight at once

ASSUME SearchAssumption ==
    /\ Empty \in Texts
    /\ Trimmed \in [Texts -> Texts]
    /\ Trimmed[Empty] = Empty
    /\ \A x \in Texts : Trimmed[Trimmed[x]] = Trimmed[x]
    /\ PageSize \in Nat \ {0}
    /\ MaxPage \in Nat \ {0}

VARIABLES
    searchItems,     \* the articles listed
    queryString,     \* the text of the bar, trimmed when a load starts
    oldQueryString,  \* the text last taken for searched
    canLoadMore,
    isLoading,
    currentPage,     \* the page last asked for
    timer,           \* the delayed perform of searchNews is pending
    requests,        \* the URLSession tasks in flight
    \* History, read by no action:
    overlapped,      \* Cancel left requests in flight, and some still are
    disturbed,       \* since the last search began: a change, a cancel, a
                     \* failure, a dropped search or a load of another text
    fresh            \* one search at most since launch, and no page failed

model == <<searchItems, queryString, oldQueryString, canLoadMore, isLoading,
           currentPage>>
vars == <<model, timer, requests, overlapped, disturbed, fresh>>

Article == [query : Texts, page : 1..MaxPage, pos : 1..PageSize]
Request == [kind : {"search", "loadMore"}, query : Texts, page : 1..MaxPage,
            task : Tasks]

Init ==
    /\ searchItems = <<>>
    /\ queryString = Empty
    /\ oldQueryString = Empty
    /\ canLoadMore = TRUE
    /\ isLoading = FALSE
    /\ currentPage = 1
    /\ timer = FALSE
    /\ requests = {}
    /\ overlapped = FALSE
    /\ disturbed = FALSE
    /\ fresh = TRUE

FreeTasks == Tasks \ {r.task : r \in requests}

-----------------------------------------------------------------------------
(* The search bar.                                                         *)

\* Mutant: a text typed while a search is pending starts none of its own.
UpdateOnce(x) ==
    /\ queryString' = x
    /\ timer' = (x # oldQueryString /\ x # Empty /\ ~timer)
\* updateSearchResults: the pending search is dropped, and begun anew for a text
\* that is neither empty nor the one last searched.
UpdateSearchResults(x) ==
    /\ queryString' = x
    /\ timer' = (x # oldQueryString /\ x # Empty)

\* Typing, or the bar gaining or losing focus with its text unchanged.
Type(x) ==
    /\ UpdateSearchResults(x)
    /\ disturbed' = (disturbed \/ requests # {})
    /\ UNCHANGED <<searchItems, oldQueryString, canLoadMore, isLoading,
                   currentPage, requests, overlapped, fresh>>

\* Cancel: cancelSearchNews, then UIKit empties the bar, which reports it.
Cancel ==
    /\ searchItems' = <<>>
    /\ currentPage' = 0
    /\ isLoading' = FALSE
    /\ canLoadMore' = TRUE
    /\ UpdateSearchResults(Empty)
    /\ overlapped' = (requests # {})
    /\ disturbed' = TRUE
    /\ fresh' = FALSE
    /\ UNCHANGED <<oldQueryString, requests>>

-----------------------------------------------------------------------------
(* Loads.                                                                  *)

\* Mutant: the text is sent as typed.
Untrimmed(x) == x
Query(x) == Trimmed[x]

Send(kind, page, t) ==
    requests' = requests \cup {[kind |-> kind, query |-> Query(queryString),
                                page |-> page, task |-> t]}

\* Mutant: a search does not wait for the load before.
BusyNever == FALSE
Busy == isLoading

\* The timer fires during a load: the search is dropped for good.
SearchDropped ==
    /\ timer
    /\ Busy
    /\ timer' = FALSE
    /\ disturbed' = TRUE
    /\ UNCHANGED <<model, requests, overlapped, fresh>>

\* searchNews with nothing but white space.
SearchBlank ==
    /\ timer
    /\ ~Busy
    /\ Query(queryString) = Empty
    /\ timer' = FALSE
    /\ queryString' = Query(queryString)
    /\ UNCHANGED <<searchItems, oldQueryString, canLoadMore, isLoading,
                   currentPage, requests, overlapped, disturbed, fresh>>

\* searchNews: page 1, while currentPage and canLoadMore stay as they are.
Search(t) ==
    /\ timer
    /\ ~Busy
    /\ Query(queryString) # Empty
    /\ timer' = FALSE
    /\ queryString' = Query(queryString)
    /\ isLoading' = TRUE
    /\ Send("search", 1, t)
    /\ disturbed' = (requests # {})
    /\ fresh' = (fresh /\ searchItems = <<>>)
    /\ UNCHANGED <<searchItems, oldQueryString, canLoadMore, currentPage,
                   overlapped>>

\* scrollViewDidScroll near the end of a list that is not empty.
AtEnd == searchItems # <<>> /\ ~isLoading /\ canLoadMore

LoadMoreBlank ==
    /\ AtEnd
    /\ Query(queryString) = Empty
    /\ queryString' = Query(queryString)
    /\ UNCHANGED <<searchItems, oldQueryString, canLoadMore, isLoading,
                   currentPage, timer, requests, overlapped, disturbed, fresh>>

\* Mutant: the page number is raised by the answer.
PageKept == currentPage
PageNext == currentPage + 1

LoadMore(t) ==
    /\ AtEnd
    /\ Query(queryString) # Empty
    /\ PageNext <= MaxPage
    /\ queryString' = Query(queryString)
    /\ isLoading' = TRUE
    /\ currentPage' = PageNext
    /\ Send("loadMore", PageNext, t)
    /\ disturbed' = (disturbed \/ timer)
    /\ UNCHANGED <<searchItems, oldQueryString, canLoadMore, timer, overlapped,
                   fresh>>

-----------------------------------------------------------------------------
(* Answers.                                                                *)

PageOf(r, n) ==
    [p \in 1..n |-> [query |-> r.query, page |-> r.page, pos |-> p]]

\* Mutant: an answer leaves the flag as it is.
FlagKept == isLoading' = isLoading
FlagLowered == isLoading' = FALSE

Answered(r, kind) ==
    /\ r.kind = kind
    /\ requests' = requests \ {r}
    /\ overlapped' = (overlapped /\ requests # {r})
    /\ FlagLowered
    /\ UNCHANGED <<queryString, currentPage, timer>>

\* Mutant: the results are added to those of the search before.
Appended(r, n) == searchItems \o PageOf(r, n)
Replaced(r, n) == PageOf(r, n)

\* The text searched is taken to be the one in the bar now.
SearchDone(r, n) ==
    /\ Answered(r, "search")
    /\ searchItems' = Replaced(r, n)
    /\ oldQueryString' = queryString
    /\ UNCHANGED <<canLoadMore, disturbed, fresh>>

LoadMoreDone(r, n) ==
    /\ Answered(r, "loadMore")
    /\ searchItems' = searchItems \o PageOf(r, n)
    /\ oldQueryString' = queryString
    /\ UNCHANGED <<canLoadMore, disturbed, fresh>>

LoadMoreEmpty(r) ==
    /\ Answered(r, "loadMore")
    /\ canLoadMore' = FALSE
    /\ oldQueryString' = queryString
    /\ UNCHANGED <<searchItems, disturbed, fresh>>

\* Only an alert; a page asked for is not given back.
LoadFailed(r) ==
    /\ Answered(r, r.kind)
    /\ disturbed' = TRUE
    /\ fresh' = FALSE
    /\ UNCHANGED <<searchItems, oldQueryString, canLoadMore>>

Answer(r) ==
    \/ \E n \in 0..PageSize : SearchDone(r, n)
    \/ \E n \in 1..PageSize : LoadMoreDone(r, n)
    \/ LoadMoreEmpty(r)
    \/ LoadFailed(r)

Next ==
    \/ \E x \in Texts : Type(x)
    \/ Cancel
    \/ SearchDropped
    \/ SearchBlank
    \/ \E t \in FreeTasks : Search(t)
    \/ LoadMoreBlank
    \/ \E t \in FreeTasks : LoadMore(t)
    \/ \E r \in requests : Answer(r)

Spec == Init /\ [][Next]_vars

\* Every URLSession task ends.
FairSpec == Spec /\ \A t \in Tasks :
                WF_vars(\E r \in requests : r.task = t /\ Answer(r))
-----------------------------------------------------------------------------
(* Properties.                                                             *)

\* The page asked for is never 0, though Cancel leaves currentPage 0: pages of
\* the API begin at 1.
TypeOK ==
    /\ searchItems \in Seq(Article)
    /\ queryString \in Texts
    /\ oldQueryString \in Texts
    /\ canLoadMore \in BOOLEAN
    /\ isLoading \in BOOLEAN
    /\ currentPage \in 0..MaxPage
    /\ timer \in BOOLEAN
    /\ requests \subseteq Request
    /\ overlapped \in BOOLEAN
    /\ disturbed \in BOOLEAN
    /\ fresh \in BOOLEAN

\* isLoading, which turns every search and every scroll away, is raised only
\* while a request that will lower it is in flight.
LoadingHasRequest == isLoading => requests # {}

\* Unless Cancel lowered the flag over a request in flight, searches and scrolls
\* never run side by side, and the flag tells whether a request is out.
SingleRequest ==
    ~overlapped =>
        /\ \A r1, r2 \in requests : r1 = r2
        /\ isLoading = (requests # {})

\* At rest, the list answers the text in the bar, if since its search began the
\* bar was left alone while requests were out, nothing failed, nothing was
\* cancelled and no search was dropped.
AtRest == ~timer /\ requests = {} /\ ~disturbed

QuiescentShowsText ==
    AtRest /\ Trimmed[queryString] # Empty =>
        \A k \in DOMAIN searchItems :
            searchItems[k].query = Trimmed[queryString]

\* A text left in the bar has been searched: at rest it is the text last taken
\* for searched.  No order of typing, firing timers and answers loses one, but
\* for the searches dropped, failed or cancelled that AtRest leaves out.
NoTextForgotten ==
    AtRest /\ Trimmed[queryString] # Empty => queryString = oldQueryString

\* The pages of a list begin at 1, and none is missing, out of order or there
\* twice.
InPages(list) ==
    /\ list # <<>> => list[1].page = 1
    /\ \A k \in DOMAIN list \ {1} :
        \/ list[k].page = list[k - 1].page /\ list[k].pos = list[k - 1].pos + 1
        \/ list[k].page = list[k - 1].page + 1 /\ list[k].pos = 1

\* The list of the first search is made of whole pages in their order, until a
\* second search, a Cancel or a failure.
FirstSearchPages == fresh => InPages(searchItems)

\* Every load ends: the Search tab does not turn scrolls and searches away for
\* ever.
LoadingEnds == isLoading ~> ~isLoading
=============================================================================
