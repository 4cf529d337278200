--------------------------- MODULE SearchNewsProofs ---------------------------
(* Theorems about SearchNews, for every set of texts and every bound.      *)
EXTENDS SearchNews, TLAPS

-----------------------------------------------------------------------------
(* What the operators of the model return.                                 *)

\* The page after the one last asked for, if it is within the bound.
LEMMA PageNextShape ==
    ASSUME TypeOK, PageNext <= MaxPage
    PROVE  PageNext \in 1..MaxPage
    BY SearchAssumption DEF TypeOK, PageNext

\* What a handler sends is one typed request for the trimmed text.
LEMMA SendShape ==
    ASSUME TypeOK, NEW kind \in {"search", "loadMore"}, NEW page \in 1..MaxPage,
           NEW t \in Tasks, Send(kind, page, t)
    PROVE  \E q \in Request :
              /\ requests' = requests \cup {q}
              /\ q.kind = kind
              /\ q.query = Trimmed[queryString]
              /\ q.page = page
<1> DEFINE q == [kind |-> kind, query |-> Query(queryString), page |-> page,
                 task |-> t]
<1>1. Query(queryString) = Trimmed[queryString]
      /\ Trimmed[queryString] \in Texts
    BY SearchAssumption DEF Query, TypeOK
<1>2. q \in Request
    BY <1>1 DEF Request
<1>3. requests' = requests \cup {q}
    BY DEF Send
<1>4. q.kind = kind /\ q.query = Trimmed[queryString] /\ q.page = page
    BY <1>1
<1> QED BY <1>2, <1>3, <1>4

\* The articles of an answer, one after the other.
LEMMA PageShape ==
    ASSUME NEW r \in Request, NEW n \in 0..PageSize
    PROVE  /\ PageOf(r, n) \in Seq(Article)
           /\ Len(PageOf(r, n)) = n
           /\ \A k \in 1..n :
                 /\ PageOf(r, n)[k].query = r.query
                 /\ PageOf(r, n)[k].page = r.page
                 /\ PageOf(r, n)[k].pos = k
<1>1. n \in Nat /\ 1..n \subseteq 1..PageSize
    BY SearchAssumption
<1>2. PageOf(r, n) \in [1..n -> Article]
    BY <1>1 DEF PageOf, Request, Article
<1> QED BY <1>1, <1>2 DEF PageOf

-----------------------------------------------------------------------------
(* Type correctness.  TypeOK is inductive by itself.                       *)

LEMMA InitType == Init => TypeOK
<1>1. <<>> \in Seq(Article) /\ 1 \in 0..MaxPage /\ Empty \in Texts
    BY SearchAssumption
<1> QED BY <1>1 DEF Init, TypeOK

LEMMA AnswerType ==
    ASSUME TypeOK, NEW r \in requests, Answer(r)
    PROVE  TypeOK'
<1>1. r \in Request /\ requests \ {r} \subseteq Request
    BY DEF TypeOK
<1>2. ASSUME NEW n \in 0..PageSize, SearchDone(r, n) PROVE TypeOK'
    <2>1. Replaced(r, n) \in Seq(Article)
        BY <1>1, PageShape DEF Replaced
    <2> QED BY <1>1, <1>2, <2>1 DEF SearchDone, Answered, FlagLowered, TypeOK
<1>3. ASSUME NEW n \in 1..PageSize, LoadMoreDone(r, n) PROVE TypeOK'
    <2>1. n \in 0..PageSize
        OBVIOUS
    <2>2. searchItems \o PageOf(r, n) \in Seq(Article)
        BY <1>1, <2>1, PageShape DEF TypeOK
    <2> QED BY <1>1, <1>3, <2>2 DEF LoadMoreDone, Answered, FlagLowered, TypeOK
<1>4. CASE LoadMoreEmpty(r)
    BY <1>1, <1>4 DEF LoadMoreEmpty, Answered, FlagLowered, TypeOK
<1>5. CASE LoadFailed(r)
    BY <1>1, <1>5 DEF LoadFailed, Answered, FlagLowered, TypeOK
<1> QED BY <1>2, <1>3, <1>4, <1>5 DEF Answer

LEMMA TypeStep == TypeOK /\ [Next]_vars => TypeOK'
<1> SUFFICES ASSUME TypeOK, [Next]_vars PROVE TypeOK'
    OBVIOUS
<1>1. ASSUME NEW x \in Texts, Type(x) PROVE TypeOK'
    BY <1>1 DEF Type, UpdateSearchResults, TypeOK
<1>2. CASE Cancel
    <2>1. 0 \in 0..MaxPage /\ <<>> \in Seq(Article) /\ Empty \in Texts
        BY SearchAssumption
    <2> QED BY <1>2, <2>1 DEF Cancel, UpdateSearchResults, TypeOK
<1>3. CASE SearchDropped
    BY <1>3 DEF SearchDropped, model, TypeOK
<1>4. CASE SearchBlank
    BY <1>4, SearchAssumption DEF SearchBlank, Query, TypeOK
<1>5. ASSUME NEW t \in FreeTasks, Search(t) PROVE TypeOK'
    <2>1. 1 \in 1..MaxPage /\ t \in Tasks
        BY SearchAssumption DEF FreeTasks
    <2>2. requests' \subseteq Request
        BY <1>5, <2>1, SendShape DEF Search, TypeOK
    <2> QED BY <1>5, <2>2, SearchAssumption DEF Search, Query, TypeOK
<1>6. CASE LoadMoreBlank
    BY <1>6, SearchAssumption DEF LoadMoreBlank, Query, TypeOK
<1>7. ASSUME NEW t \in FreeTasks, LoadMore(t) PROVE TypeOK'
    <2>1. PageNext \in 1..MaxPage /\ t \in Tasks
        BY <1>7, PageNextShape DEF LoadMore, FreeTasks
    <2>2. requests' \subseteq Request
        BY <1>7, <2>1, SendShape DEF LoadMore, TypeOK
    <2> QED BY <1>7, <2>1, <2>2, SearchAssumption DEF LoadMore, Query, TypeOK
<1>8. ASSUME NEW r \in requests, Answer(r) PROVE TypeOK'
    BY <1>8, AnswerType
<1>9. CASE UNCHANGED vars
    BY <1>9 DEF vars, model, TypeOK
<1> QED BY <1>1, <1>2, <1>3, <1>4, <1>5, <1>6, <1>7, <1>8, <1>9 DEF Next

\* Type correctness: whatever is typed, cancelled and answered, no page 0 and
\* no page beyond the bound is ever asked for.
THEOREM SearchTypeCorrect == Spec => []TypeOK
    BY InitType, TypeStep, PTL DEF Spec
-----------------------------------------------------------------------------
(* One request at a time, and the flag that says so.                       *)

\* A request goes with an answer, and the flag with it.
LEMMA AnsweredShape ==
    ASSUME NEW r \in requests, Answer(r)
    PROVE  /\ requests' = requests \ {r}
           /\ overlapped' = (overlapped /\ requests # {r})
           /\ isLoading' = FALSE
           /\ queryString' = queryString
           /\ currentPage' = currentPage
           /\ timer' = timer
    BY DEF Answer, SearchDone, LoadMoreDone, LoadMoreEmpty, LoadFailed, Answered,
           FlagLowered

LEMMA LoadingStep ==
    TypeOK /\ LoadingHasRequest /\ [Next]_vars => LoadingHasRequest'
<1> SUFFICES ASSUME TypeOK, LoadingHasRequest, [Next]_vars
             PROVE  LoadingHasRequest'
    OBVIOUS
<1>1. CASE \/ \E x \in Texts : Type(x)
           \/ SearchDropped \/ SearchBlank \/ LoadMoreBlank \/ UNCHANGED vars
    BY <1>1 DEF Type, SearchDropped, SearchBlank, LoadMoreBlank, vars, model,
                LoadingHasRequest
<1>2. CASE Cancel
    BY <1>2 DEF Cancel, LoadingHasRequest
<1>3. CASE \/ \E t \in FreeTasks : Search(t)
           \/ \E t \in FreeTasks : LoadMore(t)
    BY <1>3 DEF Search, LoadMore, Send, LoadingHasRequest
<1>4. ASSUME NEW r \in requests, Answer(r) PROVE LoadingHasRequest'
    BY <1>4, AnsweredShape DEF LoadingHasRequest
<1> QED BY <1>1, <1>2, <1>3, <1>4 DEF Next

\* The flag that turns searches and scrolls away is never raised without a
\* request whose answer lowers it.
THEOREM SearchLoadingIsBacked == Spec => []LoadingHasRequest
<1>1. Init => LoadingHasRequest
    BY DEF Init, LoadingHasRequest
<1> QED BY <1>1, InitType, TypeStep, LoadingStep, PTL DEF Spec

LEMMA SingleStep == SingleRequest /\ TypeOK /\ [Next]_vars => SingleRequest'
<1> SUFFICES ASSUME SingleRequest, TypeOK, [Next]_vars, ~overlapped'
             PROVE  /\ \A r1, r2 \in requests' : r1 = r2
                    /\ isLoading' = (requests' # {})
    BY DEF SingleRequest
<1>1. CASE \/ \E x \in Texts : Type(x)
           \/ SearchDropped \/ SearchBlank \/ LoadMoreBlank \/ UNCHANGED vars
    BY <1>1 DEF Type, SearchDropped, SearchBlank, LoadMoreBlank, vars, model,
                SingleRequest
<1>2. CASE Cancel
    BY <1>2 DEF Cancel
<1>3. ASSUME NEW t \in FreeTasks, Search(t) \/ LoadMore(t)
      PROVE  /\ \A r1, r2 \in requests' : r1 = r2
             /\ isLoading' = (requests' # {})
    <2>1. ~isLoading /\ ~overlapped /\ isLoading' = TRUE
        BY <1>3 DEF Search, LoadMore, Busy, AtEnd
    <2>2. requests = {}
        BY <2>1 DEF SingleRequest
    <2>3. PICK q : requests' = requests \cup {q}
        BY <1>3 DEF Search, LoadMore, Send
    <2> QED BY <2>1, <2>2, <2>3
<1>4. ASSUME NEW r \in requests, Answer(r)
      PROVE  /\ \A r1, r2 \in requests' : r1 = r2
             /\ isLoading' = (requests' # {})
    <2>1. /\ requests' = requests \ {r} /\ isLoading' = FALSE
          /\ ~overlapped \/ requests = {r}
        BY <1>4, AnsweredShape
    <2>2. requests = {r}
        BY <2>1 DEF SingleRequest
    <2> QED BY <2>1, <2>2
<1> QED BY <1>1, <1>2, <1>3, <1>4 DEF Next

\* Searches and scrolls take turns: as long as Cancel did not lower the flag
\* over a request in flight, there is one request at most.
THEOREM OneSearchAtATime == Spec => []SingleRequest
<1>1. Init => SingleRequest
    BY DEF Init, SingleRequest
<1> QED BY <1>1, InitType, TypeStep, SingleStep, PTL DEF Spec
-----------------------------------------------------------------------------
(* At rest the list answers the bar.  What holds while requests are out:   *)
(* an undisturbed request is for the text in the bar, and a list no search *)
(* is about to replace answers the text last taken for searched.           *)

ListFor(x) == \A k \in DOMAIN searchItems : searchItems[k].query = x

Searching == \E r \in requests : r.kind = "search"

Quiet ==
    /\ ~overlapped
    /\ requests # {} => ~timer
    /\ \A r \in requests : r.query = Trimmed[queryString]
    /\ ~Searching => ListFor(Trimmed[oldQueryString])
    /\ ~Searching /\ ~timer /\ Trimmed[queryString] # Empty =>
           ListFor(Trimmed[queryString])

QuietInv ==
    /\ \A r \in requests : r.query # Empty
    /\ overlapped => requests # {}
    /\ ~disturbed => Quiet

LEMMA InitQuiet == Init => QuietInv
<1> SUFFICES ASSUME Init PROVE QuietInv
    OBVIOUS
<1>1. DOMAIN searchItems = {}
    BY DEF Init
<1> QED BY <1>1 DEF Init, QuietInv, Quiet, ListFor, Searching

\* Trimming what was trimmed changes nothing.
LEMMA TrimTwice ==
    ASSUME TypeOK
    PROVE  /\ Trimmed[queryString] \in Texts
           /\ Trimmed[Trimmed[queryString]] = Trimmed[queryString]
           /\ Query(queryString) = Trimmed[queryString]
           /\ Trimmed[Empty] = Empty
    BY SearchAssumption DEF TypeOK, Query

\* Typing, with no request out.
LEMMA TypeQuiet ==
    ASSUME TypeOK, QuietInv, NEW x \in Texts, Type(x)
    PROVE  QuietInv'
<1>1. /\ requests' = requests /\ overlapped' = overlapped
      /\ searchItems' = searchItems /\ oldQueryString' = oldQueryString
      /\ queryString' = x /\ timer' = (x # oldQueryString /\ x # Empty)
      /\ disturbed' = (disturbed \/ requests # {})
    BY DEF Type, UpdateSearchResults
<1>2. ASSUME ~disturbed' PROVE Quiet'
    <2>1. requests = {} /\ Quiet
        BY <1>1, <1>2 DEF QuietInv
    <2>2. ListFor(Trimmed[oldQueryString])
        BY <2>1 DEF Quiet, Searching
    <2>3. Trimmed[Empty] = Empty
        BY TrimTwice
    <2> QED BY <1>1, <2>1, <2>2, <2>3 DEF Quiet, ListFor, Searching
<1> QED BY <1>1, <1>2 DEF QuietInv

\* A load with a blank text.
LEMMA BlankQuiet ==
    ASSUME TypeOK, SingleRequest, QuietInv, SearchBlank \/ LoadMoreBlank
    PROVE  QuietInv'
<1>1. /\ requests' = requests /\ overlapped' = overlapped
      /\ searchItems' = searchItems /\ oldQueryString' = oldQueryString
      /\ queryString' = Empty /\ disturbed' = disturbed
      /\ timer' = FALSE \/ timer' = timer
      /\ ~isLoading
    BY DEF SearchBlank, LoadMoreBlank, Busy, AtEnd
<1>2. ASSUME ~disturbed' PROVE Quiet'
    <2>1. Quiet
        BY <1>1, <1>2 DEF QuietInv
    <2>2. requests = {}
        BY <1>1, <2>1 DEF SingleRequest, Quiet
    <2>3. ListFor(Trimmed[oldQueryString])
        BY <2>1, <2>2 DEF Quiet, Searching
    <2>4. Trimmed[Empty] = Empty
        BY TrimTwice
    <2> QED BY <1>1, <2>1, <2>2, <2>3, <2>4 DEF Quiet, ListFor, Searching
<1> QED BY <1>1, <1>2 DEF QuietInv

\* A search, after which all the old list has to answer is forgotten.
LEMMA SearchQuiet ==
    ASSUME TypeOK, QuietInv, NEW t \in FreeTasks, Search(t)
    PROVE  QuietInv'
<1>1. /\ overlapped' = overlapped
      /\ queryString' = Trimmed[queryString]
      /\ Trimmed[queryString] # Empty
      /\ disturbed' = (requests # {})
      /\ timer' = FALSE
    BY TrimTwice DEF Search
<1>2. PICK q \in Request : /\ requests' = requests \cup {q}
                           /\ q.kind = "search"
                           /\ q.query = Trimmed[queryString]
    BY SendShape, SearchAssumption DEF Search, FreeTasks
<1>3. ASSUME ~disturbed' PROVE Quiet'
    <2>1. requests' = {q} /\ ~overlapped'
        BY <1>1, <1>2, <1>3 DEF QuietInv
    <2>2. Searching'
        BY <1>2, <2>1 DEF Searching
    <2>3. \A r \in requests' : r.query = Trimmed[queryString']
        BY <1>1, <1>2, <2>1, TrimTwice
    <2> QED BY <1>1, <2>1, <2>2, <2>3 DEF Quiet
<1>4. \A r \in requests' : r.query # Empty
    BY <1>1, <1>2 DEF QuietInv
<1>5. requests' # {}
    BY <1>2
<1> QED BY <1>3, <1>4, <1>5 DEF QuietInv

LEMMA LoadMoreQuiet ==
    ASSUME TypeOK, SingleRequest, QuietInv, NEW t \in FreeTasks, LoadMore(t)
    PROVE  QuietInv'
<1>1. /\ overlapped' = overlapped /\ ~isLoading
      /\ queryString' = Trimmed[queryString]
      /\ Trimmed[queryString] # Empty
      /\ disturbed' = (disturbed \/ timer)
      /\ timer' = timer
      /\ searchItems' = searchItems /\ oldQueryString' = oldQueryString
    BY TrimTwice DEF LoadMore, AtEnd
<1>2. PICK q \in Request : /\ requests' = requests \cup {q}
                           /\ q.kind = "loadMore"
                           /\ q.query = Trimmed[queryString]
    <2>1. PageNext \in 1..MaxPage
        BY PageNextShape DEF LoadMore
    <2> QED BY <2>1, SendShape DEF LoadMore, FreeTasks
<1>3. ASSUME ~disturbed' PROVE Quiet'
    <2>1. Quiet /\ ~timer
        BY <1>1, <1>3 DEF QuietInv
    <2>2. requests = {}
        BY <1>1, <2>1 DEF SingleRequest, Quiet
    <2>3. ListFor(Trimmed[oldQueryString]) /\ ListFor(Trimmed[queryString])
        BY <1>1, <2>1, <2>2 DEF Quiet, Searching
    <2>4. \A r \in requests' : r.query = Trimmed[queryString']
        BY <1>1, <1>2, <2>2, TrimTwice
    <2>5. Trimmed[queryString'] = Trimmed[queryString]
        BY <1>1, TrimTwice
    <2> QED BY <1>1, <2>1, <2>3, <2>4, <2>5 DEF Quiet, ListFor
<1>4. \A r \in requests' : r.query # Empty
    BY <1>1, <1>2 DEF QuietInv
<1>5. requests' # {}
    BY <1>2
<1> QED BY <1>3, <1>4, <1>5 DEF QuietInv

\* An answer to an undisturbed request is the last one out.
LEMMA AnswerQuiet ==
    ASSUME TypeOK, SingleRequest, QuietInv, NEW r \in requests, Answer(r)
    PROVE  QuietInv'
<1>1. /\ requests' = requests \ {r}
      /\ overlapped' = (overlapped /\ requests # {r})
      /\ queryString' = queryString /\ timer' = timer
    BY AnsweredShape
<1>2. \A q \in requests' : q.query # Empty
    BY <1>1 DEF QuietInv
<1>3. overlapped' => requests' # {}
    BY <1>1
<1>4. ASSUME ~disturbed' PROVE Quiet'
    <2>1. disturbed' = disturbed /\ ~LoadFailed(r)
        BY <1>4 DEF Answer, SearchDone, LoadMoreDone, LoadMoreEmpty, LoadFailed
    <2>2. Quiet
        BY <1>4, <2>1 DEF QuietInv
    <2>3. requests = {r} /\ requests' = {}
        BY <1>1, <2>2 DEF SingleRequest, Quiet
    <2>4. r \in Request /\ r.query = Trimmed[queryString] /\ ~timer
          /\ r.query # Empty
        BY <2>2, <2>3 DEF Quiet, QuietInv, TypeOK
    <2>5. oldQueryString' = queryString
        BY <2>1 DEF Answer, SearchDone, LoadMoreDone, LoadMoreEmpty
    <2>6. ListFor(Trimmed[queryString])'
        <3>1. ASSUME NEW n \in 0..PageSize, SearchDone(r, n)
              PROVE  ListFor(Trimmed[queryString])'
            <4>1. searchItems' = PageOf(r, n)
                BY <3>1 DEF SearchDone, Replaced
            <4> QED BY <1>1, <2>4, <4>1, PageShape DEF ListFor
        <3>2. ASSUME r.kind = "loadMore"
              PROVE  ListFor(Trimmed[queryString])
            BY <2>2, <2>3, <2>4, <3>2 DEF Quiet, Searching
        <3>3. ASSUME NEW n \in 1..PageSize, LoadMoreDone(r, n)
              PROVE  ListFor(Trimmed[queryString])'
            <4>1. r.kind = "loadMore" /\ searchItems' = searchItems \o PageOf(r, n)
                BY <3>3 DEF LoadMoreDone, Answered
            <4>2. n \in 0..PageSize
                OBVIOUS
            <4>3. searchItems \in Seq(Article) /\ PageOf(r, n) \in Seq(Article)
                BY <2>4, <4>2, PageShape DEF TypeOK
            <4>4. ASSUME NEW k \in DOMAIN (searchItems \o PageOf(r, n))
                  PROVE  (searchItems \o PageOf(r, n))[k].query
                            = Trimmed[queryString]
                <5>1. CASE k \in DOMAIN searchItems
                    <6>1. (searchItems \o PageOf(r, n))[k] = searchItems[k]
                        BY <4>3, <5>1
                    <6> QED BY <3>2, <4>1, <5>1, <6>1 DEF ListFor
                <5>2. CASE k \notin DOMAIN searchItems
                    <6>1. k - Len(searchItems) \in 1..n
                          /\ (searchItems \o PageOf(r, n))[k]
                                = PageOf(r, n)[k - Len(searchItems)]
                        BY <2>4, <4>2, <4>3, <5>2, PageShape
                    <6> QED BY <2>4, <4>2, <6>1, PageShape
                <5> QED BY <5>1, <5>2
            <4> QED BY <1>1, <4>1, <4>4 DEF ListFor
        <3>4. CASE LoadMoreEmpty(r)
            <4>1. r.kind = "loadMore" /\ searchItems' = searchItems
                BY <3>4 DEF LoadMoreEmpty, Answered
            <4> QED BY <1>1, <3>2, <4>1 DEF ListFor
        <3> QED BY <2>1, <3>1, <3>3, <3>4 DEF Answer
    <2>7. ~overlapped'
        BY <1>1, <2>2 DEF Quiet
    <2> QED BY <1>1, <2>3, <2>5, <2>6, <2>7 DEF Quiet, ListFor
<1> QED BY <1>2, <1>3, <1>4 DEF QuietInv

LEMMA QuietStep ==
    TypeOK /\ SingleRequest /\ QuietInv /\ [Next]_vars => QuietInv'
<1> SUFFICES ASSUME TypeOK, SingleRequest, QuietInv, [Next]_vars
             PROVE  QuietInv'
    OBVIOUS
<1>1. CASE Cancel
    BY <1>1 DEF Cancel, QuietInv
<1>2. CASE SearchDropped
    BY <1>2 DEF SearchDropped, QuietInv
<1>3. CASE UNCHANGED vars
    BY <1>3 DEF vars, model, QuietInv, Quiet, ListFor, Searching
<1> QED BY <1>1, <1>2, <1>3, TypeQuiet, BlankQuiet, SearchQuiet, LoadMoreQuiet,
           AnswerQuiet DEF Next

\* Left alone while its requests are out, the Search tab ends up showing
\* results for the text in the bar and no other.
THEOREM ListAnswersTheBar == Spec => []QuiescentShowsText
<1>1. QuietInv => QuiescentShowsText
    BY DEF QuietInv, Quiet, Searching, ListFor, QuiescentShowsText, AtRest
<1>2. Init => SingleRequest
    BY DEF Init, SingleRequest
<1> QED BY <1>1, <1>2, InitType, InitQuiet, TypeStep, SingleStep, QuietStep,
           PTL DEF Spec
-----------------------------------------------------------------------------
(* No text is forgotten.  The invariant is inductive by itself: a text that *)
(* starts no timer is empty or the one last searched, and a request out    *)
(* leaves, when it is answered, the text of the bar as the one searched.   *)

LEMMA ForgottenStep ==
    TypeOK /\ NoTextForgotten /\ [Next]_vars => NoTextForgotten'
<1> SUFFICES ASSUME TypeOK, NoTextForgotten, [Next]_vars,
                    ~timer', requests' = {}, ~disturbed',
                    Trimmed[queryString'] # Empty
             PROVE  queryString' = oldQueryString'
    BY DEF NoTextForgotten, AtRest
<1>1. ASSUME NEW x \in Texts, Type(x) PROVE queryString' = oldQueryString'
    BY <1>1, TrimTwice DEF Type, UpdateSearchResults
<1>2. CASE Cancel \/ SearchDropped
    BY <1>2 DEF Cancel, SearchDropped
<1>3. CASE SearchBlank \/ LoadMoreBlank
    BY <1>3, TrimTwice DEF SearchBlank, LoadMoreBlank
<1>4. CASE \/ \E t \in FreeTasks : Search(t)
           \/ \E t \in FreeTasks : LoadMore(t)
    BY <1>4 DEF Search, LoadMore, Send
<1>5. ASSUME NEW r \in requests, Answer(r)
      PROVE  queryString' = oldQueryString'
    <2>1. ~LoadFailed(r)
        BY DEF LoadFailed
    <2>2. oldQueryString' = queryString
        BY <1>5, <2>1 DEF Answer, SearchDone, LoadMoreDone, LoadMoreEmpty
    <2> QED BY <1>5, <2>2, AnsweredShape
<1>6. CASE UNCHANGED vars
    BY <1>6 DEF vars, model, NoTextForgotten, AtRest
<1> QED BY <1>1, <1>2, <1>3, <1>4, <1>5, <1>6 DEF Next

\* No order of typing, firing timers and answers loses a text: at rest, what
\* the bar holds is what was last searched.
THEOREM NoTextIsForgotten == Spec => []NoTextForgotten
<1>1. Init => NoTextForgotten
    BY DEF Init, NoTextForgotten
<1> QED BY <1>1, InitType, TypeStep, ForgottenStep, PTL DEF Spec
-----------------------------------------------------------------------------
(* The pages of the first search.  currentPage is the page of the request  *)
(* in flight and, while another can be loaded, the last page listed.       *)

LastPage == searchItems[Len(searchItems)].page

Paged ==
    /\ ~overlapped
    /\ InPages(searchItems)
    /\ searchItems = <<>> => currentPage = 1
    /\ \A r \in requests :
          IF r.kind = "search"
          THEN searchItems = <<>> /\ r.page = 1
          ELSE /\ searchItems # <<>>
               /\ r.page = currentPage
               /\ r.page = LastPage + 1
    /\ requests = {} /\ canLoadMore /\ searchItems # <<>> =>
           LastPage = currentPage

PagedInv == fresh => Paged

\* One answer is a page of the list.
LEMMA OnePage ==
    ASSUME NEW r \in Request, NEW n \in 0..PageSize, r.page = 1
    PROVE  /\ InPages(PageOf(r, n))
           /\ n # 0 => PageOf(r, n)[Len(PageOf(r, n))].page = 1
<1> DEFINE p == PageOf(r, n)
<1>1. /\ p \in Seq(Article) /\ Len(p) = n /\ DOMAIN p = 1..n /\ n \in Nat
      /\ \A k \in 1..n : p[k].page = 1 /\ p[k].pos = k
    BY PageShape, SearchAssumption
<1> HIDE DEF p
<1>2. p # <<>> => p[1].page = 1
    BY <1>1
<1>3. ASSUME NEW k \in DOMAIN p \ {1}
      PROVE  p[k].page = p[k - 1].page /\ p[k].pos = p[k - 1].pos + 1
    <2>1. k \in 1..n /\ k - 1 \in 1..n
        BY <1>1, <1>3
    <2> QED BY <1>1, <2>1
<1>4. InPages(p)
    BY <1>2, <1>3 DEF InPages
<1> QED BY <1>1, <1>4 DEF p

\* The next page at the end of a list that is in pages keeps it so.
LEMMA NextPage ==
    ASSUME NEW list \in Seq(Article), list # <<>>, InPages(list),
           NEW r \in Request, NEW n \in 1..PageSize,
           r.page = list[Len(list)].page + 1
    PROVE  /\ InPages(list \o PageOf(r, n))
           /\ list \o PageOf(r, n) # <<>>
           /\ (list \o PageOf(r, n))[Len(list \o PageOf(r, n))].page = r.page
<1> DEFINE p == PageOf(r, n)
           l == list \o p
<1>1. n \in 0..PageSize /\ n \in Nat \ {0}
    BY SearchAssumption
<1>2. /\ p \in Seq(Article) /\ Len(p) = n
      /\ \A k \in 1..n : p[k].page = r.page /\ p[k].pos = k
    BY <1>1, PageShape
<1> HIDE DEF p
<1>3. /\ Len(list) \in Nat \ {0} /\ DOMAIN list = 1..Len(list)
      /\ Len(l) = Len(list) + n /\ DOMAIN l = 1..(Len(list) + n)
      /\ \A k \in 1..Len(list) : l[k] = list[k]
      /\ \A k \in 1..n : l[Len(list) + k] = p[k]
    BY <1>1, <1>2
<1> HIDE DEF l
<1>4. l[1].page = 1
    BY <1>3 DEF InPages
<1>5. ASSUME NEW k \in DOMAIN l \ {1}
      PROVE  \/ l[k].page = l[k - 1].page /\ l[k].pos = l[k - 1].pos + 1
             \/ l[k].page = l[k - 1].page + 1 /\ l[k].pos = 1
    <2>1. CASE k <= Len(list)
        <3>1. k \in DOMAIN list \ {1} /\ k - 1 \in 1..Len(list)
            BY <1>3, <1>5, <2>1
        <3>2. l[k] = list[k] /\ l[k - 1] = list[k - 1]
            BY <1>3, <3>1
        <3> QED BY <3>1, <3>2 DEF InPages
    <2>2. CASE k = Len(list) + 1
        <3>1. l[k] = p[1] /\ l[k - 1] = list[Len(list)]
            BY <1>1, <1>3, <2>2
        <3> QED BY <1>1, <1>2, <3>1
    <2>3. CASE k > Len(list) + 1
        <3> DEFINE j == k - Len(list)
        <3>1. j \in 1..n /\ j - 1 \in 1..n
              /\ k = Len(list) + j /\ k - 1 = Len(list) + (j - 1)
            BY <1>1, <1>3, <1>5, <2>3
        <3> HIDE DEF j
        <3>2. l[k] = p[j] /\ l[k - 1] = p[j - 1]
            BY <1>3, <3>1
        <3>3. l[k].page = r.page /\ l[k - 1].page = r.page
              /\ l[k].pos = j /\ l[k - 1].pos = j - 1
            BY <1>2, <3>1, <3>2
        <3> QED BY <3>1, <3>3
    <2> QED BY <1>3, <1>5, <2>1, <2>2, <2>3
<1>6. InPages(l)
    BY <1>4, <1>5 DEF InPages
<1>7. l # <<>> /\ l[Len(l)].page = r.page
    BY <1>1, <1>2, <1>3
<1> QED BY <1>6, <1>7 DEF l, p

LEMMA InitPaged == Init => PagedInv
    BY DEF Init, PagedInv, Paged, InPages

LEMMA AnswerPaged ==
    ASSUME TypeOK, SingleRequest, PagedInv, NEW r \in requests, Answer(r), fresh'
    PROVE  Paged'
<1>1. fresh /\ ~LoadFailed(r)
    BY DEF Answer, SearchDone, LoadMoreDone, LoadMoreEmpty, LoadFailed
<1>2. Paged
    BY <1>1 DEF PagedInv
<1>3. requests = {r} /\ requests' = {} /\ ~overlapped' /\ r \in Request
      /\ currentPage' = currentPage
    BY <1>2, AnsweredShape DEF SingleRequest, Paged, TypeOK
<1>4. ASSUME NEW n \in 0..PageSize, SearchDone(r, n) PROVE Paged'
    <2>1. /\ r.kind = "search" /\ searchItems' = PageOf(r, n)
        BY <1>4 DEF SearchDone, Answered, Replaced
    <2>2. searchItems = <<>> /\ r.page = 1 /\ currentPage = 1
        BY <1>2, <2>1 DEF Paged
    <2>3. InPages(searchItems')
        BY <1>3, <2>1, <2>2, OnePage
    <2>4. searchItems' # <<>> => LastPage' = 1
        <3>1. n = 0 => PageOf(r, n) = <<>>
            BY <1>3, PageShape
        <3> QED BY <1>3, <2>1, <2>2, <3>1, OnePage DEF LastPage
    <2>5. InPages(searchItems)'
        BY <2>3 DEF InPages
    <2> QED BY <1>3, <2>2, <2>4, <2>5 DEF Paged
<1>5. ASSUME NEW n \in 1..PageSize, LoadMoreDone(r, n) PROVE Paged'
    <2>1. r.kind = "loadMore" /\ searchItems' = searchItems \o PageOf(r, n)
        BY <1>5 DEF LoadMoreDone, Answered
    <2>2. /\ searchItems # <<>> /\ r.page = currentPage
          /\ r.page = LastPage + 1
        BY <1>2, <2>1 DEF Paged
    <2>3. /\ InPages(searchItems \o PageOf(r, n))
          /\ searchItems \o PageOf(r, n) # <<>>
          /\ (searchItems \o PageOf(r, n))[Len(searchItems \o PageOf(r, n))].page
                = r.page
        BY <1>2, <1>3, <2>2, NextPage DEF Paged, TypeOK, LastPage
    <2>4. InPages(searchItems)' /\ LastPage' = r.page /\ searchItems' # <<>>
        BY <2>1, <2>3 DEF InPages, LastPage
    <2> QED BY <1>3, <2>2, <2>4 DEF Paged
<1>6. CASE LoadMoreEmpty(r)
    <2>1. r.kind = "loadMore" /\ searchItems' = searchItems /\ ~canLoadMore'
        BY <1>6 DEF LoadMoreEmpty, Answered
    <2>2. searchItems # <<>>
        BY <1>2, <2>1 DEF Paged
    <2>3. InPages(searchItems)'
        BY <1>2, <2>1 DEF Paged, InPages
    <2> QED BY <1>3, <2>1, <2>2, <2>3 DEF Paged
<1> QED BY <1>1, <1>4, <1>5, <1>6 DEF Answer

LEMMA PagedStep ==
    TypeOK /\ SingleRequest /\ PagedInv /\ [Next]_vars => PagedInv'
<1> SUFFICES ASSUME TypeOK, SingleRequest, PagedInv, [Next]_vars, fresh'
             PROVE  Paged'
    BY DEF PagedInv
<1>1. CASE \/ \E x \in Texts : Type(x)
           \/ SearchDropped \/ SearchBlank \/ LoadMoreBlank \/ UNCHANGED vars
    <2>1. /\ fresh /\ requests' = requests /\ overlapped' = overlapped
          /\ searchItems' = searchItems /\ currentPage' = currentPage
          /\ canLoadMore' = canLoadMore
        BY <1>1 DEF Type, SearchDropped, SearchBlank, LoadMoreBlank, vars, model
    <2>2. Paged
        BY <2>1 DEF PagedInv
    <2>3. InPages(searchItems)' /\ LastPage' = LastPage
        BY <2>1, <2>2 DEF Paged, InPages, LastPage
    <2> QED BY <2>1, <2>2, <2>3 DEF Paged
<1>2. CASE Cancel
    BY <1>2 DEF Cancel
<1>3. ASSUME NEW t \in FreeTasks, Search(t) PROVE Paged'
    <2>1. /\ fresh /\ searchItems = <<>> /\ searchItems' = searchItems
          /\ currentPage' = currentPage /\ overlapped' = overlapped /\ ~isLoading
        BY <1>3 DEF Search, Busy
    <2>2. Paged /\ requests = {}
        BY <2>1 DEF PagedInv, Paged, SingleRequest
    <2>3. PICK q : requests' = {q} /\ q.kind = "search" /\ q.page = 1
        BY <1>3, <2>2, SendShape, SearchAssumption DEF Search, FreeTasks
    <2>4. InPages(searchItems)'
        BY <2>1, <2>2 DEF Paged, InPages
    <2> QED BY <2>1, <2>2, <2>3, <2>4 DEF Paged
<1>4. ASSUME NEW t \in FreeTasks, LoadMore(t) PROVE Paged'
    <2>1. /\ fresh /\ searchItems # <<>> /\ searchItems' = searchItems
          /\ currentPage' = currentPage + 1 /\ overlapped' = overlapped
          /\ ~isLoading /\ canLoadMore
        BY <1>4 DEF LoadMore, AtEnd, PageNext
    <2>2. Paged /\ requests = {}
        BY <2>1 DEF PagedInv, Paged, SingleRequest
    <2>3. LastPage = currentPage
        BY <2>1, <2>2 DEF Paged
    <2>4. PICK q : requests' = {q} /\ q.kind = "loadMore"
                   /\ q.page = currentPage + 1
        <3>1. PageNext \in 1..MaxPage
            BY <1>4, PageNextShape DEF LoadMore
        <3> QED BY <1>4, <2>2, <3>1, SendShape
                DEF LoadMore, FreeTasks, PageNext
    <2>5. InPages(searchItems)' /\ LastPage' = LastPage
        BY <2>1, <2>2 DEF Paged, InPages, LastPage
    <2> QED BY <2>1, <2>2, <2>3, <2>4, <2>5 DEF Paged
<1>5. ASSUME NEW r \in requests, Answer(r) PROVE Paged'
    BY <1>5, AnswerPaged
<1> QED BY <1>1, <1>2, <1>3, <1>4, <1>5 DEF Next

\* The first search lists its pages one after the other, each exactly once.
THEOREM PagesInOrder == Spec => []FirstSearchPages
<1>1. PagedInv => FirstSearchPages
    BY DEF PagedInv, Paged, FirstSearchPages
<1>2. Init => SingleRequest
    BY DEF Init, SingleRequest
<1> QED BY <1>1, <1>2, InitType, InitPaged, TypeStep, SingleStep, PagedStep,
           PTL DEF Spec
=============================================================================
