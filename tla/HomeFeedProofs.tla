---------------------------- MODULE HomeFeedProofs ----------------------------
(* Theorems about HomeFeed, for every set of categories and every bound.   *)
EXTENDS HomeFeed, WellFoundedInduction, TLAPS

-----------------------------------------------------------------------------
(* What the operators of the model return.                                 *)

\* A selection numbers its slots from 1 and has at least one.
LEMMA SelectionShape ==
    ASSUME NEW s \in Selections
    PROVE  /\ \E n \in Nat \ {0} : DOMAIN s = 1..n
           /\ s \in [DOMAIN s -> Category]
           /\ 1 \in DOMAIN s
<1>1. PICK n \in 1..Len(AllCases) : s \in [1..n -> Category]
    BY DEF Selections
<1>2. n \in Nat \ {0}
    BY HomeAssumption, SubTabsAssumption
<1> QED BY <1>1, <1>2

\* allCases, what the program starts with, is itself a selection.
LEMMA AllCasesSelected == AllCases \in Selections
<1>1. AllCases \in [1..Len(AllCases) -> Category] /\ Len(AllCases) \in Nat
    BY HomeAssumption, SubTabsAssumption
<1>2. \E k \in DOMAIN AllCases : TRUE
    BY HomeAssumption, SubTabsAssumption DEF Category
<1>3. Len(AllCases) \in 1..Len(AllCases)
    BY <1>1, <1>2
<1>4. AllCases \in UNION {[1..n -> Category] : n \in 1..Len(AllCases)}
    BY <1>1, <1>3
<1>5. \A c \in Pinned : \E k \in DOMAIN AllCases : AllCases[k] = c
    BY HomeAssumption, SubTabsAssumption DEF Category
<1> QED BY <1>4, <1>5 DEF Selections

\* The first fetches are well-typed, one per slot that is not refused, each
\* naming the category of its slot.
LEMMA FirstFetchesShape ==
    ASSUME NEW s \in Selections, NEW k \in 0..MaxSaves
    PROVE  /\ FirstFetches(s, k) \subseteq Request
           /\ \A r \in FirstFetches(s, k) :
                  r.kind = "fetch" /\ r.index \in DOMAIN s
                  /\ r.category = s[r.index]
           /\ \A i \in DOMAIN s : s[i] \notin Refused =>
                  \E r \in FirstFetches(s, k) : r.index = i /\ r.kind = "fetch"
<1>1. DOMAIN s \subseteq Nat \ {0} /\ s \in [DOMAIN s -> Category]
    BY SelectionShape
<1>2. 1 \in 1..MaxPage
    BY HomeAssumption, SubTabsAssumption
<1>3. FirstFetches(s, k) \subseteq Request
    BY <1>1, <1>2 DEF FirstFetches, Request
<1>4. \A r \in FirstFetches(s, k) :
          r.kind = "fetch" /\ r.index \in DOMAIN s /\ r.category = s[r.index]
    BY DEF FirstFetches
<1>5. ASSUME NEW i \in DOMAIN s, s[i] \notin Refused
      PROVE  \E r \in FirstFetches(s, k) : r.index = i /\ r.kind = "fetch"
    <2> DEFINE q == [kind |-> "fetch", index |-> i, category |-> s[i],
                     page |-> 1, save |-> k, task |-> InitialLoad]
    <2>1. q \in FirstFetches(s, k)
        BY <1>5 DEF FirstFetches
    <2> QED BY <2>1
<1> QED BY <1>3, <1>4, <1>5

\* An answer's articles are a list of its request's category.
LEMMA PageShape ==
    ASSUME NEW r \in Request, NEW n \in 0..PageSize
    PROVE  /\ PageOf(r, n) \in Seq(Article)
           /\ \A k \in DOMAIN PageOf(r, n) :
                  PageOf(r, n)[k].category = r.category
<1>1. n \in Nat /\ 1..n \subseteq 1..PageSize
    BY HomeAssumption, SubTabsAssumption
<1>2. PageOf(r, n) \in [1..n -> Article]
    BY <1>1 DEF PageOf, Request, Article
<1> QED BY <1>1, <1>2 DEF PageOf

\* A child that is given a list shows that list.
LEMMA ShowShape ==
    ASSUME NEW c \in Child, NEW list \in Seq(Article)
    PROVE  /\ Show(c, list) \in Child
           /\ Show(c, list).articles = list
<1>1. Len(list) \in Nat
    OBVIOUS
<1>2. (IF Len(list) > 1 THEN Len(list) ELSE c.rows) \in Nat
    BY <1>1 DEF Child
<1>3. (c.loadingHidden \/ Len(list) > 1) \in BOOLEAN
      /\ (c.errorShown \/ Len(list) <= 1) \in BOOLEAN
    OBVIOUS
<1> QED BY <1>2, <1>3 DEF Show, Child

-----------------------------------------------------------------------------
(* Type correctness.  TypeOK is inductive by itself.                       *)

\* Building the tab for a selection leaves well-typed arrays.
LEMMA ConfigureType ==
    ASSUME NEW s \in Selections, Configure(s), categories' = s
    PROVE  /\ articlesArray' \in [DOMAIN s -> Seq(Article)]
           /\ isLoading' \in [DOMAIN s -> BOOLEAN]
           /\ currentPageParam' \in [DOMAIN s -> 1..MaxPage]
           /\ canLoadMore' \in [DOMAIN s -> BOOLEAN]
           /\ errors' \in [DOMAIN s -> BOOLEAN]
           /\ currentPage' \in DOMAIN s
           /\ child' \in [DOMAIN s -> Child]
           /\ gap' \in [DOMAIN s -> BOOLEAN]
           /\ shrunk' \in [DOMAIN s -> BOOLEAN]
<1>1. 1 \in DOMAIN s
    BY SelectionShape
<1>2. <<>> \in Seq(Article) /\ NewChild \in Child /\ 1 \in 1..MaxPage
    BY HomeAssumption, SubTabsAssumption DEF NewChild, Child
<1>3. RefusedSlots(s) \in [DOMAIN s -> BOOLEAN]
    BY DEF RefusedSlots
<1> QED BY <1>1, <1>2, <1>3 DEF Configure, PerSlot

\* A list taken over by slot i keeps the arrays typed.
LEMMA ApplyType ==
    ASSUME TypeOK, NEW i \in Slots, NEW list \in Seq(Article), Apply(i, list)
    PROVE  /\ articlesArray' \in [Slots -> Seq(Article)]
           /\ child' \in [Slots -> Child]
<1>1. child \in [Slots -> Child] /\ articlesArray \in [Slots -> Seq(Article)]
    BY DEF TypeOK
<1>2. Show(child[i], list) \in Child
    BY <1>1, ShowShape
<1> QED BY <1>1, <1>2 DEF Apply

\* The requests a handler adds are typed and name their slot's category.
LEMMA SendShape ==
    ASSUME TypeOK, NEW i \in Slots, NEW page \in 1..MaxPage, NEW t \in Tasks,
           NEW kind \in {"fetch", "refresh", "loadMore"}
    PROVE  /\ Send(kind, i, page, t) \subseteq Request
           /\ \A r \in Send(kind, i, page, t) :
                  r.kind = kind /\ r.index = i /\ r.category = categories[i]
           /\ categories[i] \notin Refused =>
                  \E r \in Send(kind, i, page, t) : r.kind = kind /\ r.index = i
<1>1. categories \in Selections /\ saves \in 0..MaxSaves
    BY DEF TypeOK
<1>2. i \in Nat \ {0} /\ categories[i] \in Category
    BY <1>1, SelectionShape DEF Slots
<1> DEFINE q == [kind |-> kind, index |-> i, category |-> categories[i],
                 page |-> page, save |-> saves, task |-> t]
<1>3. q \in Request
    BY <1>1, <1>2 DEF Request
<1>4. Send(kind, i, page, t) \subseteq {q}
      /\ (categories[i] \notin Refused => q \in Send(kind, i, page, t))
    BY DEF Send
<1>5. q.kind = kind /\ q.index = i /\ q.category = categories[i]
    OBVIOUS
<1> HIDE DEF q
<1> QED BY <1>3, <1>4, <1>5

LEMMA InitType == Init => TypeOK
<1> SUFFICES ASSUME Init PROVE TypeOK
    OBVIOUS
<1>1. AllCases \in Selections /\ categories = AllCases
    BY AllCasesSelected DEF Init
<1>2. 1 \in DOMAIN AllCases /\ 0 \in 0..MaxSaves
    BY <1>1, SelectionShape, HomeAssumption, SubTabsAssumption
<1>3. <<>> \in Seq(Article) /\ NewChild \in Child /\ 1 \in 1..MaxPage
    BY HomeAssumption, SubTabsAssumption DEF NewChild, Child
<1>4. RefusedSlots(AllCases) \in [DOMAIN AllCases -> BOOLEAN]
    BY DEF RefusedSlots
<1>5. FirstFetches(AllCases, 0) \subseteq Request
    BY <1>1, <1>2, FirstFetchesShape
<1> QED BY <1>1, <1>2, <1>3, <1>4, <1>5 DEF Init, TypeOK, PerSlot, Slots

\* The user's steps keep the types.
LEMMA UserType == TypeOK /\ User => TypeOK'
<1> SUFFICES ASSUME TypeOK, User PROVE TypeOK'
    OBVIOUS
<1>1. ASSUME NEW s \in Selections, SaveSettings(s) PROVE TypeOK'
    <2>1. categories' = s /\ Configure(s)
        BY <1>1 DEF SaveSettings
    <2>2. saves + 1 \in 0..MaxSaves
        BY <1>1, HomeAssumption, SubTabsAssumption DEF SaveSettings, TypeOK
    <2>3. requests' \subseteq Request
        BY <1>1, <2>2, FirstFetchesShape DEF SaveSettings, TypeOK
    <2>4. overlapped' \in BOOLEAN
        BY <1>1 DEF SaveSettings
    <2> QED BY <1>1, <2>1, <2>2, <2>3, <2>4, ConfigureType
            DEF SaveSettings, TypeOK, Slots
<1>2. ASSUME NEW i \in Slots, PullIgnored(i) PROVE TypeOK'
    <2>1. child' \in [Slots -> Child]
        <3>1. child \in [Slots -> Child]
              /\ child' = [child EXCEPT ![i].refreshing = TRUE]
            BY <1>2 DEF PullIgnored, TypeOK
        <3>2. [child[i] EXCEPT !.refreshing = TRUE] \in Child
            BY <3>1 DEF Child
        <3> QED BY <3>1, <3>2
    <2> QED BY <1>2, <2>1 DEF PullIgnored, TypeOK, Slots, feed
<1>3. ASSUME NEW i \in Slots, NEW t \in FreeTasks, PullToRefresh(i, t)
      PROVE  TypeOK'
    <2>1. Send("refresh", i, 1, t) \subseteq Request
        BY HomeAssumption, SubTabsAssumption, SendShape DEF FreeTasks
    <2> QED BY <1>3, <2>1 DEF PullToRefresh, TypeOK, Slots, feed, Child, Present
<1>4. ASSUME NEW i \in Slots, NEW t \in FreeTasks, LoadMore(i, t)
      PROVE  TypeOK'
    <2>1. currentPageParam[i] + 1 \in 1..MaxPage
        BY <1>4, HomeAssumption, SubTabsAssumption DEF LoadMore, TypeOK
    <2>2. Send("loadMore", i, currentPageParam[i] + 1, t) \subseteq Request
        BY <2>1, SendShape DEF FreeTasks
    <2> QED BY <1>4, <2>1, <2>2 DEF LoadMore, TypeOK, Slots, Present
<1>5. ASSUME NEW j \in Slots, GoTo(j) PROVE TypeOK'
    BY <1>5 DEF GoTo, TypeOK, Slots, feed, Present
<1>6. CASE DismissInfo
    BY <1>6 DEF DismissInfo, TypeOK, Slots, feed
<1>7. CASE DismissError
    <2>1. child[currentPage] \in Child /\ <<>> \in Seq(Article)
        BY DEF TypeOK
    <2>2. Show(child[currentPage], <<>>) \in Child
        BY <2>1, ShowShape
    <2> QED BY <1>7, <2>2 DEF DismissError, TypeOK, Slots, feed
<1>8. ASSUME NEW i \in Slots, DisplayLostRow(i) PROVE TypeOK'
    BY <1>8 DEF DisplayLostRow, TypeOK, Slots, feed
<1> QED BY <1>1, <1>2, <1>3, <1>4, <1>5, <1>6, <1>7, <1>8
        DEF User, SelectCategory, Swipe

\* So does the answer to a request.
LEMMA CompleteType ==
    ASSUME TypeOK, NEW r \in requests, Complete(r)
    PROVE  TypeOK'
<1>1. r \in Request /\ requests \ {r} \subseteq Request
    BY DEF TypeOK
<1>2. ASSUME NEW n \in 1..PageSize, FetchDone(r, n) PROVE TypeOK'
    <2>1. PageOf(r, n) \in Seq(Article) /\ r.index \in Slots
        BY <1>1, <1>2, PageShape, HomeAssumption DEF FetchDone, Answered
    <2> QED BY <1>1, <1>2, <2>1, ApplyType
            DEF FetchDone, Answered, EndLoading, LoadMoreInFlight, TypeOK, Slots
<1>3. CASE FetchFailed(r)
    BY <1>1, <1>3 DEF FetchFailed, Answered, EndLoading, TypeOK, Slots
<1>4. ASSUME NEW n \in 0..PageSize, RefreshDone(r, n) PROVE TypeOK'
    <2>1. PageOf(r, n) \in Seq(Article) /\ r.index \in Slots /\ 1 \in 1..MaxPage
        BY <1>1, <1>4, PageShape, HomeAssumption DEF RefreshDone, Answered
    <2> QED BY <1>1, <1>4, <2>1, ApplyType
            DEF RefreshDone, Answered, RestartPaging, LoadMoreInFlight, TypeOK,
                Slots
<1>5. CASE RefreshFailed(r)
    BY <1>1, <1>5 DEF RefreshFailed, Answered, Present, TypeOK, Slots, feed
<1>6. ASSUME NEW n \in 1..PageSize, LoadMoreDone(r, n) PROVE TypeOK'
    <2>1. PageOf(r, n) \in Seq(Article) /\ r.index \in Slots
        BY <1>1, <1>6, PageShape, HomeAssumption DEF LoadMoreDone, Answered
    <2>2. articlesArray[r.index] \o PageOf(r, n) \in Seq(Article)
        BY <2>1 DEF TypeOK
    <2> QED BY <1>1, <1>6, <2>1, <2>2, ApplyType
            DEF LoadMoreDone, Answered, EndLoading, TypeOK, Slots
<1>7. CASE LoadMoreEmpty(r)
    BY <1>1, <1>7 DEF LoadMoreEmpty, Answered, EndLoading, Present, TypeOK, Slots
<1>8. CASE LoadMoreFailed(r)
    BY <1>1, <1>8
    DEF LoadMoreFailed, Answered, EndLoading, Present, TypeOK, Slots
<1>9. CASE AnswerOutOfRange(r)
    BY <1>1, <1>9 DEF AnswerOutOfRange, TypeOK, Slots, feed
<1> QED BY <1>2, <1>3, <1>4, <1>5, <1>6, <1>7, <1>8, <1>9 DEF Complete

LEMMA TypeStep == TypeOK /\ [Next]_vars => TypeOK'
<1> SUFFICES ASSUME TypeOK, [Next]_vars PROVE TypeOK'
    OBVIOUS
<1>1. CASE User
    BY <1>1, UserType
<1>2. CASE Relaunch
    <2>1. categories \in Selections /\ categories' = categories
          /\ Configure(categories)
        BY <1>2 DEF Relaunch, TypeOK
    <2>2. requests' \subseteq Request
        BY <1>2, <2>1, FirstFetchesShape DEF Relaunch, TypeOK
    <2> QED BY <1>2, <2>1, <2>2, ConfigureType DEF Relaunch, TypeOK, Slots
<1>3. ASSUME NEW r \in requests, Complete(r) PROVE TypeOK'
    BY <1>3, CompleteType
<1>4. CASE UNCHANGED vars
    BY <1>4 DEF vars, feed, TypeOK, Slots
<1> QED BY <1>1, <1>2, <1>3, <1>4 DEF Next

\* Type correctness: every array of the view model and of the controller has
\* exactly one entry per chosen category, whatever the settings screen saves
\* and whenever an answer arrives.
THEOREM TypeCorrect == Spec => []TypeOK
    BY InitType, TypeStep, PTL DEF Spec

-----------------------------------------------------------------------------
(* A raised isLoading flag has a request behind it.  Inductive given the   *)
(* types: the answer that takes the request away lowers the flag of the    *)
(* very slot it is addressed to.                                           *)

LEMMA InitLoading == Init => LoadingHasRequest
<1> SUFFICES ASSUME Init, NEW i \in Slots, isLoading[i]
             PROVE  \E r \in requests : r.index = i /\ r.kind # "refresh"
    BY DEF LoadingHasRequest
<1>1. AllCases \in Selections /\ 0 \in 0..MaxSaves
    BY AllCasesSelected, HomeAssumption, SubTabsAssumption
<1>2. AllCases[i] \notin Refused /\ i \in DOMAIN AllCases
    BY DEF Init, Slots, RefusedSlots
<1>3. PICK r \in FirstFetches(AllCases, 0) : r.index = i /\ r.kind = "fetch"
    BY <1>1, <1>2, FirstFetchesShape
<1> QED BY <1>3 DEF Init

\* After the tab is built anew every loading slot has its first fetch.
LEMMA ConfigureLoading ==
    ASSUME NEW s \in Selections, NEW k \in 0..MaxSaves, Configure(s),
           categories' = s, FirstFetches(s, k) \subseteq requests'
    PROVE  LoadingHasRequest'
<1> SUFFICES ASSUME NEW i \in DOMAIN s, isLoading'[i]
             PROVE  \E r \in requests' : r.index = i /\ r.kind # "refresh"
    BY DEF LoadingHasRequest, Slots
<1>1. s[i] \notin Refused
    BY DEF Configure, RefusedSlots
<1>2. PICK r \in FirstFetches(s, k) : r.index = i /\ r.kind = "fetch"
    BY <1>1, FirstFetchesShape
<1> QED BY <1>2

\* An answer either lowers its slot's flag or was only a refresh.
LEMMA AnswerLoading ==
    ASSUME TypeOK, LoadingHasRequest, NEW r \in requests,
           requests' = requests \ {r}, categories' = categories,
           \/ EndLoading(r.index)
           \/ isLoading' = isLoading /\ (r.kind = "refresh" \/ r.index \notin Slots)
    PROVE  LoadingHasRequest'
<1> SUFFICES ASSUME NEW i \in Slots, isLoading'[i]
             PROVE  \E q \in requests' : q.index = i /\ q.kind # "refresh"
    BY DEF LoadingHasRequest, Slots
<1>1. isLoading[i] /\ (r.index # i \/ r.kind = "refresh")
    BY DEF EndLoading, TypeOK
<1>2. PICK q \in requests : q.index = i /\ q.kind # "refresh"
    BY <1>1 DEF LoadingHasRequest
<1>3. q # r
    BY <1>1, <1>2
<1> QED BY <1>2, <1>3

LEMMA LoadingStep ==
    TypeOK /\ LoadingHasRequest /\ [Next]_vars => LoadingHasRequest'
<1> SUFFICES ASSUME TypeOK, LoadingHasRequest, [Next]_vars
             PROVE  LoadingHasRequest'
    OBVIOUS
<1>1. ASSUME NEW s \in Selections, SaveSettings(s) PROVE LoadingHasRequest'
    <2>1. saves + 1 \in 0..MaxSaves
        BY <1>1, HomeAssumption, SubTabsAssumption DEF SaveSettings, TypeOK
    <2> QED BY <1>1, <2>1, ConfigureLoading DEF SaveSettings
<1>2. CASE Relaunch
    <2>1. categories \in Selections /\ saves \in 0..MaxSaves
        BY DEF TypeOK
    <2> QED BY <1>2, <2>1, ConfigureLoading DEF Relaunch
<1>3. ASSUME NEW i \in Slots, NEW t \in FreeTasks, PullToRefresh(i, t)
      PROVE  LoadingHasRequest'
    BY <1>3 DEF PullToRefresh, LoadingHasRequest, Slots, feed
<1>4. ASSUME NEW i \in Slots, NEW t \in FreeTasks, LoadMore(i, t)
      PROVE  LoadingHasRequest'
    <2> SUFFICES ASSUME NEW j \in Slots, isLoading'[j]
                 PROVE  \E q \in requests' : q.index = j /\ q.kind # "refresh"
        BY <1>4 DEF LoadMore, LoadingHasRequest, Slots
    <2>1. CASE j # i
        <3>1. isLoading[j]
            BY <1>4, <2>1 DEF LoadMore, TypeOK
        <3> QED BY <1>4, <3>1 DEF LoadMore, LoadingHasRequest
    <2>2. CASE j = i
        <3>1. categories[i] \notin Refused
            BY <1>4, <2>2 DEF LoadMore, TypeOK
        <3>2. currentPageParam[i] + 1 \in 1..MaxPage
            BY <1>4, HomeAssumption, SubTabsAssumption DEF LoadMore, TypeOK
        <3>3. PICK q \in Send("loadMore", i, currentPageParam[i] + 1, t) :
                  q.kind = "loadMore" /\ q.index = i
            BY <3>1, <3>2, SendShape DEF FreeTasks
        <3> QED BY <1>4, <2>2, <3>3 DEF LoadMore
    <2> QED BY <2>1, <2>2
<1>5. ASSUME NEW r \in requests, Complete(r) PROVE LoadingHasRequest'
    <2>1. /\ requests' = requests \ {r} /\ categories' = categories
          /\ \/ EndLoading(r.index)
             \/ isLoading' = isLoading
                /\ (r.kind = "refresh" \/ r.index \notin Slots)
        BY <1>5 DEF Complete, FetchDone, FetchFailed, RefreshDone, RefreshFailed,
                    LoadMoreDone, LoadMoreEmpty, LoadMoreFailed,
                    AnswerOutOfRange, Answered, feed
    <2> QED BY <2>1, AnswerLoading
<1>6. ASSUME UNCHANGED <<categories, isLoading, requests>>
      PROVE  LoadingHasRequest'
    BY <1>6 DEF LoadingHasRequest, Slots
<1> QED BY <1>1, <1>2, <1>3, <1>4, <1>5, <1>6
        DEF Next, User, vars, feed, PullIgnored, SelectCategory, Swipe, GoTo,
            DismissInfo, DismissError, DisplayLostRow

\* A slot whose isLoading flag is up has a fetch or load-more in flight, so the
\* guards of pullToRefresh and loadMore never refuse for ever.
THEOREM LoadingIsBacked == Spec => []LoadingHasRequest
<1>1. TypeOK /\ TypeOK' /\ LoadingHasRequest /\ [Next]_vars => LoadingHasRequest'
    BY LoadingStep
<1> QED BY InitLoading, TypeCorrect, <1>1, PTL DEF Spec

-----------------------------------------------------------------------------
(* Slots hold their own category.  SlotsPure says nothing of the requests  *)
(* in flight, so it is not inductive; Addressed is what they must satisfy. *)

\* Unless settings were saved over a request in flight, a request names a slot
\* that exists and the category of that slot.
Addressed ==
    ~overlapped => \A r \in requests :
        r.index \in Slots /\ r.category = categories[r.index]

PureInv == TypeOK /\ Addressed /\ SlotsPure

\* A tab built anew is empty and all its requests are first fetches.
LEMMA ConfigurePure ==
    ASSUME NEW s \in Selections, NEW k \in 0..MaxSaves, Configure(s),
           categories' = s, trap' # "completion",
           ~overlapped' => requests' = FirstFetches(s, k)
    PROVE  Addressed' /\ SlotsPure'
<1>1. \A r \in FirstFetches(s, k) :
          r.index \in DOMAIN s /\ r.category = s[r.index]
    BY FirstFetchesShape
<1>2. \A i \in DOMAIN s : articlesArray'[i] = <<>>
    BY DEF Configure, PerSlot
<1> QED BY <1>1, <1>2 DEF Addressed, SlotsPure, Slots

\* Articles of the right category may replace or extend the list of a slot.
LEMMA ApplyPure ==
    ASSUME PureInv, ~overlapped, NEW r \in requests, NEW n \in 0..PageSize,
           NEW list \in Seq(Article), Apply(r.index, list),
           \/ list = PageOf(r, n)
           \/ list = articlesArray[r.index] \o PageOf(r, n)
    PROVE  \A i \in Slots : \A k \in DOMAIN articlesArray'[i] :
               articlesArray'[i][k].category = categories[i]
<1>1. r.index \in Slots /\ r.category = categories[r.index] /\ r \in Request
    BY DEF PureInv, Addressed, TypeOK
<1>2. /\ PageOf(r, n) \in Seq(Article)
      /\ \A k \in DOMAIN PageOf(r, n) :
             PageOf(r, n)[k].category = categories[r.index]
    BY <1>1, PageShape
<1>3. /\ articlesArray[r.index] \in Seq(Article)
      /\ \A k \in DOMAIN articlesArray[r.index] :
             articlesArray[r.index][k].category = categories[r.index]
    BY <1>1 DEF PureInv, TypeOK, SlotsPure
<1>4. \A k \in DOMAIN list : list[k].category = categories[r.index]
    <2>1. CASE list = PageOf(r, n)
        BY <1>2, <2>1
    <2>2. CASE list = articlesArray[r.index] \o PageOf(r, n)
        <3> DEFINE a == articlesArray[r.index]
                   b == PageOf(r, n)
        <3>1. a \in Seq(Article) /\ b \in Seq(Article)
              /\ (\A k \in DOMAIN a : a[k].category = categories[r.index])
              /\ (\A k \in DOMAIN b : b[k].category = categories[r.index])
            BY <1>2, <1>3
        <3> HIDE DEF a, b
        <3>2. \A k \in DOMAIN (a \o b) : (a \o b)[k].category = categories[r.index]
            BY <3>1
        <3> QED BY <2>2, <3>2 DEF a, b
    <2> QED BY <2>1, <2>2
<1> QED BY <1>1, <1>4 DEF Apply, PureInv, TypeOK, SlotsPure

LEMMA PureStep == PureInv /\ [Next]_vars => Addressed' /\ SlotsPure'
<1> SUFFICES ASSUME PureInv, [Next]_vars PROVE Addressed' /\ SlotsPure'
    OBVIOUS
<1>0. TypeOK /\ Addressed /\ SlotsPure
    BY DEF PureInv
<1>1. ASSUME NEW s \in Selections, SaveSettings(s) PROVE Addressed' /\ SlotsPure'
    <2>1. saves + 1 \in 0..MaxSaves
        BY <1>0, <1>1, HomeAssumption, SubTabsAssumption DEF SaveSettings, TypeOK
    <2>2. ~overlapped' => requests' = FirstFetches(s, saves + 1)
        BY <1>1 DEF SaveSettings
    <2> QED BY <1>1, <2>1, <2>2, ConfigurePure DEF SaveSettings
<1>2. CASE Relaunch
    <2>1. categories \in Selections /\ saves \in 0..MaxSaves
        BY <1>0 DEF TypeOK
    <2> QED BY <1>2, <2>1, ConfigurePure DEF Relaunch
<1>3. ASSUME NEW i \in Slots, NEW t \in FreeTasks,
             PullToRefresh(i, t) \/ LoadMore(i, t)
      PROVE  Addressed' /\ SlotsPure'
    <2>1. PICK kind \in {"refresh", "loadMore"}, page \in 1..MaxPage :
              requests' = requests \cup Send(kind, i, page, t)
        <3>1. CASE PullToRefresh(i, t)
            BY <3>1, HomeAssumption, SubTabsAssumption DEF PullToRefresh
        <3>2. CASE LoadMore(i, t)
            <4>1. currentPageParam[i] + 1 \in 1..MaxPage
                BY <1>0, <3>2, HomeAssumption, SubTabsAssumption DEF LoadMore, TypeOK
            <4> QED BY <3>2, <4>1 DEF LoadMore
        <3> QED BY <1>3, <3>1, <3>2
    <2>2. \A r \in Send(kind, i, page, t) :
              r.index = i /\ r.category = categories[i]
        BY <1>0, SendShape DEF FreeTasks
    <2>3. UNCHANGED <<categories, articlesArray, overlapped, trap>>
        BY <1>3 DEF PullToRefresh, LoadMore, feed
    <2>4. Addressed'
        BY <1>0, <2>1, <2>2, <2>3 DEF Addressed, Slots
    <2>5. SlotsPure'
        BY <1>0, <2>3 DEF SlotsPure, Slots
    <2> QED BY <2>4, <2>5
<1>4. ASSUME NEW r \in requests, Complete(r) PROVE Addressed' /\ SlotsPure'
    <2>1. /\ requests' = requests \ {r}
          /\ UNCHANGED <<categories, overlapped>>
        BY <1>4 DEF Complete, FetchDone, FetchFailed, RefreshDone, RefreshFailed,
                    LoadMoreDone, LoadMoreEmpty, LoadMoreFailed,
                    AnswerOutOfRange, Answered
    <2>2. Addressed'
        BY <1>0, <2>1 DEF Addressed, Slots
    <2>3. SlotsPure'
        <3> SUFFICES ASSUME ~overlapped
                     PROVE  /\ trap' # "completion"
                            /\ \A i \in Slots : \A k \in DOMAIN articlesArray'[i] :
                                   articlesArray'[i][k].category = categories[i]
            BY <2>1 DEF SlotsPure, Slots
        <3>1. r.index \in Slots
            BY <1>0 DEF Addressed
        <3>2. r \in Request /\ articlesArray[r.index] \in Seq(Article)
            BY <1>0, <3>1 DEF TypeOK
        <3>3. trap' # "completion"
            BY <1>0, <1>4, <3>1
            DEF Complete, FetchDone, FetchFailed, RefreshDone, RefreshFailed,
                LoadMoreDone, LoadMoreEmpty, LoadMoreFailed, AnswerOutOfRange,
                Answered, SlotsPure
        <3>4. ASSUME NEW n \in 0..PageSize, FetchDone(r, n) \/ RefreshDone(r, n)
              PROVE  \A i \in Slots : \A k \in DOMAIN articlesArray'[i] :
                         articlesArray'[i][k].category = categories[i]
            <4>1. PageOf(r, n) \in Seq(Article)
                BY <3>2, PageShape
            <4> QED BY <3>4, <4>1, ApplyPure DEF FetchDone, RefreshDone
        <3>5. ASSUME NEW n \in 0..PageSize, LoadMoreDone(r, n)
              PROVE  \A i \in Slots : \A k \in DOMAIN articlesArray'[i] :
                         articlesArray'[i][k].category = categories[i]
            <4>1. PageOf(r, n) \in Seq(Article)
                BY <3>2, PageShape
            <4>2. articlesArray[r.index] \o PageOf(r, n) \in Seq(Article)
                BY <3>2, <4>1
            <4> QED BY <3>5, <4>2, ApplyPure DEF LoadMoreDone
        <3>6. CASE articlesArray' = articlesArray
            BY <1>0, <3>3, <3>6 DEF SlotsPure
        <3>7. 1..PageSize \subseteq 0..PageSize
            BY HomeAssumption, SubTabsAssumption
        <3> QED BY <1>4, <3>3, <3>4, <3>5, <3>6, <3>7
                DEF Complete, FetchFailed, RefreshFailed, LoadMoreEmpty,
                    LoadMoreFailed, AnswerOutOfRange, feed
    <2> QED BY <2>2, <2>3
<1>5. CASE UNCHANGED <<categories, articlesArray, requests, overlapped, trap>>
    BY <1>0, <1>5 DEF Addressed, SlotsPure, Slots
<1>6. ASSUME NEW i \in Slots, DisplayLostRow(i) PROVE Addressed' /\ SlotsPure'
    BY <1>0, <1>6 DEF DisplayLostRow, Addressed, SlotsPure, Slots, feed
<1> QED BY <1>1, <1>2, <1>3, <1>4, <1>5, <1>6
        DEF Next, User, vars, feed, PullIgnored, SelectCategory, Swipe, GoTo,
            DismissInfo, DismissError

LEMMA InitPure == Init => Addressed /\ SlotsPure
<1> SUFFICES ASSUME Init PROVE Addressed /\ SlotsPure
    OBVIOUS
<1>1. AllCases \in Selections /\ 0 \in 0..MaxSaves
    BY AllCasesSelected, HomeAssumption, SubTabsAssumption
<1>2. \A r \in FirstFetches(AllCases, 0) :
          r.index \in DOMAIN AllCases /\ r.category = AllCases[r.index]
    BY <1>1, FirstFetchesShape
<1> QED BY <1>2 DEF Init, Addressed, SlotsPure, PerSlot, Slots

\* As long as no settings save overtakes a request, no completion indexes past
\* the arrays and every list holds articles of its own category only.
THEOREM SlotsStayPure == Spec => []SlotsPure
<1>1. TypeOK /\ Addressed /\ SlotsPure /\ [Next]_vars => Addressed' /\ SlotsPure'
    BY PureStep DEF PureInv
<1> QED BY InitPure, TypeCorrect, <1>1, PTL DEF Spec

-----------------------------------------------------------------------------
(* One page load at a time.  Inductive with Addressed: a load-more starts  *)
(* only when the flag is down, and then no page load of the slot exists.   *)

LEMMA InitSingle == Init => SingleLoader
<1> SUFFICES ASSUME Init PROVE SingleLoader
    OBVIOUS
<1>1. \A r, q \in requests : r.index = q.index => r = q
    BY DEF Init, FirstFetches
<1>2. \A r \in requests :
          r.index \in DOMAIN AllCases /\ AllCases[r.index] \notin Refused
    BY DEF Init, FirstFetches
<1>3. \A r \in requests : isLoading[r.index]
    BY <1>2 DEF Init, RefusedSlots, Slots
<1> QED BY <1>1, <1>3 DEF SingleLoader

LEMMA ConfigureSingle ==
    ASSUME NEW s \in Selections, NEW k \in 0..MaxSaves, Configure(s),
           ~overlapped' => requests' = FirstFetches(s, k)
    PROVE  SingleLoader'
<1>1. \A r, q \in FirstFetches(s, k) : r.index = q.index => r = q
    BY DEF FirstFetches
<1>2. \A r \in FirstFetches(s, k) :
          r.index \in DOMAIN s /\ s[r.index] \notin Refused
    BY DEF FirstFetches
<1>3. \A r \in FirstFetches(s, k) : isLoading'[r.index]
    BY <1>2 DEF Configure, RefusedSlots
<1> QED BY <1>1, <1>3 DEF SingleLoader

LEMMA SingleStep ==
    PureInv /\ SingleLoader /\ [Next]_vars => SingleLoader'
<1> SUFFICES ASSUME PureInv, SingleLoader, [Next]_vars PROVE SingleLoader'
    OBVIOUS
<1>0. TypeOK /\ Addressed /\ SlotsPure
    BY DEF PureInv
<1>1. ASSUME NEW s \in Selections, SaveSettings(s) PROVE SingleLoader'
    <2>1. saves + 1 \in 0..MaxSaves
        BY <1>0, <1>1, HomeAssumption, SubTabsAssumption DEF SaveSettings, TypeOK
    <2>2. ~overlapped' => requests' = FirstFetches(s, saves + 1)
        BY <1>1 DEF SaveSettings
    <2> QED BY <1>1, <2>1, <2>2, ConfigureSingle DEF SaveSettings
<1>2. CASE Relaunch
    <2>1. categories \in Selections /\ saves \in 0..MaxSaves
        BY <1>0 DEF TypeOK
    <2> QED BY <1>2, <2>1, ConfigureSingle DEF Relaunch
<1>3. ASSUME NEW i \in Slots, NEW t \in FreeTasks, PullToRefresh(i, t)
      PROVE  SingleLoader'
    <2>1. \A r \in Send("refresh", i, 1, t) : r.kind = "refresh"
        BY DEF Send
    <2> QED BY <1>3, <2>1 DEF PullToRefresh, SingleLoader, feed
<1>4. ASSUME NEW i \in Slots, NEW t \in FreeTasks, LoadMore(i, t)
      PROVE  SingleLoader'
    <2> SUFFICES ASSUME ~overlapped PROVE SingleLoader'
        BY <1>4 DEF LoadMore, SingleLoader
    <2> DEFINE new == Send("loadMore", i, currentPageParam[i] + 1, t)
    <2>1. \A r \in requests : r.kind # "refresh" => r.index # i
        BY <1>0, <1>4 DEF SingleLoader, LoadMore, MayLoadMore
    <2>2. \A r, q \in new : r = q /\ r.index = i /\ categories[i] \notin Refused
        BY DEF Send
    <2>3. \A r \in requests : r.kind # "refresh" => isLoading'[r.index]
        BY <1>0, <1>4, <2>1 DEF LoadMore, SingleLoader, Addressed, TypeOK
    <2>4. \A r \in new : isLoading'[r.index]
        BY <1>0, <1>4, <2>2 DEF LoadMore, TypeOK
    <2>5. requests' = requests \cup new
        BY <1>4 DEF LoadMore
    <2> HIDE DEF new
    <2> QED BY <2>1, <2>2, <2>3, <2>4, <2>5 DEF SingleLoader
<1>5. ASSUME NEW r \in requests, Complete(r) PROVE SingleLoader'
    <2>1. /\ requests' = requests \ {r} /\ overlapped' = overlapped
          /\ \/ EndLoading(r.index) /\ r.kind # "refresh"
             \/ isLoading' = isLoading
        BY <1>5 DEF Complete, FetchDone, FetchFailed, RefreshDone, RefreshFailed,
                    LoadMoreDone, LoadMoreEmpty, LoadMoreFailed,
                    AnswerOutOfRange, Answered, feed
    <2>2. CASE isLoading' = isLoading
        BY <2>1, <2>2 DEF SingleLoader
    <2>3. CASE EndLoading(r.index) /\ r.kind # "refresh"
        <3> SUFFICES ASSUME ~overlapped PROVE SingleLoader'
            BY <2>1 DEF SingleLoader
        <3>1. \A q \in requests \ {r} : q.kind # "refresh" => q.index # r.index
            BY <2>3 DEF SingleLoader
        <3>2. \A q \in requests \ {r} : q.kind # "refresh" => isLoading'[q.index]
            BY <1>0, <2>3, <3>1 DEF EndLoading, SingleLoader, Addressed, TypeOK
        <3> QED BY <2>1, <3>2 DEF SingleLoader
    <2> QED BY <2>1, <2>2, <2>3
<1>6. CASE UNCHANGED <<isLoading, requests, overlapped>>
    BY <1>6 DEF SingleLoader
<1> QED BY <1>1, <1>2, <1>3, <1>4, <1>5, <1>6
        DEF Next, User, vars, feed, PullIgnored, SelectCategory, Swipe, GoTo,
            DismissInfo, DismissError, DisplayLostRow

\* However often scrolling calls loadMore, a slot has at most one page load in
\* flight, unless a settings save overtook a request.
THEOREM OneLoaderAtATime == Spec => []SingleLoader
<1>1. Init => TypeOK /\ Addressed /\ SlotsPure /\ SingleLoader
    BY InitType, InitPure, InitSingle
<1>2. (TypeOK /\ Addressed /\ SlotsPure /\ SingleLoader) /\ [Next]_vars
          => (TypeOK /\ Addressed /\ SlotsPure /\ SingleLoader)'
    BY TypeStep, PureStep, SingleStep DEF PureInv
<1> QED BY <1>1, <1>2, PTL DEF Spec

-----------------------------------------------------------------------------
(* The child shows what the view model holds.                              *)

\* The error alert belongs to the page on screen: nothing changes the page or
\* clears the error while the alert is up.
AlertHasError == alert = "error" => errors[currentPage]

SyncInv == ChildInSync /\ AlertHasError

LEMMA ConfigureSync ==
    ASSUME NEW s, Configure(s), categories' = s, alert' # "error"
    PROVE  SyncInv'
<1>1. \A i \in DOMAIN s : articlesArray'[i] = <<>> /\ child'[i] = NewChild
    BY DEF Configure, PerSlot
<1>2. NewChild.articles = <<>>
    BY DEF NewChild
<1>3. ChildInSync'
    BY <1>1, <1>2 DEF ChildInSync, Slots
<1> QED BY <1>3 DEF SyncInv, AlertHasError

\* Handing a list over keeps list and child together.
LEMMA ApplySync ==
    ASSUME TypeOK, SyncInv, NEW i \in Slots, NEW list \in Seq(Article),
           Apply(i, list), UNCHANGED <<categories, errors>>
    PROVE  ChildInSync'
<1>1. child[i] \in Child
    BY DEF TypeOK
<1>2. Show(child[i], list).articles = list
    BY <1>1, ShowShape
<1>3. articlesArray'[i] = list /\ child'[i] = Show(child[i], list)
    BY DEF Apply, TypeOK
<1>4. \A j \in Slots : j # i =>
          articlesArray'[j] = articlesArray[j] /\ child'[j] = child[j]
    BY DEF Apply, TypeOK
<1>5. Slots' = Slots /\ errors' = errors
    BY DEF Slots
<1> QED BY <1>2, <1>3, <1>4, <1>5 DEF SyncInv, ChildInSync

LEMMA SyncStep == TypeOK /\ SyncInv /\ [Next]_vars => SyncInv'
<1> SUFFICES ASSUME TypeOK, SyncInv, [Next]_vars PROVE SyncInv'
    OBVIOUS
<1>0. ChildInSync /\ AlertHasError
    BY DEF SyncInv
<1>1. ASSUME NEW s \in Selections, SaveSettings(s) PROVE SyncInv'
    <2>1. alert' # "error"
        BY <1>1 DEF SaveSettings
    <2> QED BY <1>1, <2>1, ConfigureSync DEF SaveSettings
<1>2. CASE Relaunch
    <2>1. alert' # "error"
        BY <1>2 DEF Relaunch
    <2> QED BY <1>2, <2>1, ConfigureSync DEF Relaunch
<1>3. ASSUME NEW i \in Slots, child' = [child EXCEPT ![i].refreshing = TRUE],
             UNCHANGED <<categories, feed, currentPage>>,
             alert' = "error" => alert = "error"
      PROVE  SyncInv'
    <2>1. \A j \in Slots : child'[j].articles = child[j].articles
        BY <1>3 DEF TypeOK, Child
    <2>2. ChildInSync'
        BY <1>0, <1>3, <2>1 DEF ChildInSync, Slots, feed
    <2>3. AlertHasError'
        BY <1>0, <1>3 DEF AlertHasError, feed
    <2> QED BY <2>2, <2>3 DEF SyncInv
<1>4. ASSUME UNCHANGED <<categories, articlesArray, errors, currentPage, child>>,
             alert' = "error" => alert = "error"
      PROVE  SyncInv'
    BY <1>0, <1>4 DEF SyncInv, ChildInSync, AlertHasError, Slots
<1>5. ASSUME NEW j \in Slots, GoTo(j), alert # "error" PROVE SyncInv'
    <2>1. AlertHasError'
        BY <1>5 DEF GoTo, Present, AlertHasError, feed
    <2>2. ChildInSync'
        BY <1>0, <1>5 DEF GoTo, ChildInSync, Slots, feed
    <2> QED BY <2>1, <2>2 DEF SyncInv
<1>6. CASE DismissError
    <2>1. currentPage \in Slots /\ errors[currentPage]
          /\ child[currentPage] \in Child /\ <<>> \in Seq(Article)
        BY <1>0, <1>6 DEF DismissError, AlertHasError, TypeOK
    <2>2. child'[currentPage] = Show(child[currentPage], <<>>)
        BY <1>6, <2>1 DEF DismissError, TypeOK
    <2>3. child'[currentPage].articles = <<>>
        BY <2>1, <2>2, ShowShape
    <2>4. \A j \in Slots : j # currentPage => child'[j] = child[j]
        BY <1>6, <2>1 DEF DismissError, TypeOK
    <2>5. UNCHANGED <<categories, articlesArray, errors>> /\ alert' = "none"
        BY <1>6 DEF DismissError, feed
    <2>6. ChildInSync'
        BY <1>0, <2>1, <2>3, <2>4, <2>5 DEF ChildInSync, Slots
    <2> QED BY <2>5, <2>6 DEF SyncInv, AlertHasError
<1>7. ASSUME NEW r \in requests, Complete(r) PROVE SyncInv'
    <2>1. r \in Request
        BY DEF TypeOK
    <2>2. UNCHANGED <<categories, currentPage>>
          /\ (alert' = "error" => alert = "error")
        BY <1>7 DEF Complete, FetchDone, FetchFailed, RefreshDone, RefreshFailed,
                    LoadMoreDone, LoadMoreEmpty, LoadMoreFailed,
                    AnswerOutOfRange, Answered, Present
    <2>3. ASSUME NEW n \in 0..PageSize,
                 \/ FetchDone(r, n) \/ RefreshDone(r, n) \/ LoadMoreDone(r, n)
          PROVE  SyncInv'
        <3>1. r.index \in Slots /\ UNCHANGED errors
            BY <2>3 DEF FetchDone, RefreshDone, LoadMoreDone, Answered
        <3>2. PageOf(r, n) \in Seq(Article)
              /\ articlesArray[r.index] \in Seq(Article)
            BY <2>1, <3>1, PageShape DEF TypeOK
        <3>3. articlesArray[r.index] \o PageOf(r, n) \in Seq(Article)
            BY <3>2
        <3>4. PICK list \in Seq(Article) : Apply(r.index, list)
            BY <2>3, <3>2, <3>3 DEF FetchDone, RefreshDone, LoadMoreDone
        <3>5. ChildInSync'
            BY <2>2, <3>1, <3>4, ApplySync
        <3> QED BY <1>0, <2>2, <3>1, <3>5 DEF SyncInv, AlertHasError
    <2>4. CASE FetchFailed(r)
        <3>1. /\ UNCHANGED <<categories, articlesArray, currentPage, child, alert>>
              /\ errors' = [errors EXCEPT ![r.index] = TRUE]
            BY <2>4 DEF FetchFailed, Answered
        <3>2. \A j \in Slots : errors[j] => errors'[j]
            BY <3>1 DEF TypeOK
        <3>3. currentPage \in Slots
            BY DEF TypeOK
        <3>4. ChildInSync'
            BY <1>0, <3>1, <3>2 DEF ChildInSync, Slots
        <3>5. AlertHasError'
            BY <1>0, <3>1, <3>2, <3>3 DEF AlertHasError
        <3> QED BY <3>4, <3>5 DEF SyncInv
    <2>5. CASE UNCHANGED <<articlesArray, errors, child>>
        BY <1>4, <2>2, <2>5
    <2>6. 1..PageSize \subseteq 0..PageSize
        BY HomeAssumption, SubTabsAssumption
    <2> QED BY <1>7, <2>3, <2>4, <2>5, <2>6
            DEF Complete, RefreshFailed, LoadMoreEmpty, LoadMoreFailed,
                AnswerOutOfRange, feed
<1>8. ASSUME NEW i \in Slots, NEW t \in FreeTasks, PullToRefresh(i, t)
      PROVE  SyncInv'
    BY <1>3, <1>8 DEF PullToRefresh, Present
<1>9. ASSUME NEW i \in Slots, NEW t \in FreeTasks, LoadMore(i, t)
      PROVE  SyncInv'
    BY <1>4, <1>9 DEF LoadMore, Present
<1>10. ASSUME NEW i \in Slots, PullIgnored(i) PROVE SyncInv'
    BY <1>3, <1>10 DEF PullIgnored
<1>11. ASSUME NEW i \in Slots, DisplayLostRow(i) PROVE SyncInv'
    BY <1>4, <1>11 DEF DisplayLostRow, feed
<1>12. CASE DismissInfo
    BY <1>4, <1>12 DEF DismissInfo, feed
<1>13. CASE UNCHANGED vars
    BY <1>4, <1>13 DEF vars, feed
<1> QED BY <1>1, <1>2, <1>5, <1>6, <1>7, <1>8, <1>9, <1>10, <1>11, <1>12, <1>13
        DEF Next, User, SelectCategory, Swipe

LEMMA InitSync == Init => SyncInv
<1> SUFFICES ASSUME Init PROVE SyncInv
    OBVIOUS
<1>1. \A i \in Slots : articlesArray[i] = <<>> /\ child[i] = NewChild
    BY DEF Init, PerSlot, Slots
<1>2. NewChild.articles = <<>>
    BY DEF NewChild
<1>3. alert # "error"
    BY DEF Init
<1> QED BY <1>1, <1>2, <1>3 DEF SyncInv, ChildInSync, AlertHasError

LEMMA SyncAlways == Spec => []SyncInv
<1>1. TypeOK /\ SyncInv /\ [Next]_vars => SyncInv'
    BY SyncStep
<1> QED BY InitSync, TypeCorrect, <1>1, PTL DEF Spec

\* What a child shows is what the view model holds, except where the alert of a
\* recorded error emptied it.
THEOREM ChildStaysInSync == Spec => []ChildInSync
<1>1. SyncInv => ChildInSync
    BY DEF SyncInv
<1> QED BY SyncAlways, <1>1, PTL

-----------------------------------------------------------------------------
(* No row is lost.  A table asked for a row its list does not have is told *)
(* by NoRowLost of the one state where that happened, so the invariant is  *)
(* about the tables: rows and list, and which requests a covered and an    *)
(* uncovered table can still be answered by.                               *)

RowsInv ==
    ~overlapped =>
        /\ \A i \in Slots : child[i].loadingHidden \/ child[i].rows = 0
        /\ \A r \in requests :
               /\ r.kind = "fetch" => ~child[r.index].loadingHidden
               /\ r.kind = "refresh" => child[r.index].loadingHidden
        /\ \A i \in Slots :
               shrunk[i] \/ child[i].rows <= Len(child[i].articles)

\* What a child that is given a list shows and has uncovered.
LEMMA ShowRows ==
    ASSUME NEW c \in Child, NEW list \in Seq(Article)
    PROVE  /\ Show(c, list).rows = IF Len(list) > 1 THEN Len(list) ELSE c.rows
           /\ Show(c, list).loadingHidden = (c.loadingHidden \/ Len(list) > 1)
           /\ Show(c, list).articles = list
           /\ Len(list) \in Nat
    BY DEF Show

LEMMA ConfigureRows ==
    ASSUME NEW s \in Selections, NEW k \in 0..MaxSaves, Configure(s),
           categories' = s, ~overlapped' => requests' = FirstFetches(s, k)
    PROVE  RowsInv'
<1>1. \A i \in DOMAIN s : child'[i] = NewChild
    BY DEF Configure, PerSlot
<1>2. /\ NewChild.articles = <<>> /\ NewChild.rows = 0
      /\ ~NewChild.loadingHidden /\ 0 <= Len(<<>>)
    BY DEF NewChild
<1>3. \A r \in FirstFetches(s, k) : r.kind = "fetch" /\ r.index \in DOMAIN s
    BY FirstFetchesShape
<1> QED BY <1>1, <1>2, <1>3 DEF RowsInv, Slots

\* A step that leaves the lists, the rows and the cover of every child alone,
\* and adds no request but load-mores and refreshes of uncovered tables.
LEMMA KeepRows ==
    ASSUME RowsInv, UNCHANGED <<categories, overlapped, shrunk>>,
           \A i \in Slots : /\ child'[i].articles = child[i].articles
                            /\ child'[i].rows = child[i].rows
                            /\ child'[i].loadingHidden = child[i].loadingHidden,
           \A r \in requests' :
               \/ r \in requests
               \/ r.kind = "loadMore"
               \/ r.kind = "refresh" /\ child[r.index].loadingHidden,
           ~overlapped => \A r \in requests' : r.index \in Slots
    PROVE  RowsInv'
<1> SUFFICES ASSUME ~overlapped PROVE RowsInv'
    BY DEF RowsInv
<1>1. \A i \in Slots' :
          /\ child'[i].loadingHidden \/ child'[i].rows = 0
          /\ shrunk'[i] \/ child'[i].rows <= Len(child'[i].articles)
    BY DEF RowsInv, Slots
<1>2. \A r \in requests' :
          /\ r.kind = "fetch" => ~child'[r.index].loadingHidden
          /\ r.kind = "refresh" => child'[r.index].loadingHidden
    BY DEF RowsInv
<1> QED BY <1>1, <1>2 DEF RowsInv

\* An answer that brings slot i a list.  The last premise is what every such
\* answer must see to: a list that is not reloaded has no row too many.
LEMMA ApplyRows ==
    ASSUME TypeOK, Addressed, RowsInv, ~overlapped,
           NEW r \in requests, NEW list \in Seq(Article),
           Apply(r.index, list), requests' = requests \ {r},
           UNCHANGED <<categories, overlapped>>,
           \A j \in Slots : j # r.index => shrunk'[j] = shrunk[j],
           \A q \in requests \ {r} : q.index = r.index => q.kind # "fetch",
           Len(list) <= 1 =>
               shrunk'[r.index] \/ child[r.index].rows <= Len(list)
    PROVE  RowsInv'
<1> DEFINE i == r.index
<1>1. i \in Slots /\ child[i] \in Child
    BY DEF Addressed, TypeOK
<1>2. child'[i] = Show(child[i], list)
      /\ \A j \in Slots : j # i => child'[j] = child[j]
    BY <1>1 DEF Apply, TypeOK
<1>3. /\ child'[i].rows = IF Len(list) > 1 THEN Len(list) ELSE child[i].rows
      /\ child'[i].loadingHidden = (child[i].loadingHidden \/ Len(list) > 1)
      /\ child'[i].articles = list
      /\ Len(list) \in Nat
    BY <1>1, <1>2, ShowRows
<1>4. child'[i].loadingHidden \/ child'[i].rows = 0
    BY <1>1, <1>3 DEF RowsInv
<1>5. shrunk'[i] \/ child'[i].rows <= Len(child'[i].articles)
    BY <1>3
<1>6. \A j \in Slots : j # i =>
          /\ child'[j].loadingHidden \/ child'[j].rows = 0
          /\ shrunk'[j] \/ child'[j].rows <= Len(child'[j].articles)
    BY <1>2 DEF RowsInv
<1>7. ASSUME NEW q \in requests'
      PROVE  /\ q.kind = "fetch" => ~child'[q.index].loadingHidden
             /\ q.kind = "refresh" => child'[q.index].loadingHidden
    <2>1. q \in requests \ {r} /\ q.index \in Slots
        BY <1>7 DEF Addressed
    <2>2. CASE q.index = i
        BY <1>3, <2>1, <2>2 DEF RowsInv
    <2>3. CASE q.index # i
        BY <1>2, <2>1, <2>3 DEF RowsInv
    <2> QED BY <2>2, <2>3
<1> HIDE DEF i
<1> QED BY <1>4, <1>5, <1>6, <1>7 DEF RowsInv, Slots

\* The answers that bring a list.
LEMMA AnswerRows ==
    ASSUME PureInv, SingleLoader, ChildInSync, RowsInv, ~overlapped,
           NEW r \in requests, NEW n \in 0..PageSize,
           \/ FetchDone(r, n)
           \/ RefreshDone(r, n)
           \/ n # 0 /\ LoadMoreDone(r, n)
    PROVE  RowsInv'
<1>0. TypeOK /\ Addressed
    BY DEF PureInv
<1>1. r \in Request /\ r.index \in Slots /\ n \in Nat
    BY <1>0, HomeAssumption DEF TypeOK, Addressed
<1>2. /\ PageOf(r, n) \in Seq(Article) /\ Len(PageOf(r, n)) = n
      /\ articlesArray[r.index] \in Seq(Article)
    BY <1>0, <1>1, PageShape DEF TypeOK, PageOf
<1>3. requests' = requests \ {r} /\ UNCHANGED <<categories, overlapped>>
    BY DEF FetchDone, RefreshDone, LoadMoreDone, Answered
<1>4. child[r.index].rows \in Nat /\ shrunk \in [Slots -> BOOLEAN]
    BY <1>0, <1>1 DEF TypeOK, Child
<1>5. CASE FetchDone(r, n)
    <2>1. r.kind = "fetch" /\ shrunk' = shrunk /\ Apply(r.index, PageOf(r, n))
        BY <1>5 DEF FetchDone, Answered
    <2>2. child[r.index].rows = 0
        BY <1>1, <2>1 DEF RowsInv
    <2>3. \A q \in requests \ {r} : q.index = r.index => q.kind # "fetch"
        BY <2>1 DEF SingleLoader
    <2> QED BY <1>0, <1>1, <1>2, <1>3, <2>1, <2>2, <2>3, ApplyRows
<1>6. CASE RefreshDone(r, n)
    <2>1. /\ r.kind = "refresh" /\ Apply(r.index, PageOf(r, n))
          /\ shrunk' = [shrunk EXCEPT ![r.index] = n <= 1]
        BY <1>6 DEF RefreshDone, Answered
    <2>2. n <= 1 => shrunk'[r.index]
        BY <1>1, <1>4, <2>1
    <2>3. \A j \in Slots : j # r.index => shrunk'[j] = shrunk[j]
        BY <1>4, <2>1
    <2>4. \A q \in requests \ {r} : q.index = r.index => q.kind # "fetch"
        BY <2>1 DEF RowsInv
    <2> QED BY <1>0, <1>1, <1>2, <1>3, <2>1, <2>2, <2>3, <2>4, ApplyRows
<1>7. CASE n # 0 /\ LoadMoreDone(r, n)
    <2> DEFINE old == articlesArray[r.index]
               list == old \o PageOf(r, n)
    <2>1. /\ r.kind = "loadMore" /\ Apply(r.index, list)
          /\ shrunk' = [shrunk EXCEPT ![r.index] = @ /\ Len(old) + n <= 1]
        BY <1>7 DEF LoadMoreDone, Answered
    <2>2. /\ list \in Seq(Article) /\ Len(list) = Len(old) + n
          /\ Len(old) \in Nat /\ (Len(old) = 0 => old = <<>>)
        BY <1>1, <1>2
    <2>3. \A q \in requests \ {r} : q.index = r.index => q.kind # "fetch"
        BY <2>1 DEF SingleLoader
    <2>4. \A j \in Slots : j # r.index => shrunk'[j] = shrunk[j]
        BY <1>4, <2>1
    <2>5. ASSUME Len(list) <= 1
          PROVE  shrunk'[r.index] \/ child[r.index].rows <= Len(list)
        <3>1. Len(old) = 0 /\ old = <<>> /\ n = 1
            BY <1>1, <1>7, <2>2, <2>5
        <3>2. child[r.index].articles = <<>>
            BY <1>1, <3>1 DEF ChildInSync
        <3>3. shrunk[r.index] \/ child[r.index].rows <= 0
            BY <1>1, <3>2 DEF RowsInv
        <3>4. shrunk[r.index] => shrunk'[r.index]
            BY <1>1, <1>4, <2>1, <3>1
        <3> QED BY <1>4, <2>2, <3>1, <3>3, <3>4
    <2> HIDE DEF list
    <2> QED BY <1>0, <1>3, <2>1, <2>2, <2>3, <2>4, <2>5, ApplyRows
<1> QED BY <1>5, <1>6, <1>7

LEMMA RowsStep ==
    PureInv /\ SingleLoader /\ SyncInv /\ RowsInv /\ [Next]_vars => RowsInv'
<1> SUFFICES ASSUME PureInv, SingleLoader, SyncInv, RowsInv, [Next]_vars
             PROVE  RowsInv'
    OBVIOUS
<1>0. TypeOK /\ Addressed /\ ChildInSync
    BY DEF PureInv, SyncInv
<1>1. ASSUME NEW s \in Selections, SaveSettings(s) PROVE RowsInv'
    <2>1. saves + 1 \in 0..MaxSaves
        BY <1>0, <1>1, HomeAssumption, SubTabsAssumption DEF SaveSettings, TypeOK
    <2>2. ~overlapped' => requests' = FirstFetches(s, saves + 1)
        BY <1>1 DEF SaveSettings
    <2> QED BY <1>1, <2>1, <2>2, ConfigureRows DEF SaveSettings
<1>2. CASE Relaunch
    <2>1. categories \in Selections /\ saves \in 0..MaxSaves
        BY <1>0 DEF TypeOK
    <2> QED BY <1>2, <2>1, ConfigureRows DEF Relaunch
<1>3. ASSUME NEW i \in Slots, child' = [child EXCEPT ![i].refreshing = TRUE]
      PROVE  \A j \in Slots :
                 /\ child'[j].articles = child[j].articles
                 /\ child'[j].rows = child[j].rows
                 /\ child'[j].loadingHidden = child[j].loadingHidden
    BY <1>0, <1>3 DEF TypeOK, Child
<1>4. ASSUME NEW i \in Slots, PullIgnored(i) PROVE RowsInv'
    BY <1>0, <1>3, <1>4, KeepRows DEF PullIgnored, Addressed
<1>5. ASSUME NEW i \in Slots, NEW t \in FreeTasks, PullToRefresh(i, t)
      PROVE  RowsInv'
    <2>1. \A q \in Send("refresh", i, 1, t) : q.kind = "refresh" /\ q.index = i
        BY DEF Send
    <2>2. child[i].loadingHidden
        BY <1>5 DEF PullToRefresh, CanPull
    <2> QED BY <1>0, <1>3, <1>5, <2>1, <2>2, KeepRows
            DEF PullToRefresh, Addressed
<1>6. ASSUME NEW i \in Slots, NEW t \in FreeTasks, LoadMore(i, t)
      PROVE  RowsInv'
    <2>1. \A q \in Send("loadMore", i, currentPageParam[i] + 1, t) :
              q.kind = "loadMore" /\ q.index = i
        BY DEF Send
    <2> QED BY <1>0, <1>6, <2>1, KeepRows DEF LoadMore, Addressed
<1>7. CASE DismissError
    <2>1. currentPage \in Slots /\ child[currentPage] \in Child
          /\ <<>> \in Seq(Article)
        BY <1>0 DEF TypeOK
    <2>2. /\ child'[currentPage] = Show(child[currentPage], <<>>)
          /\ shrunk'[currentPage]
          /\ \A j \in Slots : j # currentPage =>
                 child'[j] = child[j] /\ shrunk'[j] = shrunk[j]
        BY <1>0, <1>7, <2>1 DEF DismissError, TypeOK
    <2>3. /\ child'[currentPage].rows = child[currentPage].rows
          /\ child'[currentPage].loadingHidden = child[currentPage].loadingHidden
        BY <2>1, <2>2 DEF Show, Child
    <2>4. UNCHANGED <<categories, requests, overlapped>>
        BY <1>7 DEF DismissError
    <2>5. ASSUME ~overlapped, NEW j \in Slots
          PROVE  /\ child'[j].loadingHidden \/ child'[j].rows = 0
                 /\ shrunk'[j] \/ child'[j].rows <= Len(child'[j].articles)
        BY <2>2, <2>3, <2>5 DEF RowsInv
    <2>6. ASSUME ~overlapped, NEW r \in requests
          PROVE  /\ r.kind = "fetch" => ~child'[r.index].loadingHidden
                 /\ r.kind = "refresh" => child'[r.index].loadingHidden
        BY <1>0, <2>2, <2>3, <2>6 DEF RowsInv, Addressed
    <2> QED BY <2>4, <2>5, <2>6 DEF RowsInv, Slots
<1>8. ASSUME NEW r \in requests, Complete(r) PROVE RowsInv'
    <2>1. requests' = requests \ {r} /\ UNCHANGED <<categories, overlapped>>
        BY <1>8 DEF Complete, FetchDone, FetchFailed, RefreshDone, RefreshFailed,
                    LoadMoreDone, LoadMoreEmpty, LoadMoreFailed,
                    AnswerOutOfRange, Answered
    <2>2. CASE overlapped
        BY <2>1, <2>2 DEF RowsInv
    <2>3. ASSUME ~overlapped, NEW n \in 0..PageSize,
                 \/ FetchDone(r, n)
                 \/ RefreshDone(r, n)
                 \/ n # 0 /\ LoadMoreDone(r, n)
          PROVE  RowsInv'
        BY <1>0, <2>3, AnswerRows
    <2>4. CASE UNCHANGED <<child, shrunk>>
        BY <1>0, <2>1, <2>4, KeepRows DEF Addressed
    <2>5. \A n \in 1..PageSize : n \in 0..PageSize /\ n # 0
        BY HomeAssumption
    <2> QED BY <1>8, <2>2, <2>3, <2>4, <2>5
            DEF Complete, FetchFailed, RefreshFailed, LoadMoreEmpty,
                LoadMoreFailed, AnswerOutOfRange
<1>9. CASE UNCHANGED <<categories, child, requests, overlapped, shrunk>>
    BY <1>0, <1>9, KeepRows DEF Addressed
<1> QED BY <1>1, <1>2, <1>4, <1>5, <1>6, <1>7, <1>8, <1>9
        DEF Next, User, vars, SelectCategory, Swipe, GoTo, DismissInfo,
            DisplayLostRow

LEMMA InitRows == Init => RowsInv
<1> SUFFICES ASSUME Init PROVE RowsInv
    OBVIOUS
<1>1. AllCases \in Selections /\ 0 \in 0..MaxSaves
    BY AllCasesSelected, HomeAssumption, SubTabsAssumption
<1>2. \A i \in Slots : child[i] = NewChild
    BY DEF Init, PerSlot, Slots
<1>3. /\ NewChild.articles = <<>> /\ NewChild.rows = 0
      /\ ~NewChild.loadingHidden /\ 0 <= Len(<<>>)
    BY DEF NewChild
<1>4. \A r \in requests : r.kind = "fetch" /\ r.index \in Slots
    BY <1>1, FirstFetchesShape DEF Init, Slots
<1> QED BY <1>2, <1>3, <1>4 DEF RowsInv

\* Only DisplayLostRow ends the process at a row, and where it does RowsInv says
\* that its list had shrunk; nothing but a relaunch happens afterwards.
LEMMA NoRowLostStep ==
    TypeOK /\ RowsInv /\ NoRowLost /\ [Next]_vars => NoRowLost'
<1> SUFFICES ASSUME TypeOK, RowsInv, NoRowLost, [Next]_vars, trap' = "row"
             PROVE  overlapped' \/ \E i \in Slots' : shrunk'[i]
    BY DEF NoRowLost
<1>1. ASSUME NEW i \in Slots, DisplayLostRow(i)
      PROVE  overlapped' \/ \E j \in Slots' : shrunk'[j]
    <2>1. child[i].rows \in Nat /\ Len(child[i].articles) \in Nat
        BY DEF TypeOK, Child
    <2>2. ~(child[i].rows <= Len(child[i].articles))
        BY <1>1, <2>1 DEF DisplayLostRow
    <2>3. UNCHANGED <<categories, overlapped, shrunk>>
        BY <1>1 DEF DisplayLostRow
    <2> QED BY <2>2, <2>3 DEF RowsInv, Slots
<1>2. CASE UNCHANGED vars
    BY <1>2 DEF vars, NoRowLost, Slots
<1>3. ASSUME NEW r \in requests, Complete(r) PROVE FALSE
    BY <1>3 DEF Complete, FetchDone, FetchFailed, RefreshDone, RefreshFailed,
                LoadMoreDone, LoadMoreEmpty, LoadMoreFailed, AnswerOutOfRange,
                Answered
<1> QED BY <1>1, <1>2, <1>3
        DEF Next, User, Relaunch, SaveSettings, PullIgnored, PullToRefresh,
            CanPull, LoadMore, SelectCategory, Swipe, GoTo, DismissInfo,
            DismissError

\* Whatever the order of scrolls, pulls, answers and alerts, the table asks for a
\* row its list has lost only where a list went down to at most one article, by
\* a refresh or by Ok on an error's alert, or settings overtook a request.
THEOREM RowsAreNotLost == Spec => []NoRowLost
<1>1. Init => RowsInv /\ NoRowLost
    BY InitRows DEF Init, NoRowLost
<1>2. TypeOK /\ Addressed /\ SlotsPure /\ SingleLoader /\ SyncInv
          /\ RowsInv /\ NoRowLost /\ [Next]_vars
          => RowsInv' /\ NoRowLost'
    BY RowsStep, NoRowLostStep DEF PureInv
<1>3. Init => Addressed
    BY InitPure
<1>4. TypeOK /\ Addressed /\ SlotsPure /\ [Next]_vars => Addressed'
    BY PureStep DEF PureInv
<1> QED BY <1>1, <1>2, <1>3, <1>4, TypeCorrect, SlotsStayPure, OneLoaderAtATime,
           SyncAlways, PTL DEF Spec

-----------------------------------------------------------------------------
(* The leading pinned categories.  In every selection they keep the slots  *)
(* they have in allCases, so a request to such a slot names the category   *)
(* the slot will have when the answer comes, whatever was saved meanwhile. *)

\* A set of numbers has a least one.
LEMMA LeastNumber ==
    ASSUME NEW T \in SUBSET Nat, T # {}
    PROVE  \E x \in T : \A y \in T : x <= y
<1> DEFINE R == OpToRel(<, Nat)
<1>1. IsWellFoundedOn(R, Nat)
    BY NatLessThanWellFounded
<1>2. \A x, y \in Nat : x < y => <<x, y>> \in R
    BY DEF OpToRel
<1> HIDE DEF R
<1>3. PICK x \in T : \A y \in T : ~(<<y, x>> \in R)
    BY <1>1, WFMin
<1>4. \A y \in T : y \in Nat /\ x \in Nat /\ ~(y < x)
    BY <1>2, <1>3
<1> QED BY <1>4

\* The first i categories are all pinned.
Leading(i) == \A k \in 1..i : AllCases[k] \in Pinned

\* A category is in a selection once.
LEMMA SelectionOnce ==
    ASSUME NEW s \in Selections, NEW j \in DOMAIN s, NEW k \in DOMAIN s, j < k
    PROVE  s[j] # s[k]
<1>1. PICK a, b \in DOMAIN AllCases :
          a < b /\ s[j] = AllCases[a] /\ s[k] = AllCases[b]
    BY DEF Selections
<1>2. AllCases[a] # AllCases[b]
    <2>1. DOMAIN AllCases \subseteq Nat
        BY SubTabsAssumption
    <2>2. a # b
        BY <1>1, <2>1
    <2> QED BY <2>2, SubTabsAssumption
<1> QED BY <1>1, <1>2

\* A leading pinned category has the same slot in every selection: take the
\* first slot where it does not; its own category comes later, so another of
\* the leading ones would be there a second time.
LEMMA LeadingSlot ==
    ASSUME NEW s \in Selections, NEW i \in DOMAIN s, Leading(i)
    PROVE  s[i] = AllCases[i]
<1>1. PICK n \in Nat : /\ n <= Len(AllCases) /\ DOMAIN s = 1..n
                       /\ s \in [1..n -> Category]
    BY SubTabsAssumption DEF Selections
<1>2. DOMAIN AllCases = 1..Len(AllCases) /\ Len(AllCases) \in Nat
    BY SubTabsAssumption
<1> DEFINE Bad == {k \in 1..i : s[k] # AllCases[k]}
<1> SUFFICES ASSUME Bad # {} PROVE FALSE
    BY <1>1
<1>3. Bad \in SUBSET Nat /\ \A k \in 1..i : k \in DOMAIN s /\ k \in DOMAIN AllCases
    BY <1>1, <1>2
<1>4. PICK m \in Bad : \A k \in Bad : m <= k
    BY <1>3, LeastNumber
<1>5. /\ m \in 1..i /\ m \in Nat /\ s[m] # AllCases[m]
      /\ m \in DOMAIN s /\ m \in DOMAIN AllCases
    BY <1>1, <1>2, <1>3, <1>4
<1>6. \A k \in 1..(m - 1) : s[k] = AllCases[k] /\ k \in DOMAIN s
    <2> SUFFICES ASSUME NEW k \in 1..(m - 1) PROVE s[k] = AllCases[k] /\ k \in DOMAIN s
        OBVIOUS
    <2>1. k \in 1..i /\ ~(m <= k)
        BY <1>1, <1>5
    <2> QED BY <1>3, <1>4, <2>1
<1>7. PICK p \in DOMAIN s : s[p] = AllCases[m]
    BY <1>5 DEF Leading, Selections
<1>8. p \in Nat /\ p # m
    BY <1>1, <1>5, <1>7
<1>9. CASE p < m
    <2>1. p \in 1..(m - 1)
        BY <1>1, <1>5, <1>7, <1>9
    <2>2. AllCases[p] = AllCases[m] /\ p \in DOMAIN AllCases
        BY <1>1, <1>2, <1>6, <1>7, <2>1
    <2> QED BY <1>5, <1>8, <2>2, SubTabsAssumption
<1>10. CASE m < p
    <2>1. PICK a, b \in DOMAIN AllCases :
              a < b /\ s[m] = AllCases[a] /\ s[p] = AllCases[b]
        BY <1>5, <1>7, <1>10 DEF Selections
    <2>2. b = m
        BY <1>5, <1>7, <2>1, SubTabsAssumption
    <2>3. a \in 1..(m - 1)
        BY <1>2, <1>5, <2>1, <2>2
    <2>4. s[a] = s[m] /\ a \in DOMAIN s /\ a < m
        BY <1>5, <1>6, <2>1, <2>3
    <2> QED BY <1>5, <2>4, SelectionOnce
<1> QED BY <1>5, <1>8, <1>9, <1>10

\* A request to a leading pinned slot is for the category of that slot.
PinnedAddressed ==
    \A r \in requests : Leading(r.index) => r.category = AllCases[r.index]

PinnedInv == PinnedAddressed /\ PinnedSlotsPure

\* The requests of the new tab and the empty lists.
LEMMA ConfigurePinned ==
    ASSUME PinnedInv, NEW s \in Selections, NEW k \in 0..MaxSaves, Configure(s),
           categories' = s, requests' \subseteq requests \cup FirstFetches(s, k)
    PROVE  PinnedInv'
<1>1. \A r \in FirstFetches(s, k) : Leading(r.index) => r.category = AllCases[r.index]
    BY FirstFetchesShape, LeadingSlot
<1>2. PinnedAddressed'
    BY <1>1 DEF PinnedInv, PinnedAddressed
<1>3. \A i \in DOMAIN s : articlesArray'[i] = <<>>
    BY DEF Configure, PerSlot
<1>4. PinnedSlotsPure'
    BY <1>3 DEF PinnedSlotsPure, Slots
<1> QED BY <1>2, <1>4 DEF PinnedInv

\* The articles of an answer at a leading pinned slot.
LEMMA ApplyPinned ==
    ASSUME TypeOK, PinnedInv, NEW r \in requests, r.index \in Slots,
           NEW n \in 0..PageSize, NEW list, Apply(r.index, list),
           \/ list = PageOf(r, n)
           \/ list = articlesArray[r.index] \o PageOf(r, n),
           UNCHANGED categories
    PROVE  PinnedSlotsPure'
<1> DEFINE a == articlesArray[r.index]
           b == PageOf(r, n)
<1>1. r \in Request /\ a \in Seq(Article)
    BY DEF TypeOK
<1>2. b \in Seq(Article) /\ \A k \in DOMAIN b : b[k].category = r.category
    BY <1>1, PageShape
<1>3. ASSUME Leading(r.index)
      PROVE  \A k \in DOMAIN list : list[k].category = AllCases[r.index]
    <2>1. r.category = AllCases[r.index]
        BY <1>3 DEF PinnedInv, PinnedAddressed
    <2>2. \A k \in DOMAIN a : a[k].category = AllCases[r.index]
        BY <1>3 DEF PinnedInv, PinnedSlotsPure, Leading
    <2>3. list = b \/ list = a \o b
        OBVIOUS
    <2> HIDE DEF a, b
    <2>4. \A k \in DOMAIN (a \o b) : (a \o b)[k].category = AllCases[r.index]
        BY <1>1, <1>2, <2>1, <2>2
    <2> QED BY <1>2, <2>1, <2>3, <2>4
<1>4. \A i \in Slots : articlesArray'[i] = IF i = r.index THEN list
                                           ELSE articlesArray[i]
    BY DEF Apply, TypeOK
<1>5. Slots' = Slots
    BY DEF Slots
<1> QED BY <1>3, <1>4, <1>5 DEF PinnedInv, PinnedSlotsPure, Leading

LEMMA PinnedStep == TypeOK /\ PinnedInv /\ [Next]_vars => PinnedInv'
<1> SUFFICES ASSUME TypeOK, PinnedInv, [Next]_vars PROVE PinnedInv'
    OBVIOUS
<1>1. ASSUME NEW s \in Selections, SaveSettings(s) PROVE PinnedInv'
    <2>1. saves + 1 \in 0..MaxSaves
        BY <1>1, HomeAssumption, SubTabsAssumption DEF SaveSettings, TypeOK
    <2> QED BY <1>1, <2>1, ConfigurePinned DEF SaveSettings
<1>2. CASE Relaunch
    <2>1. categories \in Selections /\ saves \in 0..MaxSaves
        BY DEF TypeOK
    <2> QED BY <1>2, <2>1, ConfigurePinned DEF Relaunch
<1>3. ASSUME NEW i \in Slots, NEW t \in FreeTasks,
             PullToRefresh(i, t) \/ LoadMore(i, t)
      PROVE  PinnedInv'
    <2>1. PICK kind, page : requests' = requests \cup Send(kind, i, page, t)
        BY <1>3 DEF PullToRefresh, LoadMore
    <2>2. \A r \in Send(kind, i, page, t) :
              r.index = i /\ r.category = categories[i]
        BY DEF Send
    <2>3. Leading(i) => categories[i] = AllCases[i]
        BY LeadingSlot DEF TypeOK, Slots
    <2>4. PinnedAddressed'
        BY <2>1, <2>2, <2>3 DEF PinnedInv, PinnedAddressed
    <2>5. UNCHANGED <<categories, articlesArray>>
        BY <1>3 DEF PullToRefresh, LoadMore, feed
    <2>6. PinnedSlotsPure'
        BY <2>5 DEF PinnedInv, PinnedSlotsPure, Slots
    <2> QED BY <2>4, <2>6 DEF PinnedInv
<1>4. ASSUME NEW r \in requests, Complete(r) PROVE PinnedInv'
    <2>1. requests' = requests \ {r} /\ UNCHANGED categories
        BY <1>4 DEF Complete, FetchDone, FetchFailed, RefreshDone, RefreshFailed,
                    LoadMoreDone, LoadMoreEmpty, LoadMoreFailed,
                    AnswerOutOfRange, Answered
    <2>2. PinnedAddressed'
        BY <2>1 DEF PinnedInv, PinnedAddressed
    <2>3. ASSUME NEW n \in 0..PageSize,
                 \/ FetchDone(r, n) \/ RefreshDone(r, n) \/ LoadMoreDone(r, n)
          PROVE  PinnedSlotsPure'
        <3>1. r.index \in Slots
            BY <2>3 DEF FetchDone, RefreshDone, LoadMoreDone, Answered
        <3>2. \/ Apply(r.index, PageOf(r, n))
              \/ Apply(r.index, articlesArray[r.index] \o PageOf(r, n))
            BY <2>3 DEF FetchDone, RefreshDone, LoadMoreDone
        <3>3. CASE Apply(r.index, PageOf(r, n))
            BY <2>1, <3>1, <3>3, ApplyPinned
        <3>4. CASE Apply(r.index, articlesArray[r.index] \o PageOf(r, n))
            BY <2>1, <3>1, <3>4, ApplyPinned
        <3> QED BY <3>2, <3>3, <3>4
    <2>4. ASSUME UNCHANGED articlesArray PROVE PinnedSlotsPure'
        BY <2>1, <2>4 DEF PinnedInv, PinnedSlotsPure, Slots
    <2>5. 1..PageSize \subseteq 0..PageSize
        BY HomeAssumption, SubTabsAssumption
    <2>6. \/ UNCHANGED articlesArray
          \/ \E n \in 0..PageSize :
                 \/ FetchDone(r, n) \/ RefreshDone(r, n) \/ LoadMoreDone(r, n)
        BY <1>4, <2>5
        DEF Complete, FetchFailed, RefreshFailed, LoadMoreEmpty, LoadMoreFailed,
            AnswerOutOfRange, feed
    <2>7. PinnedSlotsPure'
        BY <2>3, <2>4, <2>6
    <2> QED BY <2>2, <2>7 DEF PinnedInv
<1>5. CASE UNCHANGED <<categories, articlesArray, requests>>
    BY <1>5 DEF PinnedInv, PinnedAddressed, PinnedSlotsPure, Slots
<1> QED BY <1>1, <1>2, <1>3, <1>4, <1>5
        DEF Next, User, vars, feed, PullIgnored, SelectCategory, Swipe, GoTo,
            DismissInfo, DismissError, DisplayLostRow

LEMMA InitPinned == Init => PinnedInv
<1> SUFFICES ASSUME Init PROVE PinnedInv
    OBVIOUS
<1>1. AllCases \in Selections /\ 0 \in 0..MaxSaves
    BY AllCasesSelected, HomeAssumption, SubTabsAssumption
<1>2. \A r \in FirstFetches(AllCases, 0) : r.category = AllCases[r.index]
    BY <1>1, FirstFetchesShape
<1> QED BY <1>2 DEF Init, PinnedInv, PinnedAddressed, PinnedSlotsPure, PerSlot, Slots

\* Whatever is saved over whatever request, no foreign article ever gets into
\* the slot of a leading pinned category.
THEOREM PinnedSlotsStayPure == Spec => []PinnedSlotsPure
<1>1. TypeOK /\ PinnedInv /\ [Next]_vars => PinnedInv'
    BY PinnedStep
<1>2. PinnedInv => PinnedSlotsPure
    BY DEF PinnedInv
<1> QED BY InitPinned, TypeCorrect, <1>1, <1>2, PTL DEF Spec

-----------------------------------------------------------------------------
(* The refresh control.                                                    *)

LEMMA SpinnerStep ==
    ASSUME TypeOK, [Next]_vars, NEW i \in Slots,
           child[i].refreshing, Served(i),
           i \in Slots', child'[i].refreshing, ~Served(i)'
    PROVE  \E r \in requests : \/ RefreshFailed(r) \/ FetchFailed(r)
                               \/ LoadMoreEmpty(r) \/ LoadMoreFailed(r)
<1>1. PICK q \in requests : q.index = i /\ q \notin requests'
    BY DEF Served
<1>2. ASSUME NEW s, Configure(s), categories' = s PROVE FALSE
    <2>1. child'[i] = NewChild
        BY <1>2 DEF Configure, PerSlot, Slots
    <2> QED BY <2>1 DEF NewChild
<1>3. ~Relaunch /\ \A s \in Selections : ~SaveSettings(s)
    BY <1>2 DEF Relaunch, SaveSettings
<1>4. PICK r \in requests : Complete(r)
    BY <1>1, <1>3
    DEF Next, User, vars, feed, PullIgnored, PullToRefresh, LoadMore, SelectCategory,
        Swipe, GoTo, DismissInfo, DismissError, DisplayLostRow
<1>5. r = q
    BY <1>1, <1>4
    DEF Complete, FetchDone, FetchFailed, RefreshDone, RefreshFailed, LoadMoreDone,
        LoadMoreEmpty, LoadMoreFailed, AnswerOutOfRange, Answered
<1>6. ~AnswerOutOfRange(r)
    BY <1>1, <1>5 DEF AnswerOutOfRange
<1>7. ASSUME NEW list, Apply(r.index, list) PROVE FALSE
    <2>1. child'[i] = Show(child[i], list)
        BY <1>1, <1>5, <1>7 DEF Apply, TypeOK
    <2> QED BY <2>1 DEF Show
<1> QED BY <1>4, <1>6, <1>7 DEF Complete, FetchDone, RefreshDone, LoadMoreDone

\* A refresh control is left spinning, with no request that would stop it, only
\* by an answer that brings no list: not by a save, a relaunch or an answer
\* meant for another slot.
THEOREM SpinnerStoppedOrFailed == Spec => SpinnerLeftByFailure
<1>1. TypeOK /\ [Next]_vars =>
        [\A i \in Slots :
           /\ child[i].refreshing /\ Served(i)
           /\ i \in Slots' /\ child'[i].refreshing /\ ~Served(i)'
           => \E r \in requests :
                  \/ RefreshFailed(r)
                  \/ FetchFailed(r)
                  \/ LoadMoreEmpty(r)
                  \/ LoadMoreFailed(r)]_vars
    BY SpinnerStep
<1> QED BY <1>1, TypeCorrect, PTL DEF Spec, SpinnerLeftByFailure
-----------------------------------------------------------------------------
(* The pages of a list.  PagesContiguous says nothing of the requests in   *)
(* flight; what it takes is that the load-more of a slot, if there is one, *)
(* asks for the page after the last one listed, and that currentPageParam  *)
(* is the last page listed as long as another can be loaded.               *)

LastPage(list) == list[Len(list)].page

\* Contiguous, and the last page is the highest.
PageList(list) ==
    /\ Contiguous(list)
    /\ \A k \in DOMAIN list : list[k].page <= LastPage(list)

PagesOf(i) ==
    /\ PageList(articlesArray[i])
    /\ articlesArray[i] = <<>> =>
           \E r \in requests : r.index = i /\ r.kind = "fetch"
    /\ \A r \in requests : r.index = i /\ r.kind = "loadMore" =>
           /\ articlesArray[i] # <<>>
           /\ r.page = currentPageParam[i]
           /\ r.page = LastPage(articlesArray[i]) + 1
    /\ ~LoadMoreInFlight(i) /\ canLoadMore[i] /\ articlesArray[i] # <<>> =>
           currentPageParam[i] = LastPage(articlesArray[i])

\* First fetches and refreshes ask for page 1, and none is overtaken.
FirstPages ==
    \A r \in requests :
        /\ r.kind = "fetch" => r.page = 1 /\ currentPageParam[r.index] = 1
        /\ r.kind = "refresh" => r.page = 1

PagingInv == ~overlapped => FirstPages /\ \A i \in Slots : ~gap[i] => PagesOf(i)

\* The articles of an answer, one after the other.
LEMMA PageElements ==
    ASSUME NEW r \in Request, NEW n \in 0..PageSize
    PROVE  /\ PageOf(r, n) \in Seq(Article) /\ Len(PageOf(r, n)) = n
           /\ \A k \in 1..n : /\ PageOf(r, n)[k].page = r.page
                              /\ PageOf(r, n)[k].pos = k
<1>1. n \in Nat /\ 1..n \subseteq 1..PageSize
    BY HomeAssumption, SubTabsAssumption
<1>2. PageOf(r, n) \in [1..n -> Article]
    BY <1>1 DEF PageOf, Request, Article
<1> QED BY <1>1, <1>2 DEF PageOf

\* Page 1 alone is a list of pages.
LEMMA OnePage ==
    ASSUME NEW r \in Request, NEW n \in 0..PageSize, r.page = 1
    PROVE  /\ PageList(PageOf(r, n))
           /\ n # 0 => PageOf(r, n) # <<>> /\ LastPage(PageOf(r, n)) = 1
<1> DEFINE p == PageOf(r, n)
<1>1. /\ p \in Seq(Article) /\ Len(p) = n /\ DOMAIN p = 1..n /\ n \in Nat
      /\ \A k \in 1..n : p[k].page = 1 /\ p[k].pos = k
    BY PageElements, HomeAssumption
<1> HIDE DEF p
<1>2. n # 0 => p # <<>> /\ LastPage(p) = 1
    BY <1>1 DEF LastPage
<1>3. p # <<>> => p[1].page = 1
    BY <1>1
<1>4. \A k \in 1..(Len(p) - 1) : p[k + 1].page \in {p[k].page, p[k].page + 1}
    <2> SUFFICES ASSUME NEW k \in 1..(Len(p) - 1)
                 PROVE  p[k + 1].page \in {p[k].page, p[k].page + 1}
        OBVIOUS
    <2>1. k \in 1..n /\ k + 1 \in 1..n
        BY <1>1
    <2> QED BY <1>1, <2>1
<1>5. \A j, k \in DOMAIN p : p[j] = p[k] => j = k
    <2> SUFFICES ASSUME NEW j \in DOMAIN p, NEW k \in DOMAIN p, p[j] = p[k]
                 PROVE  j = k
        OBVIOUS
    <2>1. p[j].pos = j /\ p[k].pos = k
        BY <1>1
    <2> QED BY <2>1
<1>6. \A k \in DOMAIN p : p[k].page <= LastPage(p)
    BY <1>1, <1>2
<1>7. PageList(p)
    BY <1>3, <1>4, <1>5, <1>6 DEF PageList, Contiguous
<1> QED BY <1>2, <1>7 DEF p

\* The next page at the end of a list of pages.
LEMMA NextPage ==
    ASSUME NEW list \in Seq(Article), list # <<>>, PageList(list),
           NEW r \in Request, NEW n \in 1..PageSize, r.page = LastPage(list) + 1
    PROVE  /\ PageList(list \o PageOf(r, n))
           /\ list \o PageOf(r, n) # <<>>
           /\ LastPage(list \o PageOf(r, n)) = r.page
<1> DEFINE p == PageOf(r, n)
           l == list \o p
<1>1. n \in 0..PageSize /\ n \in Nat \ {0}
    BY HomeAssumption
<1>2. /\ p \in Seq(Article) /\ Len(p) = n
      /\ \A k \in 1..n : p[k].page = r.page /\ p[k].pos = k
    BY <1>1, PageElements
<1> HIDE DEF p
<1>3. /\ Len(list) \in Nat \ {0} /\ DOMAIN list = 1..Len(list)
      /\ Len(l) = Len(list) + n /\ DOMAIN l = 1..(Len(list) + n)
      /\ \A k \in 1..Len(list) : l[k] = list[k]
      /\ \A k \in 1..n : l[Len(list) + k] = p[k]
    BY <1>1, <1>2
<1> HIDE DEF l
<1>4. \A k \in DOMAIN l :
         \/ k \in DOMAIN list /\ l[k] = list[k]
         \/ k - Len(list) \in 1..n /\ l[k] = p[k - Len(list)]
    <2> SUFFICES ASSUME NEW k \in DOMAIN l, k \notin DOMAIN list
                 PROVE  k - Len(list) \in 1..n /\ l[k] = p[k - Len(list)]
        BY <1>3
    <2>1. k - Len(list) \in 1..n /\ k = Len(list) + (k - Len(list))
        BY <1>1, <1>3
    <2> QED BY <1>3, <2>1
<1>5. l # <<>> /\ LastPage(l) = r.page
    <2>1. Len(list) + n = Len(l) /\ n \in 1..n /\ l[Len(l)] = p[n]
        BY <1>1, <1>3
    <2> QED BY <1>1, <1>2, <1>3, <2>1 DEF LastPage
<1>6. r.page \in Nat /\ LastPage(list) \in Nat
      /\ \A k \in DOMAIN list : list[k].page \in Nat /\ list[k].page <= LastPage(list)
    <2>1. \A k \in DOMAIN list : list[k] \in Article
        OBVIOUS
    <2>2. \A k \in DOMAIN list : list[k].page \in Nat
        BY <2>1 DEF Article
    <2>3. r.page \in Nat
        BY DEF Request
    <2>4. Len(list) \in DOMAIN list
        BY <1>3
    <2> QED BY <2>2, <2>3, <2>4 DEF PageList, LastPage
<1>7. l[1].page = 1
    BY <1>3 DEF PageList, Contiguous
<1>8. ASSUME NEW k \in 1..(Len(l) - 1)
      PROVE  l[k + 1].page \in {l[k].page, l[k].page + 1}
    <2>1. CASE k < Len(list)
        <3>1. k \in 1..(Len(list) - 1) /\ k \in 1..Len(list) /\ k + 1 \in 1..Len(list)
            BY <1>3, <1>8, <2>1
        <3>2. l[k] = list[k] /\ l[k + 1] = list[k + 1]
            BY <1>3, <3>1
        <3> QED BY <3>1, <3>2 DEF PageList, Contiguous
    <2>2. CASE k = Len(list)
        <3>1. l[k] = list[Len(list)] /\ l[k + 1] = p[1] /\ 1 \in 1..n
            BY <1>1, <1>3, <2>2
        <3>2. l[k + 1].page = r.page /\ l[k].page = LastPage(list)
            BY <1>2, <3>1 DEF LastPage
        <3> QED BY <1>6, <3>2
    <2>3. CASE k > Len(list)
        <3> DEFINE j == k - Len(list)
        <3>1. j \in 1..n /\ j + 1 \in 1..n
              /\ k = Len(list) + j /\ k + 1 = Len(list) + (j + 1)
            BY <1>1, <1>3, <1>8, <2>3
        <3> HIDE DEF j
        <3>2. l[k] = p[j] /\ l[k + 1] = p[j + 1]
            BY <1>3, <3>1
        <3> QED BY <1>2, <3>1, <3>2
    <2>4. Len(list) \in Int /\ Len(l) - 1 \in Int
        BY <1>1, <1>3
    <2>5. k \in Int
        BY <1>8, <2>4
    <2> QED BY <2>1, <2>2, <2>3, <2>4, <2>5
<1>9. ASSUME NEW j \in DOMAIN l, NEW k \in DOMAIN l, l[j] = l[k]
      PROVE  j = k
    <2>1. CASE j \in DOMAIN list /\ k \in DOMAIN list
        BY <1>3, <1>9, <2>1 DEF PageList, Contiguous
    <2>2. CASE j \notin DOMAIN list /\ k \notin DOMAIN list
        <3> DEFINE a == j - Len(list)
                   b == k - Len(list)
        <3>1. a \in 1..n /\ l[j] = p[a] /\ b \in 1..n /\ l[k] = p[b]
            BY <1>4, <2>2
        <3>2. a = b => j = k
            BY <1>1, <1>3
        <3> HIDE DEF a, b
        <3>3. p[a] = p[b]
            BY <1>9, <3>1
        <3>4. a = b
            BY <1>2, <3>1, <3>3
        <3> QED BY <3>2, <3>4
    <2>3. ASSUME NEW x \in DOMAIN list, NEW y \in DOMAIN l \ DOMAIN list,
                 l[x] = l[y]
          PROVE  FALSE
        <3>1. l[x].page <= LastPage(list) /\ l[x].page \in Nat
            BY <1>3, <1>6
        <3>2. l[y].page = r.page
            BY <1>2, <1>4
        <3> QED BY <1>6, <2>3, <3>1, <3>2
    <2> QED BY <1>9, <2>1, <2>2, <2>3
<1>10. ASSUME NEW k \in DOMAIN l PROVE l[k].page <= LastPage(l)
    BY <1>2, <1>4, <1>5, <1>6
<1>11. PageList(l)
    BY <1>5, <1>7, <1>8, <1>9, <1>10 DEF PageList, Contiguous
<1> QED BY <1>5, <1>11 DEF l, p

LEMMA EmptyPageList == PageList(<<>>)
<1>1. DOMAIN <<>> = {} /\ Len(<<>>) = 0 /\ 1..(0 - 1) = {}
    OBVIOUS
<1> QED BY <1>1 DEF PageList, Contiguous

\* A slot whose arrays and page loads a step leaves alone.
LEMMA PagesKept ==
    ASSUME NEW i, PagesOf(i),
           articlesArray'[i] = articlesArray[i],
           currentPageParam'[i] = currentPageParam[i],
           canLoadMore'[i] = canLoadMore[i],
           \A r : r.index = i /\ r.kind # "refresh" =>
                      (r \in requests' <=> r \in requests)
    PROVE  PagesOf(i)'
<1>1. LoadMoreInFlight(i)' = LoadMoreInFlight(i)
    BY DEF LoadMoreInFlight
<1>2. PageList(articlesArray[i])' /\ LastPage(articlesArray[i])' = LastPage(articlesArray[i])
    BY DEF PagesOf, PageList, Contiguous, LastPage
<1> QED BY <1>1, <1>2 DEF PagesOf

LEMMA ConfigurePaging ==
    ASSUME NEW s \in Selections, NEW k \in 0..MaxSaves, Configure(s),
           categories' = s, ~overlapped' => requests' = FirstFetches(s, k)
    PROVE  PagingInv'
<1> SUFFICES ASSUME requests' = FirstFetches(s, k)
             PROVE  FirstPages' /\ \A i \in DOMAIN s : ~gap'[i] => PagesOf(i)'
    BY DEF PagingInv, Slots
<1>1. \A r \in requests' : r.kind = "fetch" /\ r.page = 1 /\ r.index \in DOMAIN s
    BY DEF FirstFetches
<1>2. FirstPages'
    BY <1>1 DEF FirstPages, Configure, PerSlot
<1>3. ASSUME NEW i \in DOMAIN s, ~gap'[i] PROVE PagesOf(i)'
    <2>1. articlesArray'[i] = <<>>
        BY DEF Configure, PerSlot
    <2>2. s[i] \notin Refused
        BY <1>3 DEF Configure, RefusedSlots
    <2>3. \E r \in requests' : r.index = i /\ r.kind = "fetch"
        BY <2>2, FirstFetchesShape
    <2>4. PageList(articlesArray[i])'
        BY <2>1, EmptyPageList DEF PageList, Contiguous, LastPage
    <2> QED BY <1>1, <2>1, <2>3, <2>4 DEF PagesOf
<1> QED BY <1>2, <1>3

\* A load-more asks for the page after the last one listed.
LEMMA LoadMorePaging ==
    ASSUME PureInv, SingleLoader, PagingInv, ~overlapped,
           NEW i \in Slots, NEW t \in FreeTasks, LoadMore(i, t)
    PROVE  PagingInv'
<1> DEFINE page == currentPageParam[i] + 1
           new == Send("loadMore", i, page, t)
<1>0. TypeOK /\ FirstPages /\ \A j \in Slots : ~gap[j] => PagesOf(j)
    BY DEF PureInv, PagingInv
<1>1. \A r \in requests : r.kind # "refresh" => r.index # i
    BY DEF SingleLoader, LoadMore, MayLoadMore
<1>2. /\ \A r \in new : /\ r.kind = "loadMore" /\ r.index = i
                        /\ r.page = page /\ categories[i] \notin Refused
      /\ categories[i] \notin Refused =>
             \E r \in new : r.kind = "loadMore" /\ r.index = i
    <2> DEFINE q == [kind |-> "loadMore", index |-> i, category |-> categories[i],
                     page |-> page, save |-> saves, task |-> t]
    <2>1. new = IF categories[i] \in Refused THEN {} ELSE {q}
        BY DEF Send
    <2>2. q.kind = "loadMore" /\ q.index = i /\ q.page = page
        OBVIOUS
    <2> HIDE DEF q, new
    <2> QED BY <2>1, <2>2
<1>3. /\ requests' = requests \cup new
      /\ currentPageParam' = [currentPageParam EXCEPT ![i] = page]
      /\ articlesArray' = articlesArray /\ canLoadMore' = canLoadMore
      /\ categories' = categories /\ canLoadMore[i]
      /\ gap' = [gap EXCEPT ![i] = @ \/ categories[i] \in Refused]
    BY DEF LoadMore, MayLoadMore
<1>4. /\ currentPageParam'[i] = page
      /\ \A j \in Slots \ {i} : /\ currentPageParam'[j] = currentPageParam[j]
                                /\ gap'[j] = gap[j]
      /\ ~gap'[i] => ~gap[i] /\ categories[i] \notin Refused
      /\ page \in Nat
    BY <1>0, <1>3 DEF TypeOK
<1> HIDE DEF new, page
<1>5. FirstPages'
    <2> SUFFICES ASSUME NEW r \in requests'
                 PROVE  /\ r.kind = "fetch" => r.page = 1 /\ currentPageParam'[r.index] = 1
                        /\ r.kind = "refresh" => r.page = 1
        BY DEF FirstPages
    <2>1. CASE r \in new
        BY <1>2, <2>1
    <2>2. CASE r \in requests
        <3>1. r.index \in Slots
            BY <2>2 DEF PureInv, Addressed
        <3> QED BY <1>0, <1>1, <1>4, <2>2, <3>1 DEF FirstPages
    <2> QED BY <1>3, <2>1, <2>2
<1>6. ASSUME NEW j \in Slots \ {i}, ~gap'[j] PROVE PagesOf(j)'
    <2>1. PagesOf(j)
        BY <1>0, <1>4, <1>6
    <2>2. \A r : r.index = j /\ r.kind # "refresh" =>
                     (r \in requests' <=> r \in requests)
        BY <1>2, <1>3
    <2> QED BY <1>3, <1>4, <2>1, <2>2, PagesKept
<1>7. ASSUME ~gap'[i] PROVE PagesOf(i)'
    <2> DEFINE list == articlesArray[i]
    <2>1. PagesOf(i)
        BY <1>0, <1>4, <1>7
    <2>2. ~LoadMoreInFlight(i) /\ list # <<>>
        BY <1>1, <2>1 DEF PagesOf, LoadMoreInFlight
    <2>3. PageList(list) /\ currentPageParam[i] = LastPage(list)
        BY <1>3, <2>1, <2>2 DEF PagesOf
    <2>4. \A r \in requests' : r.index = i /\ r.kind = "loadMore" =>
              r.page = currentPageParam'[i] /\ r.page = LastPage(list) + 1
        BY <1>1, <1>2, <1>3, <1>4, <2>3 DEF page
    <2>5. \E r \in requests' : r.kind = "loadMore" /\ r.index = i
        BY <1>2, <1>3, <1>4, <1>7
    <2>6. articlesArray'[i] = list
        BY <1>3
    <2>7. PageList(articlesArray[i])' /\ LastPage(articlesArray[i])' = LastPage(list)
        BY <2>3, <2>6 DEF PageList, Contiguous, LastPage
    <2>8. LoadMoreInFlight(i)'
        BY <2>5 DEF LoadMoreInFlight
    <2> QED BY <2>2, <2>4, <2>6, <2>7, <2>8 DEF PagesOf
<1> QED BY <1>3, <1>5, <1>6, <1>7 DEF PagingInv, Slots

\* An answer leaves the slot it is for with whole pages, or with a gap.
LEMMA AnswerPaging ==
    ASSUME PureInv, SingleLoader, PagingInv, ~overlapped,
           NEW r \in requests, Complete(r)
    PROVE  PagingInv'
<1> DEFINE i == r.index
<1>0. /\ TypeOK /\ FirstPages /\ i \in Slots /\ r \in Request
      /\ \A j \in Slots : ~gap[j] => PagesOf(j)
    BY DEF PureInv, PagingInv, TypeOK, Addressed
<1>1. /\ requests' = requests \ {r} /\ categories' = categories
      /\ \A j \in Slots \ {i} : /\ articlesArray'[j] = articlesArray[j]
                                /\ currentPageParam'[j] = currentPageParam[j]
                                /\ canLoadMore'[j] = canLoadMore[j]
                                /\ gap'[j] = gap[j]
      /\ currentPageParam'[i] \in {currentPageParam[i], 1}
    BY <1>0 DEF Complete, FetchDone, FetchFailed, RefreshDone, RefreshFailed,
                LoadMoreDone, LoadMoreEmpty, LoadMoreFailed, AnswerOutOfRange,
                Answered, feed, Apply, RestartPaging, TypeOK
<1>2. FirstPages'
    <2> SUFFICES ASSUME NEW q \in requests'
                 PROVE  /\ q.kind = "fetch" => q.page = 1 /\ currentPageParam'[q.index] = 1
                        /\ q.kind = "refresh" => q.page = 1
        BY DEF FirstPages
    <2>1. q \in requests /\ q.index \in Slots
        BY <1>1 DEF PureInv, Addressed
    <2> QED BY <1>0, <1>1, <2>1 DEF FirstPages
<1>3. ASSUME NEW j \in Slots \ {i}, ~gap'[j] PROVE PagesOf(j)'
    <2>1. PagesOf(j)
        BY <1>0, <1>1, <1>3
    <2>2. \A q : q.index = j /\ q.kind # "refresh" =>
                     (q \in requests' <=> q \in requests)
        BY <1>1
    <2> QED BY <1>1, <2>1, <2>2, PagesKept
<1>4. r.kind # "refresh" =>
          \A q \in requests' : q.index = i => q.kind = "refresh"
    BY <1>1 DEF SingleLoader
\* The slot now lists p, whose last page is the page last asked for.
<1>5. ASSUME NEW p, articlesArray'[i] = p, p # <<>>, PageList(p),
             \A q \in requests' : q.index = i => q.kind # "loadMore",
             canLoadMore'[i] => currentPageParam'[i] = LastPage(p)
      PROVE  PagesOf(i)'
    <2>1. PageList(articlesArray[i])' /\ LastPage(articlesArray[i])' = LastPage(p)
        BY <1>5 DEF PageList, Contiguous, LastPage
    <2> QED BY <1>5, <2>1 DEF PagesOf
<1>6. ASSUME NEW n \in 1..PageSize, FetchDone(r, n), ~gap'[i] PROVE PagesOf(i)'
    <2>1. r.kind = "fetch" /\ r.page = 1 /\ currentPageParam'[i] = 1
        BY <1>0, <1>6 DEF FetchDone, Answered, FirstPages
    <2>2. articlesArray'[i] = PageOf(r, n)
        BY <1>0, <1>6 DEF FetchDone, Apply, TypeOK
    <2>3. n \in 0..PageSize /\ n # 0
        BY HomeAssumption
    <2>4. /\ PageList(PageOf(r, n)) /\ PageOf(r, n) # <<>>
          /\ LastPage(PageOf(r, n)) = 1
        BY <1>0, <2>1, <2>3, OnePage
    <2>5. \A q \in requests' : q.index = i => q.kind # "loadMore"
        BY <1>4, <2>1
    <2> QED BY <1>5, <2>1, <2>2, <2>4, <2>5
<1>7. ASSUME NEW n \in 0..PageSize, RefreshDone(r, n), ~gap'[i] PROVE PagesOf(i)'
    <2>1. r.kind = "refresh" /\ r.page = 1
        BY <1>0, <1>7 DEF RefreshDone, Answered, FirstPages
    <2>2. articlesArray'[i] = PageOf(r, n) /\ currentPageParam'[i] = 1
        BY <1>0, <1>7 DEF RefreshDone, Apply, RestartPaging, TypeOK
    <2>3. n # 0 /\ ~LoadMoreInFlight(i)
        BY <1>0, <1>7 DEF RefreshDone, TypeOK
    <2>4. /\ PageList(PageOf(r, n)) /\ PageOf(r, n) # <<>>
          /\ LastPage(PageOf(r, n)) = 1
        BY <1>0, <2>1, <2>3, OnePage
    <2>5. \A q \in requests' : q.index = i => q.kind # "loadMore"
        BY <1>1, <2>3 DEF LoadMoreInFlight
    <2> QED BY <1>5, <2>2, <2>4, <2>5
<1>8. ASSUME RefreshFailed(r), ~gap'[i] PROVE PagesOf(i)'
    <2>1. r.kind = "refresh" /\ UNCHANGED <<articlesArray, currentPageParam, canLoadMore, gap>>
        BY <1>8 DEF RefreshFailed, Answered, feed
    <2>2. PagesOf(i)
        BY <1>0, <1>8, <2>1
    <2>3. \A q : q.index = i /\ q.kind # "refresh" =>
                     (q \in requests' <=> q \in requests)
        BY <1>1, <2>1
    <2> QED BY <2>1, <2>2, <2>3, PagesKept
<1>9. ASSUME NEW n \in 1..PageSize, LoadMoreDone(r, n), ~gap'[i] PROVE PagesOf(i)'
    <2> DEFINE list == articlesArray[i]
    <2>1. /\ r.kind = "loadMore" /\ gap' = gap
          /\ currentPageParam' = currentPageParam
        BY <1>9 DEF LoadMoreDone, Answered
    <2>2. articlesArray'[i] = list \o PageOf(r, n) /\ list \in Seq(Article)
        BY <1>0, <1>9 DEF LoadMoreDone, Apply, TypeOK
    <2>3. PagesOf(i)
        BY <1>0, <1>9, <2>1
    <2>4. /\ PageList(list) /\ list # <<>>
          /\ r.page = currentPageParam[i] /\ r.page = LastPage(list) + 1
        BY <2>1, <2>3 DEF PagesOf
    <2> HIDE DEF list
    <2>5. /\ PageList(list \o PageOf(r, n)) /\ list \o PageOf(r, n) # <<>>
          /\ LastPage(list \o PageOf(r, n)) = r.page
        BY <1>0, <2>2, <2>4, NextPage
    <2>6. \A q \in requests' : q.index = i => q.kind # "loadMore"
        BY <1>4, <2>1
    <2>7. currentPageParam'[i] = LastPage(list \o PageOf(r, n))
        BY <2>1, <2>4, <2>5
    <2> QED BY <1>5, <2>2, <2>5, <2>6, <2>7
<1>10. ASSUME LoadMoreEmpty(r), ~gap'[i] PROVE PagesOf(i)'
    <2>1. /\ r.kind = "loadMore" /\ UNCHANGED <<articlesArray, gap>>
          /\ ~canLoadMore'[i]
        BY <1>0, <1>10 DEF LoadMoreEmpty, Answered, TypeOK
    <2>2. PagesOf(i)
        BY <1>0, <1>10, <2>1
    <2>3. PageList(articlesArray[i]) /\ articlesArray[i] # <<>>
        BY <2>1, <2>2 DEF PagesOf
    <2>4. \A q \in requests' : q.index = i => q.kind # "loadMore"
        BY <1>4, <2>1
    <2> QED BY <1>5, <2>1, <2>3, <2>4
<1>11. FetchFailed(r) \/ LoadMoreFailed(r) => gap'[i]
    BY <1>0 DEF FetchFailed, LoadMoreFailed, TypeOK
<1>12. ~gap'[i] => PagesOf(i)'
    BY <1>0, <1>6, <1>7, <1>8, <1>9, <1>10, <1>11 DEF Complete, AnswerOutOfRange
<1> QED BY <1>1, <1>2, <1>3, <1>12 DEF PagingInv, Slots

LEMMA PagingStep ==
    PureInv /\ SingleLoader /\ PagingInv /\ [Next]_vars => PagingInv'
<1> SUFFICES ASSUME PureInv, SingleLoader, PagingInv, [Next]_vars PROVE PagingInv'
    OBVIOUS
<1>0. TypeOK
    BY DEF PureInv
<1>1. ASSUME NEW s \in Selections, SaveSettings(s) PROVE PagingInv'
    <2>1. saves + 1 \in 0..MaxSaves
        BY <1>0, <1>1, HomeAssumption, SubTabsAssumption DEF SaveSettings, TypeOK
    <2>2. ~overlapped' => requests' = FirstFetches(s, saves + 1)
        BY <1>1 DEF SaveSettings
    <2> QED BY <1>1, <2>1, <2>2, ConfigurePaging DEF SaveSettings
<1>2. CASE Relaunch
    <2>1. categories \in Selections /\ saves \in 0..MaxSaves
        BY <1>0 DEF TypeOK
    <2> QED BY <1>2, <2>1, ConfigurePaging DEF Relaunch
<1>3. ASSUME UNCHANGED <<categories, feed, overlapped, gap>>,
             NEW new, requests' = requests \cup new,
             \A r \in new : r.kind = "refresh" /\ r.page = 1
      PROVE  PagingInv'
    <2> SUFFICES ASSUME ~overlapped PROVE PagingInv'
        BY <1>3 DEF PagingInv
    <2>1. FirstPages'
        BY <1>3 DEF PagingInv, FirstPages, feed
    <2>2. ASSUME NEW i \in Slots, ~gap'[i] PROVE PagesOf(i)'
        <3>1. PagesOf(i)
            BY <1>3, <2>2 DEF PagingInv
        <3>2. \A r : r.index = i /\ r.kind # "refresh" =>
                         (r \in requests' <=> r \in requests)
            BY <1>3
        <3> QED BY <1>3, <3>1, <3>2, PagesKept DEF feed
    <2> QED BY <1>3, <2>1, <2>2 DEF PagingInv, Slots
<1>4. ASSUME NEW i \in Slots, NEW t \in FreeTasks, PullToRefresh(i, t)
      PROVE  PagingInv'
    <2>1. \A r \in Send("refresh", i, 1, t) : r.kind = "refresh" /\ r.page = 1
        BY DEF Send
    <2>2. UNCHANGED <<categories, feed, overlapped, gap>>
          /\ requests' = requests \cup Send("refresh", i, 1, t)
        BY <1>4 DEF PullToRefresh
    <2> QED BY <1>3, <2>1, <2>2
<1>5. ASSUME NEW i \in Slots, NEW t \in FreeTasks, LoadMore(i, t)
      PROVE  PagingInv'
    <2>1. overlapped' = overlapped
        BY <1>5 DEF LoadMore
    <2> QED BY <1>5, <2>1, LoadMorePaging DEF PagingInv
<1>6. ASSUME NEW r \in requests, Complete(r) PROVE PagingInv'
    <2>1. overlapped' = overlapped
        BY <1>6 DEF Complete, FetchDone, FetchFailed, RefreshDone, RefreshFailed,
                    LoadMoreDone, LoadMoreEmpty, LoadMoreFailed,
                    AnswerOutOfRange, Answered
    <2> QED BY <1>6, <2>1, AnswerPaging DEF PagingInv
<1>7. CASE UNCHANGED <<categories, feed, overlapped, gap, requests>>
    <2>1. UNCHANGED <<categories, feed, overlapped, gap>>
          /\ requests' = requests \cup {}
        BY <1>7
    <2> DEFINE new == {}
    <2>2. requests' = requests \cup new /\ \A r \in new : r.kind = "refresh" /\ r.page = 1
        BY <2>1
    <2> HIDE DEF new
    <2> QED BY <1>3, <2>1, <2>2
<1> QED BY <1>1, <1>2, <1>4, <1>5, <1>6, <1>7
        DEF Next, User, vars, PullIgnored, SelectCategory, Swipe, GoTo,
            DismissInfo, DismissError, DisplayLostRow

LEMMA InitPaging == Init => PagingInv
<1> SUFFICES ASSUME Init PROVE PagingInv
    OBVIOUS
<1>1. AllCases \in Selections /\ 0 \in 0..MaxSaves
    BY AllCasesSelected, HomeAssumption, SubTabsAssumption
<1>2. /\ Slots = DOMAIN AllCases /\ requests = FirstFetches(AllCases, 0)
      /\ \A i \in Slots : /\ articlesArray[i] = <<>> /\ currentPageParam[i] = 1
                          /\ ~gap[i] => AllCases[i] \notin Refused
    BY DEF Init, Slots, PerSlot, RefusedSlots
<1>3. \A r \in requests : r.kind = "fetch" /\ r.page = 1 /\ r.index \in Slots
    BY <1>2 DEF FirstFetches
<1>4. ASSUME NEW i \in Slots, ~gap[i] PROVE PagesOf(i)
    <2>1. \E r \in requests : r.index = i /\ r.kind = "fetch"
        BY <1>1, <1>2, <1>4, FirstFetchesShape
    <2> QED BY <1>2, <1>3, <2>1, EmptyPageList DEF PagesOf
<1> QED BY <1>2, <1>3, <1>4 DEF PagingInv, FirstPages

\* Whatever the order of scrolling, pulling and answers, a list is pages 1, 2, ...
\* without a hole or a repeat, unless a page load failed, a refresh brought
\* nothing or overtook a load-more, or a settings save overtook a request.
THEOREM PagesStayContiguous == Spec => []PagesContiguous
<1>1. Init => TypeOK /\ Addressed /\ SlotsPure /\ SingleLoader /\ PagingInv
    BY InitType, InitPure, InitSingle, InitPaging
<1>2. (TypeOK /\ Addressed /\ SlotsPure /\ SingleLoader /\ PagingInv) /\ [Next]_vars
          => (TypeOK /\ Addressed /\ SlotsPure /\ SingleLoader /\ PagingInv)'
    BY TypeStep, PureStep, SingleStep, PagingStep DEF PureInv
<1>3. PagingInv => PagesContiguous
    BY DEF PagingInv, PagesContiguous, PagesOf, PageList
<1> QED BY <1>1, <1>2, <1>3, PTL DEF Spec
=============================================================================
