------------------------------- MODULE HomeFeed -------------------------------
(***************************************************************************)
(* The News tab: HomeViewModel, HomeViewController and one                 *)
(* HomeChildViewController per chosen category.  Every completion runs on  *)
(* the main queue (API.request hops to DispatchQueue.main), so a handler   *)
(* is one step; what interleaves is the user, the settings screen and the  *)
(* answers to the requests in flight, in any order.                        *)
(*                                                                         *)
(* Slots are counted from 1 where the code counts rows from 0.  An article *)
(* is known by the request it came from and its place in the answer.       *)
(***************************************************************************)
EXTENDS SubTabs, FiniteSets

CONSTANTS
    Refused,   \* categories getTopHeadlines fails without a request (.health)
    PageSize,  \* the most articles one answer holds (10 in the code)
    MaxPage,   \* bound: the highest page the model asks for
    MaxSaves,  \* bound: how often the settings are saved
    Tasks      \* bound: refresh and load-more requests in flight at once

ASSUME HomeAssumption ==
    /\ Refused \subseteq Category
    /\ PageSize \in Nat \ {0}
    /\ MaxPage \in Nat \ {0}
    /\ MaxSaves \in Nat

VARIABLES
    categories,        \* SettingManager.categories, read live by the view model
    articlesArray,     \* per slot: the articles the view model holds
    isLoading,         \* per slot: a fetch or load-more is thought to be running
    currentPageParam,  \* per slot: the last page asked for
    canLoadMore,       \* per slot: no empty page has been met
    errors,            \* per slot: the first fetch left an error message
    currentPage,       \* the slot on screen
    child,             \* per slot: the child controller's list and views
    alert,             \* the alert the controller is presenting
    requests,          \* the URLSession tasks in flight
    trap,              \* "none", or which array access ended the process
    saves,             \* how often the settings were saved: tells requests apart
    \* History, read by no action:
    overlapped,        \* settings were saved over a request in flight
    gap,               \* per slot: a page was lost or overtaken
    shrunk             \* per slot: the list went down to at most one article

feed == <<articlesArray, isLoading, currentPageParam, canLoadMore, errors>>
vars == <<categories, feed, currentPage, child, alert, requests, trap,
          saves, overlapped, gap, shrunk>>

Slots == DOMAIN categories
Article == [category : Category, page : 1..MaxPage, pos : 1..PageSize]
InitialLoad == "initial"  \* the task of a first fetch: one per slot and save

Request == [kind : {"fetch", "refresh", "loadMore"}, index : Nat \ {0},
            category : Category, page : 1..MaxPage, save : 0..MaxSaves,
            task : Tasks \cup {InitialLoad}]

Child == [articles : Seq(Article), rows : Nat, loadingHidden : BOOLEAN,
          errorShown : BOOLEAN, refreshing : BOOLEAN]

-----------------------------------------------------------------------------
(* Building the tab: configData, then one child per category, each of      *)
(* which loads its view and asks for page 1 at once.  A refused category   *)
(* fails inside that call.                                                 *)

\* Mutant: the arrays are sized before the new settings are read.
PerOldSlot(cats, v) == [i \in DOMAIN categories |-> v]
PerSlot(cats, v) == [i \in DOMAIN cats |-> v]

RefusedSlots(cats) == [i \in DOMAIN cats |-> cats[i] \in Refused]

NewChild == [articles |-> <<>>, rows |-> 0, loadingHidden |-> FALSE,
             errorShown |-> FALSE, refreshing |-> FALSE]

\* Mutant: the first fetch is addressed to the next slot.
ShiftedFirstFetches(cats, save) ==
    {[kind |-> "fetch", index |-> i + 1, category |-> cats[i], page |-> 1,
      save |-> save, task |-> InitialLoad] :
         i \in {k \in DOMAIN cats : cats[k] \notin Refused}}
FirstFetches(cats, save) ==
    {[kind |-> "fetch", index |-> i, category |-> cats[i], page |-> 1,
      save |-> save, task |-> InitialLoad] :
         i \in {k \in DOMAIN cats : cats[k] \notin Refused}}

Init ==
    /\ categories = AllCases
    /\ articlesArray = PerSlot(categories, <<>>)
    /\ isLoading = [i \in Slots |-> ~RefusedSlots(categories)[i]]
    /\ currentPageParam = PerSlot(categories, 1)
    /\ canLoadMore = PerSlot(categories, TRUE)
    /\ errors = RefusedSlots(categories)
    /\ currentPage = 1
    /\ child = PerSlot(categories, NewChild)
    /\ alert = "none"
    /\ requests = FirstFetches(categories, 0)
    /\ trap = "none"
    /\ saves = 0
    /\ overlapped = FALSE
    /\ gap = RefusedSlots(categories)
    /\ shrunk = PerSlot(categories, FALSE)

\* configData and configHomeChildViewController for the given categories.
Configure(cats) ==
    /\ articlesArray' = PerSlot(cats, <<>>)
    /\ isLoading' = [i \in DOMAIN cats |-> ~RefusedSlots(cats)[i]]
    /\ currentPageParam' = PerSlot(cats, 1)
    /\ canLoadMore' = PerSlot(cats, TRUE)
    /\ errors' = RefusedSlots(cats)
    /\ child' = PerSlot(cats, NewChild)
    /\ currentPage' = 1
    /\ gap' = RefusedSlots(cats)
    /\ shrunk' = PerSlot(cats, FALSE)

\* saveSettingSubTabs stores the choice and posts settingCategories, which
\* fetchDataSetting handles within the post.  Requests in flight stay there.
SaveSettings(s) ==
    /\ trap = "none" /\ alert = "none"
    /\ saves < MaxSaves
    /\ s # categories
    /\ categories' = s
    /\ Configure(s)
    /\ requests' = requests \cup FirstFetches(s, saves + 1)
    /\ saves' = saves + 1
    /\ overlapped' = (overlapped \/ requests # {})
    /\ UNCHANGED <<alert, trap>>

\* The process ends, by a trap or by the user, and starts again: only the
\* stored categories survive.
Relaunch ==
    /\ Configure(categories)
    /\ requests' = FirstFetches(categories, saves)
    /\ alert' = "none"
    /\ trap' = "none"
    /\ overlapped' = FALSE
    /\ UNCHANGED <<categories, saves>>

-----------------------------------------------------------------------------
(* Shared pieces of the handlers.                                          *)

\* present(alert) is dropped when something is already presented.
Present(kind) == IF alert = "none" THEN kind ELSE alert

\* Mutant: the articles are tagged with the category on screen.
PageOnScreen(r, n) ==
    [p \in 1..n |-> [category |-> categories[currentPage], page |-> r.page,
                     pos |-> p]]
\* The n articles of an answer, tagged by setCategoryInNews.
PageOf(r, n) ==
    [p \in 1..n |-> [category |-> r.category, page |-> r.page, pos |-> p]]

\* Mutant: the table is reloaded only for a list with more rows than it has.
ShowMoreRows(c, list) ==
    [articles |-> list,
     rows |-> IF Len(list) > 1 /\ Len(list) > c.rows THEN Len(list) ELSE c.rows,
     loadingHidden |-> c.loadingHidden \/ Len(list) > 1,
     errorShown |-> c.errorShown \/ Len(list) <= 1,
     refreshing |-> FALSE]
\* Mutant: the refresh control is not ended.
ShowSpinning(c, list) ==
    [articles |-> list,
     rows |-> IF Len(list) > 1 THEN Len(list) ELSE c.rows,
     loadingHidden |-> c.loadingHidden \/ Len(list) > 1,
     errorShown |-> c.errorShown \/ Len(list) <= 1,
     refreshing |-> c.refreshing]
\* A child is given a list: viewModel.didSet runs fetchData.  One article counts
\* as none, and then the table is not reloaded.
Show(c, list) ==
    [articles |-> list,
     rows |-> IF Len(list) > 1 THEN Len(list) ELSE c.rows,
     loadingHidden |-> c.loadingHidden \/ Len(list) > 1,
     errorShown |-> c.errorShown \/ Len(list) <= 1,
     refreshing |-> FALSE]

\* Mutant: only what the view model already had is shown.
ApplyStale(i, list) ==
    /\ articlesArray' = [articlesArray EXCEPT ![i] = list]
    /\ child' = [child EXCEPT ![i] = Show(@, articlesArray[i])]
\* The view model takes the list and the completion hands it to the child.
Apply(i, list) ==
    /\ articlesArray' = [articlesArray EXCEPT ![i] = list]
    /\ child' = [child EXCEPT ![i] = Show(@, list)]

\* Mutant: the flag stays up.
KeepLoading(i) == isLoading' = isLoading
EndLoading(i) == isLoading' = [isLoading EXCEPT ![i] = FALSE]

\* getTopHeadlines: the requests to add for slot i.
Send(kind, i, page, t) ==
    IF categories[i] \in Refused THEN {}
    ELSE {[kind |-> kind, index |-> i, category |-> categories[i],
           page |-> page, save |-> saves, task |-> t]}

FreeTasks == Tasks \ {r.task : r \in requests}
LoadMoreInFlight(i) == \E r \in requests : r.kind = "loadMore" /\ r.index = i

-----------------------------------------------------------------------------
(* The user.                                                               *)

\* The table can only be pulled once it is uncovered, and not while the refresh
\* control is already refreshing.
CanPull(i) ==
    /\ trap = "none" /\ alert = "none"
    /\ child[i].loadingHidden /\ ~child[i].refreshing

\* Pulling while a fetch or load-more runs: the spinner starts, no request.
PullIgnored(i) ==
    /\ CanPull(i)
    /\ isLoading[i]
    /\ child' = [child EXCEPT ![i].refreshing = TRUE]
    /\ UNCHANGED <<categories, feed, currentPage, alert, requests, trap,
                   saves, overlapped, gap, shrunk>>

PullToRefresh(i, t) ==
    /\ CanPull(i)
    /\ ~isLoading[i]
    /\ child' = [child EXCEPT ![i].refreshing = TRUE]
    /\ requests' = requests \cup Send("refresh", i, 1, t)
    /\ alert' = IF categories[i] \in Refused THEN Present("info") ELSE alert
    /\ UNCHANGED <<categories, feed, currentPage, trap, saves, overlapped, gap, shrunk>>

\* Mutant: a load-more does not wait for the one before.
MayLoadMoreTwice(i) == canLoadMore[i]
MayLoadMore(i) == ~isLoading[i] /\ canLoadMore[i]

\* scrollViewDidScroll near the end of the table.
LoadMore(i, t) ==
    LET page == currentPageParam[i] + 1 IN
    /\ trap = "none"
    /\ MayLoadMore(i)
    /\ page <= MaxPage
    /\ currentPageParam' = [currentPageParam EXCEPT ![i] = page]
    /\ isLoading' = [isLoading EXCEPT ![i] = categories[i] \notin Refused]
    /\ requests' = requests \cup Send("loadMore", i, page, t)
    /\ alert' = IF categories[i] \in Refused THEN Present("info") ELSE alert
    /\ gap' = [gap EXCEPT ![i] = @ \/ categories[i] \in Refused]
    /\ UNCHANGED <<categories, articlesArray, canLoadMore, errors, currentPage,
                   child, trap, saves, overlapped, shrunk>>

\* scrollToCategory: a page with a recorded error raises the alert each time.
GoTo(j) ==
    /\ currentPage' = j
    /\ alert' = IF errors[j] THEN Present("error") ELSE alert
    /\ UNCHANGED <<categories, feed, child, requests, trap, saves, overlapped,
                   gap, shrunk>>

\* Tapping a category cell.
SelectCategory(j) ==
    /\ trap = "none" /\ alert = "none"
    /\ j # currentPage
    /\ GoTo(j)

\* didFinishAnimating after a swipe, taken back (j = currentPage) or not.
Swipe(j) ==
    /\ trap = "none" /\ alert # "error"
    /\ j \in {currentPage - 1, currentPage, currentPage + 1}
    /\ GoTo(j)

DismissInfo ==
    /\ trap = "none" /\ alert = "info"
    /\ alert' = "none"
    /\ UNCHANGED <<categories, feed, currentPage, child, requests, trap, saves,
                   overlapped, gap, shrunk>>

\* Ok on the error alert empties the list of the child then on screen; the view
\* model keeps its own.
DismissError ==
    /\ trap = "none" /\ alert = "error"
    /\ alert' = "none"
    /\ child' = [child EXCEPT ![currentPage] = Show(@, <<>>)]
    /\ shrunk' = [shrunk EXCEPT ![currentPage] = TRUE]
    /\ UNCHANGED <<categories, feed, currentPage, requests, trap, saves,
                   overlapped, gap>>

\* The table asks for a cell of a row its list no longer has.
DisplayLostRow(i) ==
    /\ trap = "none"
    /\ child[i].rows > Len(child[i].articles)
    /\ trap' = "row"
    /\ UNCHANGED <<categories, feed, currentPage, child, alert, requests, saves,
                   overlapped, gap, shrunk>>

-----------------------------------------------------------------------------
(* Answers.  An index is resolved against the arrays of the moment.        *)

Answered(r, kind) ==
    /\ trap = "none"
    /\ r.kind = kind
    /\ r.index \in Slots
    /\ requests' = requests \ {r}
    /\ UNCHANGED <<categories, currentPage, trap, saves, overlapped>>

FetchDone(r, n) ==
    /\ Answered(r, "fetch")
    /\ Apply(r.index, PageOf(r, n))
    /\ EndLoading(r.index)
    /\ gap' = [gap EXCEPT ![r.index] = LoadMoreInFlight(r.index)]
    /\ UNCHANGED <<currentPageParam, canLoadMore, errors, alert, shrunk>>

\* A failure and an empty page alike are kept for the alert.
FetchFailed(r) ==
    /\ Answered(r, "fetch")
    /\ errors' = [errors EXCEPT ![r.index] = TRUE]
    /\ EndLoading(r.index)
    /\ gap' = [gap EXCEPT ![r.index] = TRUE]
    /\ UNCHANGED <<articlesArray, currentPageParam, canLoadMore, child, alert,
                   shrunk>>

\* Mutant: the next page stays where it was.
KeepPaging(i) ==
    /\ canLoadMore' = [canLoadMore EXCEPT ![i] = TRUE]
    /\ currentPageParam' = currentPageParam
RestartPaging(i) ==
    /\ canLoadMore' = [canLoadMore EXCEPT ![i] = TRUE]
    /\ currentPageParam' = [currentPageParam EXCEPT ![i] = 1]

RefreshDone(r, n) ==
    /\ Answered(r, "refresh")
    /\ Apply(r.index, PageOf(r, n))
    /\ RestartPaging(r.index)
    /\ gap' = [gap EXCEPT ![r.index] = n = 0 \/ LoadMoreInFlight(r.index)]
    /\ shrunk' = [shrunk EXCEPT ![r.index] = n <= 1]
    /\ UNCHANGED <<isLoading, errors, alert>>

\* Only an alert: the refresh control goes on refreshing.
RefreshFailed(r) ==
    /\ Answered(r, "refresh")
    /\ alert' = Present("info")
    /\ UNCHANGED <<feed, child, gap, shrunk>>

LoadMoreDone(r, n) ==
    /\ Answered(r, "loadMore")
    /\ Apply(r.index, articlesArray[r.index] \o PageOf(r, n))
    /\ EndLoading(r.index)
    /\ shrunk' = [shrunk EXCEPT
                     ![r.index] = @ /\ Len(articlesArray[r.index]) + n <= 1]
    /\ UNCHANGED <<currentPageParam, canLoadMore, errors, alert, gap>>

LoadMoreEmpty(r) ==
    /\ Answered(r, "loadMore")
    /\ canLoadMore' = [canLoadMore EXCEPT ![r.index] = FALSE]
    /\ EndLoading(r.index)
    /\ alert' = Present("info")
    /\ UNCHANGED <<articlesArray, currentPageParam, errors, child, gap, shrunk>>

\* Mutant: a load-more that failed does not lower the flag.
LoadMoreFailedLoading(r) ==
    /\ Answered(r, "loadMore")
    /\ alert' = Present("info")
    /\ gap' = [gap EXCEPT ![r.index] = TRUE]
    /\ UNCHANGED <<feed, child, shrunk>>
\* The page asked for is not given back.
LoadMoreFailed(r) ==
    /\ Answered(r, "loadMore")
    /\ EndLoading(r.index)
    /\ alert' = Present("info")
    /\ gap' = [gap EXCEPT ![r.index] = TRUE]
    /\ UNCHANGED <<articlesArray, currentPageParam, canLoadMore, errors, child,
                   shrunk>>

\* Every branch of every completion indexes an array with the slot of its
\* request; one that the new settings no longer have ends the process.
AnswerOutOfRange(r) ==
    /\ trap = "none"
    /\ r.index \notin Slots
    /\ trap' = "completion"
    /\ requests' = requests \ {r}
    /\ UNCHANGED <<categories, feed, currentPage, child, alert, saves,
                   overlapped, gap, shrunk>>

Complete(r) ==
    \/ \E n \in 1..PageSize : FetchDone(r, n)
    \/ FetchFailed(r)
    \/ \E n \in 0..PageSize : RefreshDone(r, n)
    \/ RefreshFailed(r)
    \/ \E n \in 1..PageSize : LoadMoreDone(r, n)
    \/ LoadMoreEmpty(r)
    \/ LoadMoreFailed(r)
    \/ AnswerOutOfRange(r)

User ==
    \/ \E s \in Selections : SaveSettings(s)
    \/ \E i \in Slots : PullIgnored(i)
    \/ \E i \in Slots, t \in FreeTasks : PullToRefresh(i, t)
    \/ \E i \in Slots, t \in FreeTasks : LoadMore(i, t)
    \/ \E j \in Slots : SelectCategory(j)
    \/ \E j \in Slots : Swipe(j)
    \/ DismissInfo
    \/ DismissError
    \/ \E i \in Slots : DisplayLostRow(i)

Next ==
    \/ User
    \/ Relaunch
    \/ \E r \in requests : Complete(r)

Spec == Init /\ [][Next]_vars

\* Every URLSession task ends: with an answer, an error or its timeout.
AnswersComeBack ==
    \A i \in 1..Len(AllCases) :
        WF_vars(\E r \in requests : r.index = i /\ Complete(r))

FairSpec == Spec /\ AnswersComeBack

-----------------------------------------------------------------------------
(* Properties.                                                             *)

TypeOK ==
    /\ categories \in Selections
    /\ articlesArray \in [Slots -> Seq(Article)]
    /\ isLoading \in [Slots -> BOOLEAN]
    /\ currentPageParam \in [Slots -> 1..MaxPage]
    /\ canLoadMore \in [Slots -> BOOLEAN]
    /\ errors \in [Slots -> BOOLEAN]
    /\ currentPage \in Slots
    /\ child \in [Slots -> Child]
    /\ alert \in {"none", "info", "error"}
    /\ requests \subseteq Request
    /\ trap \in {"none", "completion", "row"}
    /\ saves \in 0..MaxSaves
    /\ overlapped \in BOOLEAN
    /\ gap \in [Slots -> BOOLEAN]
    /\ shrunk \in [Slots -> BOOLEAN]

\* A slot whose isLoading flag is up has a fetch or load-more in flight: nothing
\* (a late answer to an older slot, a settings save, a refused category) leaves
\* a slot refusing every later refresh and load-more.
LoadingHasRequest ==
    \A i \in Slots : isLoading[i] =>
        \E r \in requests : r.index = i /\ r.kind # "refresh"

\* Unless settings were saved over a request in flight, a slot never has two
\* page loads running at once, and its flag is up while it has one.
SingleLoader ==
    ~overlapped =>
        \A r, q \in requests :
            /\ r.kind # "refresh" => isLoading[r.index]
            /\ (r.index = q.index /\ r.kind # "refresh" /\ q.kind # "refresh")
                   => r = q

\* Unless settings were saved over a request in flight, no completion is
\* addressed to a slot that is gone, and every slot holds its own category only.
SlotsPure ==
    ~overlapped =>
        /\ trap # "completion"
        /\ \A i \in Slots : \A k \in DOMAIN articlesArray[i] :
               articlesArray[i][k].category = categories[i]

\* The leading pinned categories keep their slots through every settings change,
\* so even a late answer can never put foreign articles there.
PinnedSlotsPure ==
    \A i \in Slots :
        (\A k \in 1..i : AllCases[k] \in Pinned) =>
            \A k \in DOMAIN articlesArray[i] :
                articlesArray[i][k].category = AllCases[i]

\* What a child shows differs from what the view model holds only where a
\* recorded error's alert emptied it.
ChildInSync ==
    \A i \in Slots :
        \/ child[i].articles = articlesArray[i]
        \/ child[i].articles = <<>> /\ errors[i]

\* The process ends at a row the list has lost only after a list went down to at
\* most one article, which fetchData takes for an error and does not reload: by
\* what a refresh brought or by Ok on the alert of an old error, and by no other
\* order of answers, unless settings were saved over a request in flight.
NoRowLost == trap = "row" => overlapped \/ \E i \in Slots : shrunk[i]

Contiguous(s) ==
    /\ s # <<>> => s[1].page = 1
    /\ \A k \in 1..(Len(s) - 1) : s[k + 1].page \in {s[k].page, s[k].page + 1}
    /\ \A j, k \in DOMAIN s : s[j] = s[k] => j = k

\* A list is pages 1, 2, ... without a hole or a repeat, unless a page load
\* failed, a refresh brought nothing, or a refresh overtook a load-more.
PagesContiguous ==
    ~overlapped => \A i \in Slots : ~gap[i] => Contiguous(articlesArray[i])

\* A request in flight will answer slot i.
Served(i) == \E r \in requests : r.index = i

\* A refresh control that spins while its slot has requests in flight, even when
\* its pull was ignored for a load that was running, is stopped by the last of
\* them; only an answer that brings no list leaves it spinning alone.
SpinnerLeftByFailure ==
    [][\A i \in Slots :
           /\ child[i].refreshing /\ Served(i)
           /\ i \in Slots' /\ child'[i].refreshing /\ ~Served(i)'
           => \E r \in requests :
                  \/ RefreshFailed(r)
                  \/ FetchFailed(r)
                  \/ LoadMoreEmpty(r)
                  \/ LoadMoreFailed(r)]_vars

\* Loading ends: however often a slot loads again, by scrolling or by a save, it
\* is not loading some time later, unless the process traps or the slot is gone.
LoadingEnds ==
    \A i \in 1..Len(AllCases) :
        []<>(trap # "none" \/ i \notin Slots \/ ~isLoading[i])
=============================================================================
