# Specifications of the News reader

TLA+ models of the iOS news reader under `src/FinalProject/FinalProject`, the
TLC runs that check them and the TLAPS proofs about them. All paths below are
relative to that directory, those that begin with `Pods/` to the one above. Of the vendored code under `Pods/` one part is
modelled, the notification machinery of Realm's object store
(`Pods/Realm/Realm/ObjectStore/src`), because the bookmark screens stand on it;
the rest of it, the xibs and the assets are not part of the system modelled.

## The system

The app is a UIKit program of three tabs: *News* (the headlines of each chosen
category), *Favorites* (bookmarks kept in Realm) and *Search*. Its own code runs
on one thread: `API.request` and the image downloader both hop to
`DispatchQueue.main` before they call back, so every handler runs to its end on
the main queue. What interleaves is whole handlers: taps and scrolls, timers,
notifications, and the answers of the URLSession tasks in flight, in any order.
Beneath it Realm has a second thread, the worker that looks for changes, and the
main thread waits for it when a write begins.

| Component | State | Operations | Interacts with |
|---|---|---|---|
| News tab feed: `HomeViewModel`, `HomeViewController`, `HomeChildViewController`, `HomeChildViewModel` | five arrays with one entry per category, the page on screen, one child controller per category | first fetch, pull to refresh, load more on scroll, page switching, error alerts, rebuild on `settingCategories` | news API (async answers), settings (notification), image cache (cells), detail screen |
| Settings: `SettingManager`, `SettingSubTabsViewModel/Controller`, `SubTabsCell` | categories in UserDefaults; toggles of the open screen | toggle, save | posts `settingCategories` |
| News API: `API.Request`, `APIManager.News`, `downloadImage` | tasks in flight, blocks on the main queue | `getTopHeadlines`, `getEverything`, `downloadImage` | URLSession, the view models' completions |
| Image cache: `APIManager.Downloader`, the cells' `updateUI`/`loadImage` | `dataImages` dictionary and `dataImageKeys` list in UserDefaults, capped at 60 | download, save with eviction, clear on scene disconnect, create at start | every table of the app |
| Search: `SearchNewsViewModel/Controller` | query typed and query last searched, list, page, two flags, debounce timer | type, debounce, search, load more, cancel | news API |
| Bookmarks: `RealmManager`, `NewsDetailViewModel/Controller`, `Favorites*`, `FavoritesDetail*` | the Realm of `News`, the open screens' copies and flags | add, remove, remove several, observe | Realm notifications, all tabs |
| Realm notifications: `RealmCoordinator`, `CollectionNotifier`, `ResultsNotifier`, `Realm`, `ExternalCommitHelper` | versions of the file, notifiers and their change sets, the coordinator's two helper transactions, what the worker is doing | observe, invalidate, begin, commit and cancel a write, notify, the worker's pass | the observers of the Favorites screens; a run loop source and a pipe between the threads |
| Dates: `Date+DateFormatter.Ext` | none | parse, age text | cells |

What is hard in this code:

* a completion captures the index of its slot and uses it after the settings
  screen has rebuilt the arrays;
* a refresh, a load-more and a first fetch of one list can answer in any order,
  and a load that fails has already moved the page number;
* guards such as `isLoading` refuse work until an answer lowers them;
* what a child, its table and the view model hold are three copies kept equal by
  hand, and the child takes a list of one article for an error;
* the image cache is a dictionary and a list of keys updated apart, filled by
  downloads of the same URL in flight at once, and emptied half-way when the
  scene disconnects;
* the search screen's debounce timer, its `isLoading` guard and the late answer
  of a cancelled search;
* the list of bookmarks and the detail screen hold objects of the Realm, which
  one of them deletes while the other waits for its notification;
* Realm computes changes on its worker without the lock, for a version that may
  be old when they are delivered, and a write waits on the main thread for it.

`PROJECT.json` lists every such hazard at its line with the properties that
cover it, or why none does.

### What makes each component correct

* **News tab feed** - the five arrays keep one entry per chosen category; an
  answer reaches the slot it was asked for; one page load of a list at a time;
  pages without hole or repeat; what is loading ends; child, table and view
  model agree.
* **Image cache** - dictionary and key list stay within the cap and agree; an
  eviction costs the oldest image; nothing is saved without a dictionary;
  reloading a row does not download for ever.
* **Search** - one load at a time; the list answers the text in the bar; pages in
  order; the flag that turns work away is always lowered.
* **Bookmarks** - the list, the counts and the bookmark button tell what the Realm
  holds; a delete deletes what was asked; no deleted object is read; adding does
  not move a bookmark between lists.
* **Settings** - what is saved is what the toggles say, the pinned categories
  included, and comes back so after a relaunch; saving the same choice changes
  nothing; the News tab is built from what is saved.
* **News API** - every call completes, and completes once.
* **Realm notifications** - no change is lost or told twice; a callback runs at
  the version its changes lead to; everybody has heard when a write block runs;
  the threads do not wait for each other for ever; the assertions in the code.
* **Dates** - the age text of an article is its age, and never goes back.

Most of these hold only while nothing overtakes something else, and the code has
no means to restore them afterwards. Each property says in its premise exactly
what must not have happened, as a history variable that no action reads, and each
such premise was weakened on trial to see that TLC then finds the failure.

## Modules

### HomeFeed

One action per handler of the News tab. `categories` is what
`SettingManager.categories` returns; `articlesArray`, `isLoading`,
`currentPageParam`, `canLoadMore`, `errors` and `currentPage` are the view
model's; `child` is the child controllers' list, the rows their tables were last
reloaded with, and three view flags; `alert` is what the controller is
presenting; `requests` are the URLSession tasks in flight, each with the index
and category its completion captured; `trap` is an array access that ended the
process. `saves`, `overlapped`, `gap` and `shrunk` tell requests apart or record
history.

| Action | Code |
|---|---|
| `SaveSettings` | `saveSettingSubTabs` stores the choice and posts; `fetchDataSetting` runs within the post |
| `Relaunch` | process restart: only UserDefaults survives |
| `PullIgnored`, `PullToRefresh`, `LoadMore` | the three guards and calls of `needPerform` |
| `SelectCategory`, `Swipe` | `didSelectItemAt`, `didFinishAnimating`, then `scrollToCategory` with its error alert |
| `DismissInfo`, `DismissError` | Ok on an alert; on the error alert its handler empties the child's list |
| `DisplayLostRow` | `cellForRowAt` for a row the list no longer has |
| `FetchDone/Failed`, `RefreshDone/Failed`, `LoadMoreDone/Empty/Failed` | the branches of the three completions |
| `AnswerOutOfRange` | any completion whose index the arrays no longer have |

Decisions: slots count from 1. An article is its request's category and page and
its place in the answer. `rows` is recorded at `reloadData` as if layout followed
at once. Scrolling is not tied to the page on screen: `scrollViewDidScroll` also
fires when layout moves the offset. Pulling needs the table uncovered, because
`errorView` lies inside `loadingView`, which covers the table
(`HomeChildViewController.xib`). Left out: `navigationDirection` and
`HomeViewModel.isRefreshing` (written, never read by a guard), the activity
spinner (a function of the two view flags), callbacks of the children a settings
save replaced.


### ImageCache

`APIManager.Downloader` with the cells and the detail screen that use it.
`images` are the keys of the `dataImages` dictionary in UserDefaults, `keys` is
`dataImageKeys`, `table` and `face` are the rows on display and what their image
views show, `downloads` the image tasks in flight.

| Action | Code |
|---|---|
| `DisplayRow`, `OpenDetail` | `updateUI` of a cell, `configUI` of the detail screen: the cached image, or a download |
| `HideRow` | the row leaves its table |
| `Downloaded` | the completion: `configSaveImage` with its eviction, then the reload of the row, which runs `updateUI` again |
| `DownloadFailed` | an error, nothing is saved |
| `SceneDisconnects` | `clearImageData` removes the dictionary; the keys stay in memory |
| `SceneConnects`, `Relaunch` | `configImageDataStorage` at the start of a scene; a new process also has no keys |

Decisions: `connected` stands for "the dictionary exists". Images are their keys;
the data itself plays no part in any guard, except that data that makes no image
is saved without a reload (`decodes`). An address `URL(string:)` rejects
completes at once with nil and starts nothing. `UserDefaults.data(forKey:
urlImage)`, which the view models ask first, never has a value, because images
are kept in the dictionary only. `again` tells a download started by the answer
to another from that one. The detail screen is not reloaded.

### SearchNews

`SearchNewsViewModel` and its controller. `queryString`, `oldQueryString`,
`searchItems`, `canLoadMore`, `isLoading` and `currentPage` are the view model's;
`timer` is the pending `perform(afterDelay: 1.5)`; `requests` the tasks in flight.

| Action | Code |
|---|---|
| `Type` | `updateSearchResults`: the pending search is cancelled and, for a new text, started again |
| `SearchDropped`, `SearchBlank`, `Search` | the timer fires: `searchNews` returns for a running load, for white space, or sends page 1 |
| `LoadMoreBlank`, `LoadMore` | `scrollViewDidScroll` near the end: `loadMoreSearchNews` |
| `SearchDone`, `LoadMoreDone`, `LoadMoreEmpty`, `LoadFailed` | the branches of the two completions |
| `Cancel` | `cancelSearchNews` and UIKit's report of the emptied bar |

Decisions: a text is a model value with its trimmed form given by `Trimmed`. The
timer may fire at any time after it was set. The alerts and the "no results"
label hold no state a guard reads.

### Bookmarks

`RealmManager` and the screens that show what it keeps. `realm` maps each
article to its `categoryNews` as the process reads it, `file` as it is committed;
`failed` says that a commit threw. `favorites` is the first screen of the Favorites
tab, `list` the list of one category, `detail` the detail screen, `alert` what is
presented; `trap` is a read of a deleted object or an index out of range, which
ends the process. An entry of the list is the Realm's own object, `live` until it
is deleted; `cells` are the index paths the rows' cells were given.

| Action | Code |
|---|---|
| `SelectTab`, `OpenList`, `CloseList`, `OpenFromTab`, `OpenFromList`, `CloseDetail` | navigation, with what each screen reads as it opens |
| `AddBookmark`, `RemoveBookmark`, `RemoveDead` | `changeBookMark` of the detail screen |
| `AskDelete`, `OkDeleteRow` | the delete button of a cell and Ok in its alert |
| `Edit`, `Mark`, `AskDeleteSelected`, `OkDeleteSelected` | editing, selecting and deleting several rows |
| `CancelDelete`, `OkMessage`, `OkNoArticles` | the other buttons of the alerts |
| `DisplayRow`, `ReadDeadRow` | `cellForRowAt` or `didSelectRowAt` for a live or a deleted article |
| `DisplayCount` | the count of a category, read as its cell is laid out |
| `ThrowInTransaction`, `ReadInTransaction` | a write or an observer after a failed commit, which throws; a read from the broken transaction |
| `NotifyList`, `NotifyFavorites` | the observers of `setupObserve` |
| `Relaunch` | process restart: only the file survives |

Decisions: every write may fail at its commit. The completion has then already run
with `true` inside the write block, as in `RealmManager.addObject`, and runs again
with `false`. Nothing rolls the block back: `Realm.write` cancels only when the block
throws (`Pods/RealmSwift/RealmSwift/Realm.swift:212`), and neither
`-[RLMRealm commitWriteTransaction:]` nor `Realm::commit_transaction` cancels, so the
Realm stays in its write transaction, which `group_shared.hpp:317` calls active and in a
bad state. From then on what was never stored can still be read, or the read ends the
process; no notification comes (`Realm::notify` returns within a transaction); the next
write or `observe` throws and ends the process; and a relaunch finds the file without the
failed write. The branch of `deleteObject` for an object the Realm does not have is
not an action: `FlagTellsRealm` and the failed transaction leave no state in which it
is taken. Notifications come in
later turns of the run loop, in any order, one per observer however many commits
went before; those still due when a write begins are delivered before its block
runs (`ListTold`, `FavoritesTold`), as `RealmNotifier` shows. A delete of the
selected rows that finds one due works on a list that was fetched again under its
index paths; it is remembered in `hasty`. The order in which Realm returns a list
is any. Adding an object that is the Realm's own, even a deleted one, is a no-op
that reports success: so does `create(_:value:update:)` of the vendored Realm
4.3.2 (`Pods/Realm/Realm/RLMObjectStore.mm:160`). A detail screen hides the tab
bar (`NewsDetailViewController.swift:39`), so there is at most one. Articles
opened from the News tab carry their category, from Search none. A Realm that
failed to open (`realm` is nil) is not modelled.

### RealmObservation and RealmNotifier

`RealmObservation` is the promise `Bookmarks` is built on: an observer that has
something to hear is told in the end, changes made meanwhile are told together,
and no write block runs while somebody has something to hear. `RealmNotifier` is
how Realm keeps it, with one process's main thread, its coordinator and its
worker. `latest` and `touched` are the file; `at` is the version the main thread
reads, `main` where it is in a write or a delivery, `queue` whom it still has to
call; `obs` are the notifiers with their version, their rows and the three sets a
change passes through; `sg`, `advancer`, `skipVersion` and `asyncError` are the
coordinator's; `worker` holds the locals of a pass; `woken` and `signalled` are
the pipe and the run loop source. A set of changes is the set of the versions
that made them.

| Action | Code |
|---|---|
| `Observe`, `Invalidate` | `prepare_async`, `register_notifier` with `pin_version`, `add_callback`; `remove_callback`, `unregister` |
| `NotifyError`, `NotifyAvailable`, `NotifyAdvance` | `Realm::notify` in a turn of the run loop: `process_available_async`, `advance_to_ready` |
| `BeginAtOnce`, `BeginWait`, `BeginTell` | `promote_to_write` with `package_and_wait` |
| `Deliver`, `Delivered` | `after_advance` of each notifier, and on with the write or the loop |
| `Commit`, `CommitNotifies`, `Cancel` | `commit_write` under the lock, then the wake-up; `cancel_write` |
| `CommitElsewhere`, `Announce` | a writer elsewhere, and its byte in the pipe |
| `Listen`, `PassEmpty`, `PassFails`, `PassStarts` | the worker wakes; the first critical section of `run_async_notifiers` |
| `RunSkipped`, `HandOverSkipped`, `RunNotifiers`, `HandOver`, `Signal` | the queries without the lock, the hand-over under it, the signal |

Decisions: what `m_notifier_mutex` guards is one step, everything between two
such sections interleaves. Each notifier has one callback and one collection, as
the two screens have. A callback is one step; the app's do not observe,
invalidate or write. Opening the file for the worker fails or not at the two
places that open it (`OpenMayFail`). Delivering an error frees the callback, which
holds the only reference to the collection (`RealmManager.swift:60` keeps the token
alone), so the same step unregisters the notifier. A commit that throws is in
`Bookmarks` only; here the main thread would stay in its write.

### SubTabs, SubTabsChoice and Settings

`SubTabs` says which lists of categories can be saved: a subsequence of
`allCases` with the pinned ones in it. `SubTabsChoice` is what the News tab relies
on: all categories first, then another selection with each save. `HomeFeed`
takes its `SaveSettings` from it; `Settings` is the screen and the storage and
implements it. `stored` is the array of raw values in UserDefaults, `cells` the
toggles of the open screen, `alert` what it presents, `tabs` what the News tab was
built from.

| Action | Code |
|---|---|
| `OpenScreen`, `Back` | `getAllCellViewModel` as the screen is pushed; leaving it |
| `ChangeStatus` | the check button of a cell that is not pinned |
| `SaveDuplicated`, `SaveSettingSubTabs` | Save: "duplicated", or store, post, rebuild |
| `OkSaved`, `OkAgain`, `Relaunch` | Ok in the two alerts; a new process |

Decisions: `RawValue` is a constant because the raw values and the order of
`allCases` differ; the way to UserDefaults and back goes through them.

### Calls and NewsAPI

`Calls` is what `HomeFeed`, `SearchNews` and `ImageCache` take for granted of
their requests: each completes once, unless the session answers with neither
data nor an error, when it is lost. `NewsAPI` is the way there: `RefusedWithoutTask`
(no URL, or the refused category: the completion runs within the call), `Resume`,
`SessionEnds` (a handler on the session's queue, which queues a block), `MainTurn`
(the block: error first, then the data, decoded or not). Each call is made at most
once, so the model may stop.

### Ages

`ToString` and `RelativelyFormatted` over seconds, with the shifted present of
`currentDate`; `Later` and `Travel` change the time and the time zone. A text is the
span of ages of which it is true: so many of a unit and not yet one more. The
calendar's months and years differ in length: `calendar` gives the days from the
publication to the same day of each later month, or to the last day of a month that
has no such day, `Calendars` one for each day of publication looked at.

## Runs

| Run | Shows | Instance | Distinct states |
|---|---|---|---|
| `home_paging` | `SingleLoader`, `PagesContiguous`, `ChildInSync`, `NoRowLost`, `SpinnerLeftByFailure` for one list under every order of fetch, refresh, load-more and failures | one category, pages of up to 2, 3 pages, 2 extra requests | 30,678 |
| `home_settings` | `TypeOK`, `LoadingHasRequest`, `SlotsPure`, `PinnedSlotsPure`, `LoadingEnds` with settings saved over first fetches, refreshes and load-mores in flight | three categories, one pinned, one refused, two pages of one article, one extra request, one save | 858,505 |
| `image_cache` | `TypeOK`, `CacheBounded`, `CacheExact`, `SaveIsFifo`, `DownloadsSettle` | cap 2, four addresses (one rejected), two rows, two downloads | 543,411 |
| `search_news` | `TypeOK`, `LoadingHasRequest`, `SingleRequest`, `QuiescentShowsText`, `NoTextForgotten`, `FirstSearchPages`, `LoadingEnds` | five texts of two words, two requests, two pages | 413,573 |
| `bookmarks` | `TypeOK`, `ListFollowsRealm`, `NoTrapFromList`, `FlagTellsRealm`, `CountsFollowRealm`, `BookmarkKeepsCategory`, `DeletesWhatWasAsked` | three articles, two categories and none | 103,103 |
| `realm_fails` | `ImplementsObservation`, `ChangesKept`, `CalledAtItsVersion` | two observers, three versions, other writers, an open that may fail | 731,680 |
| `realm_hears` | `EveryoneHears`, `AssertionsHold`, no deadlock | two observers, three versions, as the app uses Realm | 266,831 |
| `realm_errors` | violates `ErrorsAreTold` | two observers, two versions, an open that may fail | |
| `realm_asserts` | violates `AssertionsHold` | the same | |
| `settings` | `AllTellSettings`, `ImplementsSubTabs` | the app's seven categories and raw values | 1,253 |
| `ages` | `TrueAtGreenwich`, `NeverYounger` | three seconds around every edge of the first two years, four time zones, four days of publication | 2,128 |
| `news_api` | `CompletesOnce`, `ImplementsCalls` | four calls of the three kinds, every answer | 40,625 |

All pass but the two marked, which show where the vendored code does not keep what
it says; `PROJECT.json` has them as findings.

* `realm_errors` - RealmSwift says a callback is called once with the error when
  notifying fails. A write that is already waiting for the worker when the
  worker's open fails waits for ever, on the main thread and with the write lock,
  and nobody is told.
* `realm_asserts` - after a failed open `pin_version` opens no read transaction
  for a later observer. The first removal after the error only ends the read that
  was left over; when an observer that came after it is removed, the assertion in
  `clean_up_dead_notifiers` that there is one fails.

Neither can be met by the app unless the file, open already, cannot be opened a
second time.

Why the bounds are enough: the News tab's lists do not touch each other except
through a settings save, so one list suffices for paging, and three categories
suffice for a slot to be lost, to be shifted either way and to stay; three pages
have a first, a next and one after a hole. In `home_settings` two pages of one article
are enough for a load-more to be in flight over the save, and a list of two for a pull to
refresh; one save is enough for an answer to meet another category in its slot or
no slot at all, and further saves are in the theorems. A cap of two with three usable addresses evicts, evicts again and evicts
a repeated key. Two requests are what it takes for one to overtake the other.
Three articles let a delete shift a row that is neither first nor last; two
categories are what a bookmark could move between. Two notifiers are what it takes
for one to be new while the other is listed, or the last to be removed while
another comes; with three versions a commit falls before, into and after a pass
of the worker. `MaxPage`, `MaxSaves`, `Tasks`, `MaxVersion`, `Years` and `Instants` are
bounds of the model, not of the code.

Deadlock is checked except in `news_api` (each call is made at most once) and where
the worker's open may fail, where the write above waits for ever.

**Refinements.** `ImplementsObservation` and `EveryoneHears` are the two halves of
`RealmObservation`; `pending` is mapped to the observers whose told changes are not
yet all that happened since their first rows. `ImplementsSubTabs` maps
`categories` to what the getter decodes from UserDefaults. `ImplementsCalls`, with its
liveness, maps a call to open until its completion has run or its block found
nothing.

**Fairness.** Of the tabs: weak fairness of the answer of each request, and of
nothing else.
URLSession ends every task: with an answer, an error, or its timeout of a minute
(`URLSession.shared` never waits for connectivity), and `API.request` then calls
the completion on the main queue. An answer with neither data nor error would
call no completion (`API.Request.swift`); URLSession documents that there is
none. The user, the settings and the scenes are under no fairness. `NewsAPI` has
the same in two steps: every task ends, and the main queue is served. In
`RealmNotifier` both threads are scheduled (the worker's steps, and the steps of the
main thread that no user starts), an idle run loop serves its source, a write
block ends (the app's are a few lines), and whoever committed elsewhere writes to
the pipe. Observing and writing are under no fairness.

## Proofs

Every safety property a passing run checks is also a theorem, for every value of the
constants under the assumptions named in the module: any categories, articles,
observers, texts and calls, any page size and cap, any number of versions. Each
`...Proofs` module has the inductive invariants and one step lemma per invariant,
with a step per action. The assumptions are those TLC evaluates in the runs; beside
the obvious ones, `ClosedAssumption` of `Bookmarks` (a closed screen is not an open one,
which TLA+ leaves open for a string and a record) and `RawValueAssumption` of
`Settings` (raw values tell categories apart).

* `HomeFeedProofs` - `TypeCorrect` (the arrays keep one entry per category,
  inductive by itself), `LoadingIsBacked` (from it), `SlotsStayPure` (`PureInv`:
  no request is addressed to a slot of another category, and lists are pure),
  `OneLoaderAtATime` (`SingleLoader` with the same addressing of requests),
  `ChildStaysInSync` (`SyncInv`: with "the error alert is up only over a recorded
  error", without which Ok could empty a child whose slot has no error),
  `RowsAreNotLost` (`RowsInv`: a covered table has no rows, a first fetch answers a
  covered table and a refresh an uncovered one, and a table has at most the rows of its
  list unless a list shrank to one article; that a load-more only lengthens the list
  needs `SingleLoader`, the addressing of requests and `ChildInSync`), `PinnedSlotsStayPure` (`PinnedInv`: a request to a
  leading pinned slot is for its category; it rests on the lemma that the leading
  pinned categories come first in every selection, so that their slots never move),
  `PagesStayContiguous` (`PagingInv`: a load-more in flight asks for the page after
  the last one listed, and `currentPageParam` is that last page while none is in
  flight; the list alone does not say which page comes next), and the action
  property `SpinnerStoppedOrFailed`.
* `ImageCacheProofs` - `CacheTypeCorrect`, `CacheStaysBounded` and
  `ImagesStayTracked` together (the dictionary has at most the keys of the list,
  hence at most the cap), `CacheStaysExact` (needs that without overlap a
  download's address is not in the dictionary, so saving adds a new key), and the
  action property `SavesAreFifo`.
* `SearchNewsProofs` - `SearchTypeCorrect`, `SearchLoadingIsBacked`,
  `OneSearchAtATime`, `ListAnswersTheBar` (`QuietInv`: the request in flight of an
  undisturbed search is for the text in the bar), `NoTextIsForgotten` (inductive by
  itself), `PagesInOrder` (`PagedInv`: the page in flight follows the last page
  listed).
* `BookmarksProofs` - `CountsStayTrue` (`TallyInv`: until a commit fails the Realm reads what
  the file holds, and the tab's record is well-formed, so that a commit marks a loaded
  tab as due for its notification; after a failure the placeholder still tells the
  file, because nothing is committed or notified any more, and the counts are not
  claimed),
  `BookmarksTypeCorrect` (`BaseInv`: an alert about the list is up over the list, or
  its row would be no row), `ListStaysTrue`, `FlagStaysTrue` (`ListSound` and
  `DetailSound`: a live object on a screen is stored, and a list has an article once,
  so that deleting one entry leaves no other of it), from these `CategoriesAreKept` and
  `DeletesAreExact`, both about the file and across failed commits (`AskedSound`: an
  exact alert still stands over the row it was asked for), and `ListNeverTraps` (`CleanInv`: while nothing was removed under the
  list, no commit failed and no delete was hasty, every object on screen is live and
  of the list's category, and an alert's row exists). A list without some of its rows is
  described by rank: an entry's new place is the number of entries kept up to it.
* `RealmNotifierProofs` - one invariant in four parts, each of which needs the others.
  `Typed`; `PlaceInv` (which list a notifier is in, that a pass is over the listed
  ones, and that an open that fails does so before anything ran); `VersionInv` (all
  notifiers that ran are at one version, ordered with the version of their rows,
  the target of the pass, the version to skip and the newest); `ToldInv` (the changes
  between the first rows and the newest are divided over the four places, and while
  a write begins everybody is at the newest version). From it `EveryChangeKept`,
  `CallbacksInStep` and the refinement `RealmKeepsObservation`: `Observe`, `Invalidate`,
  `Deliver`, `Delivered`, the commits and the errors map to steps of `RealmObservation`,
  everything the worker does to none. `HelpersInv` adds when the two helpers read,
  which gives `AssertionsHoldUntilFailure` and `AssertionsHoldIfOpened`; that the
  assertion does fail after a failure is the run `realm_asserts`. `WokenInv` and
  `SignalledInv` say who is still to be woken or signalled, and give
  `AsleepMeansHeard` and `WriteWaitsForWorker`: no wake-up is lost, the part of
  `EveryoneHears` that is safety. All these invariants held on the instance of
  `realm_fails` before they were proved.
* `SettingsProofs` - `SettingsAreTold` (`SettingsInv`: the settings are what was last
  chosen, and an open screen keeps the pinned cells enabled) and the refinement
  `SettingsKeepSubTabs`. Both rest on what Save selects (`SelectionIsSelected`: the
  enabled categories in the order of `allCases`) and on the way through the raw values
  (`StoredComesBack`).
* `AgesProofs` - `AgesTrueAtGreenwich` and `AgesNeverYounger` for every second of any
  number of years, every day of publication and every time zone, where TLC looks at the
  edges: both formatters are shown to count whole units, whose size never falls as the
  age grows, and the month an age falls into to begin no later than it and end after.
* `NewsAPIProofs` - `EveryCallAccounted` (`CallsInv`: a call is in one place at a time),
  `NoCompletionTwice` and `APIImplementsCalls`, the safety part of `ImplementsCalls`.

Three arguments by induction are over numbers and are written as least
counterexamples, from the well-foundedness of `<`: that the cell-by-cell `Selected`
of `Settings` is defined and what it selects, the ranks of `Bookmarks` and
`HomeFeed`, and the months of `Ages`. `Selected` is a recursive function for that reason; `SelectSeq` cannot be
reasoned about.

Only model-checked: liveness, which is out of the prover's reach: `LoadingEnds` of
`HomeFeed` and of `SearchNews`, `DownloadsSettle`, `EveryoneHears` and the liveness of
`ImplementsCalls`. What each of them needs of the states is proved
(`LoadingIsBacked`, `SearchLoadingIsBacked`, `CacheStaysExact`, `AsleepMeansHeard`,
`EveryCallAccounted`). The two violations are TLC's too.

## Not modelled

* Of Realm's notifications: those a commit suppresses, several callbacks of one
  notifier, a callback that invalidates its own token, row observers, synchronised
  Realms: the app uses none of them.
* The rest of `Pods/`: third-party code. The storage engine is there as headers and
  a binary, so its operations have no source to model; schema, migration, sync and
  permissions of the object store are not used by the app. This is most of the
  C++ of the repository.
* A Realm that failed to open in the app, and in `RealmNotifier` a commit that throws.
* Parsing dates.
* URL building, JSON decoding, strings, layout, xibs: data no property is about.

## Plan

Done: every part of the app's own state machine and of Realm's notifications; every
safety property and the safety of every refinement proved. Left:

1. Proofs that are longer than they need be: the shape lemmas of `BookmarksProofs` and
   the step lemmas of `ToldInv` repeat what one frame lemma could say.
2. Under which steps a premise such as `overlapped`, `gap`, `hasty` or `underfoot` is
   set, as theorems: that one never set means none of the named events happened.
