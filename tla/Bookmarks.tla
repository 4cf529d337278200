------------------------------- MODULE Bookmarks -------------------------------
(***************************************************************************)
(* Bookmarks: the Realm of News, the Favorites tab with its list of one    *)
(* category, and the detail screen that adds and removes a bookmark.       *)
(* Screens read the Realm when they open and again when Realm notifies     *)
(* them, some time after a commit and before the next write block runs     *)
(* (RealmObservation); between the two they hold objects that may be       *)
(* deleted, and reading one ends the process.  A commit that fails leaves  *)
(* the Realm in its write transaction until the process ends.  A detail    *)
(* screen hides the tab bar, so at most one is open.                       *)
(***************************************************************************)
EXTENDS Naturals, Sequences, FiniteSets

CONSTANTS
    Articles,    \* articles, by their primary key urlNews
    Categories,  \* CategoryType.allCases
    NoCategory,  \* categoryNews of an article found by search
    Absent,      \* the Realm does not have the article
    Closed       \* a screen that is not open

ASSUME BookmarksAssumption ==
    /\ IsFiniteSet(Articles)
    /\ NoCategory \notin Categories
    /\ Absent \notin Categories \cup {NoCategory}

VARIABLES
    realm,      \* what is read, per article: Absent, or its categoryNews
    file,       \* the same of what is committed
    failed,     \* a commit failed: the Realm is in that transaction still
    tab,        \* the tab on screen
    favorites,  \* the Favorites tab's first screen
    list,       \* the list of one category above it, or Closed
    detail,     \* the detail screen above the tab on screen, or Closed
    alert,      \* what is being presented
    trap,       \* a deleted object was read, a row was out of range, or Realm
                \* threw: the process ended
    \* History, read by no action:
    underfoot,  \* a detail screen removed an article the list holds
    hasty       \* a delete was begun on a row that had moved, or confirmed
                \* while a notification was due

screens == <<tab, favorites, list, detail, alert>>
store == <<realm, file, failed>>
history == <<underfoot, hasty>>
vars == <<store, screens, trap, history>>

Tabs == {"home", "favorites", "search"}
Kept == Categories \cup {NoCategory}
Stored == {u \in Articles : realm[u] # Absent}
InCategory(c) == {u \in Articles : realm[u] = c}

\* A managed News object: live until its bookmark is deleted, dead ever after.
Entry == [url : Articles, live : BOOLEAN]

\* cells: per table row, the index path its cell was given; pending: a
\* notification is due.
List == [category : Categories, articles : Seq(Entry), cells : Seq(Nat \ {0}),
         selected : SUBSET (Nat \ {0}), editing : BOOLEAN, pending : BOOLEAN]

\* managed: the News is the Realm's own object and not a copy.
Detail == [url : Articles, category : Kept, managed : BOOLEAN, live : BOOLEAN,
           isFavorited : BOOLEAN]

\* A screen that is open is not a closed one.
ASSUME ClosedAssumption == Closed \notin List \cup Detail

Favorites == [loaded : BOOLEAN, pending : BOOLEAN, empty : BOOLEAN,
              counts : [Categories -> Nat]]

NoAlert == [kind |-> "none"]
\* asked: the article the row showed; exact: nothing moved since it was read.
Alert ==
    [kind : {"none", "message", "noArticles", "deleteSelected"}]
    \cup [kind : {"deleteRow"}, row : Nat \ {0}, asked : Articles,
          exact : BOOLEAN]

Launch ==
    /\ tab' = "home"
    /\ favorites' = [loaded |-> FALSE, pending |-> FALSE, empty |-> TRUE,
                     counts |-> [c \in Categories |-> 0]]
    /\ list' = Closed
    /\ detail' = Closed
    /\ alert' = NoAlert
    /\ trap' = FALSE
    /\ failed' = FALSE
    /\ underfoot' = FALSE
    /\ hasty' = FALSE

Init ==
    /\ realm = [u \in Articles |-> Absent]
    /\ file = realm
    /\ tab = "home"
    /\ favorites = [loaded |-> FALSE, pending |-> FALSE, empty |-> TRUE,
                    counts |-> [c \in Categories |-> 0]]
    /\ list = Closed
    /\ detail = Closed
    /\ alert = NoAlert
    /\ trap = FALSE
    /\ failed = FALSE
    /\ underfoot = FALSE
    /\ hasty = FALSE

\* The process ends; what was committed is kept.
Relaunch ==
    /\ Launch
    /\ realm' = file
    /\ UNCHANGED file

Running == ~trap
\* The user can act on what is below the alerts.
Free == Running /\ alert = NoAlert
ListShown == tab = "favorites" /\ list # Closed /\ detail = Closed
Rows == DOMAIN list.articles

Trap ==
    /\ trap' = TRUE
    /\ UNCHANGED <<store, screens, history>>

-----------------------------------------------------------------------------
(* FavoritesDetailViewModel.fetchData.                                     *)

\* The articles of a set in some order, as objects just read.
Arrangements(S) ==
    {s \in [1..Cardinality(S) -> [url : S, live : {TRUE}]] :
        \A u \in S : \E k \in DOMAIN s : s[k].url = u}

\* reloadData: a fresh cell for each row, none selected.
Reloaded(l) ==
    [l EXCEPT !.cells = [k \in DOMAIN l.articles |-> k], !.selected = {}]

\* Without an article of the category the old ones stay.
Fetched(l) ==
    IF InCategory(l.category) = {}
    THEN {Reloaded(l)}
    ELSE {Reloaded([l EXCEPT !.articles = s]) :
             s \in Arrangements(InCategory(l.category))}

\* Mutant: the list is reloaded but not fetched.
ReloadedOnly(l) == {Reloaded(l)}
Refreshed(l) == Fetched(l)

\* The list after the notification it is due.
ListTold ==
    IF list # Closed /\ list.pending
    THEN Refreshed([list EXCEPT !.pending = FALSE])
    ELSE {list}

\* Mutant: the placeholder is only ever taken away.
NotEmpty == favorites.empty /\ Stored = {}
NoBookmarks == Stored = {}

\* The same of the Favorites tab.
FavoritesTold ==
    IF favorites.pending
    THEN [favorites EXCEPT
             !.pending = FALSE,
             !.empty = NoBookmarks,
             !.counts = [c \in Categories |-> Cardinality(InCategory(c))]]
    ELSE favorites

-----------------------------------------------------------------------------
(* Screens.                                                                *)

\* The Favorites tab is set up when it is first shown.
SelectTab(t) ==
    /\ Free
    /\ detail = Closed
    /\ t = "favorites" /\ ~favorites.loaded => ~failed
    /\ tab' = t
    /\ favorites' = IF t = "favorites" /\ ~favorites.loaded
                    THEN [favorites EXCEPT !.loaded = TRUE, !.pending = TRUE]
                    ELSE favorites
    /\ UNCHANGED <<store, list, detail, alert, trap, history>>

\* fetchData runs before there is a view to present its alert on.
OpenList(c) ==
    /\ Free
    /\ ~failed
    /\ tab = "favorites"
    /\ list = Closed
    /\ list' \in Fetched([category |-> c, articles |-> <<>>, cells |-> <<>>,
                          selected |-> {}, editing |-> FALSE, pending |-> TRUE])
    /\ UNCHANGED <<store, tab, favorites, detail, alert, trap, history>>

CloseList ==
    /\ Free
    /\ ListShown
    /\ list' = Closed
    /\ UNCHANGED <<store, tab, favorites, detail, alert, trap, history>>

\* Mutant: the flag keeps its default.
NotFavorited(u) == FALSE
IsFavorited(u) == u \in Stored

OpenDetail(u, c, managed) ==
    /\ detail' = [url |-> u, category |-> c, managed |-> managed,
                  live |-> TRUE, isFavorited |-> IsFavorited(u)]
    /\ UNCHANGED <<store, tab, favorites, list, alert, trap, history>>

\* From the News tab an article has its category, from Search none.
OpenFromTab(u, c) ==
    /\ Free
    /\ detail = Closed
    /\ \/ tab = "home" /\ c \in Categories
       \/ tab = "search" /\ c = NoCategory
    /\ OpenDetail(u, c, FALSE)

OpenFromList(k) ==
    /\ Free
    /\ ListShown
    /\ ~list.editing
    /\ list.articles[k].live
    /\ OpenDetail(list.articles[k].url, list.category, TRUE)

CloseDetail ==
    /\ Free
    /\ detail # Closed
    /\ detail' = Closed
    /\ UNCHANGED <<store, tab, favorites, list, alert, trap, history>>

Edit ==
    /\ Free
    /\ ListShown
    /\ list' = [list EXCEPT !.editing = ~list.editing, !.selected = {}]
    /\ UNCHANGED <<store, tab, favorites, detail, alert, trap, history>>

\* A row is selected, or selected no longer.
Mark(k) ==
    /\ Free
    /\ ListShown
    /\ list.editing
    /\ k \in list.selected \/ list.articles[k].live
    /\ list' = [list EXCEPT !.selected = (@ \ {k}) \cup ({k} \ @)]
    /\ UNCHANGED <<store, tab, favorites, detail, alert, trap, history>>

\* The row is scrolled out of view and back, or its image came: a fresh cell.
DisplayRow(k) ==
    /\ Running
    /\ ListShown
    /\ list.articles[k].live
    /\ list' = [list EXCEPT !.cells[k] = k]
    /\ UNCHANGED <<store, tab, favorites, detail, alert, trap, history>>

\* The cell of a category is laid out: its count is read there and then.
DisplayCount(c) ==
    /\ Running
    /\ tab = "favorites"
    /\ list = Closed
    /\ favorites' = [favorites EXCEPT !.counts[c] = Cardinality(InCategory(c))]
    /\ UNCHANGED <<store, tab, list, detail, alert, trap, history>>

\* Tapping or laying out a row reads its article.
ReadDeadRow(k) ==
    /\ Running
    /\ ListShown
    /\ ~list.articles[k].live
    /\ Trap

OkMessage ==
    /\ Running
    /\ alert.kind = "message"
    /\ alert' = NoAlert
    /\ UNCHANGED <<store, tab, favorites, list, detail, trap, history>>

\* previousToViewController.
OkNoArticles ==
    /\ Running
    /\ alert.kind = "noArticles"
    /\ alert' = NoAlert
    /\ list' = Closed
    /\ UNCHANGED <<store, tab, favorites, detail, trap, history>>

-----------------------------------------------------------------------------
(* Writes.  What is due is told when the write begins.  A completion runs  *)
(* within the write block; when the commit then fails, it runs again, with *)
(* false.  Nothing rolls that block back: it is not in the file, but the   *)
(* Realm stays in its transaction, which lets nobody begin another or      *)
(* observe, and delivers no notification.                                  *)

\* What is left of a list of articles once the Realm deleted some.
Bury(s, gone) ==
    [k \in DOMAIN s |-> [s[k] EXCEPT !.live = @ /\ s[k].url \notin gone]]

\* Every observer hears of a commit later.
Observed(l) == IF l = Closed THEN Closed ELSE [l EXCEPT !.pending = TRUE]

Notify ==
    favorites' = [FavoritesTold EXCEPT !.pending = favorites.loaded]

Commit(r, l, a) ==
    /\ realm' = r
    /\ file' = r
    /\ list' = Observed(l)
    /\ Notify
    /\ alert' = a
    /\ UNCHANGED failed

CommitFails(r, l, a) ==
    /\ realm' = r
    /\ failed' = TRUE
    /\ list' = l
    /\ favorites' = FavoritesTold
    /\ alert' = IF a = NoAlert THEN [kind |-> "message"] ELSE a
    /\ UNCHANGED file

Write(r, l, a) == Commit(r, l, a) \/ CommitFails(r, l, a)

\* A write, setting up the Favorites tab or opening a list within the failed
\* transaction: beginWrite or observe throws what nobody catches.
ThrowInTransaction ==
    /\ Free
    /\ failed
    /\ \/ detail # Closed
       \/ detail = Closed /\ ~favorites.loaded
       \/ tab = "favorites" /\ list = Closed
    /\ Trap

\* The failed transaction is in a bad state: a row, a count or a detail screen
\* that reads from it gets what the block wrote, or ends the process.
ReadInTransaction ==
    /\ Running
    /\ failed
    /\ detail = Closed
    /\ Trap

\* A copy is stored over whatever has its key; the Realm's own object, even a
\* deleted one, is left as it is.
AddBookmark ==
    /\ Free
    /\ ~failed
    /\ detail # Closed
    /\ ~detail.isFavorited
    /\ detail' = [detail EXCEPT !.isFavorited = TRUE]
    /\ \E l \in ListTold :
          \/ /\ detail.managed
             /\ list' = l
             /\ favorites' = FavoritesTold
             /\ UNCHANGED <<store, alert>>
          \/ /\ detail.managed
             /\ CommitFails(realm, l, NoAlert)
          \/ /\ ~detail.managed
             /\ Write([realm EXCEPT ![detail.url] = detail.category], l, NoAlert)
    /\ UNCHANGED <<tab, trap, history>>

Holds(l, u) == l # Closed /\ \E k \in DOMAIN l.articles : l.articles[k].url = u

\* The key is always found, as FlagTellsRealm says.
RemoveBookmark ==
    /\ Free
    /\ ~failed
    /\ detail # Closed
    /\ detail.isFavorited
    /\ detail.live
    /\ detail.url \in Stored
    /\ detail' = [detail EXCEPT !.isFavorited = FALSE, !.live = ~detail.managed]
    /\ \E l \in ListTold :
          /\ Write([realm EXCEPT ![detail.url] = Absent],
                   IF l = Closed THEN Closed
                   ELSE [l EXCEPT !.articles = Bury(@, {detail.url})],
                   NoAlert)
          /\ underfoot' = (underfoot \/ Holds(l, detail.url))
    /\ UNCHANGED <<tab, trap, hasty>>

\* The key of the deleted object is read.
RemoveDead ==
    /\ Free
    /\ detail # Closed
    /\ detail.isFavorited
    /\ ~detail.live
    /\ Trap

\* The delete button of the cell in row k names the index path it was given.
AskDelete(k) ==
    /\ Free
    /\ ListShown
    /\ alert' = [kind |-> "deleteRow", row |-> list.cells[k],
                 asked |-> list.articles[k].url, exact |-> list.cells[k] = k]
    /\ hasty' = (hasty \/ list.cells[k] # k)
    /\ UNCHANGED <<store, tab, favorites, list, detail, trap, underfoot>>

AskDeleteSelected ==
    /\ Free
    /\ ListShown
    /\ list.editing
    /\ alert' = [kind |-> "deleteSelected"]
    /\ UNCHANGED <<store, tab, favorites, list, detail, trap, history>>

CancelDelete ==
    /\ Running
    /\ alert.kind \in {"deleteRow", "deleteSelected"}
    /\ alert' = NoAlert
    /\ UNCHANGED <<store, tab, favorites, list, detail, trap, history>>

\* A sequence without the given places.
Without(s, gone) ==
    LET left == DOMAIN s \ gone
        place(j) == CHOOSE k \in left : Cardinality({i \in left : i <= k}) = j
    IN  [j \in 1..Cardinality(left) |-> s[place(j)]]

\* The list's objects were read anew when the write began.
ReadAnew == list.pending /\ InCategory(list.category) # {}

\* Mutant: the articles deleted stay in the view model.
ArticlesKept(l, gone, byRow) == l.articles
\* A row is removed by its place.  Selected articles are looked up by equality,
\* and a deleted object equals no other, not even of the same article.
ArticlesLeft(l, gone, byRow) ==
    IF byRow \/ ~ReadAnew THEN Without(l.articles, gone) ELSE l.articles

\* Mutant: the selection is kept as it was.
Unmoved(rows, gone) == rows
\* Where the rows of a set are once others went.
Moved(rows, gone) ==
    {k - Cardinality({i \in gone : i < k}) : k \in rows \ gone}

\* The list once rows were deleted.  The cells that stay keep their index path.
RowsDeleted(l, gone, byRow) ==
    [l EXCEPT !.articles = ArticlesLeft(l, gone, byRow),
              !.cells = Without(@, gone),
              !.selected = Moved(@, gone)]

\* UITableView counts its rows after deleteRows.
CountsAgree(l, gone, byRow) ==
    /\ gone \subseteq DOMAIN l.articles
    /\ Len(ArticlesLeft(l, gone, byRow)) = Len(l.cells) - Cardinality(gone)

\* What a list without articles presents when it is told.
AlertTold ==
    IF list.pending /\ InCategory(list.category) = {}
    THEN [kind |-> "noArticles"] ELSE NoAlert

Readable(gone) == gone \subseteq Rows /\ \A k \in gone : list.articles[k].live

\* The rows are read; with the write the list may be read anew; then they are
\* deleted from the Realm, the view model and the table.
DeleteRows(gone, byRow) ==
    \/ /\ failed \/ ~Readable(gone)
       /\ Trap
    \/ /\ ~failed
       /\ Readable(gone)
       /\ hasty' = (hasty \/ list.pending)
       /\ \E l \in ListTold :
             LET urls == {list.articles[k].url : k \in gone}
                 left == RowsDeleted(l, gone, byRow)
             IN  \/ /\ ~CountsAgree(l, gone, byRow)
                    /\ trap' = TRUE
                    /\ UNCHANGED <<store, favorites, list, alert>>
                 \/ /\ CountsAgree(l, gone, byRow)
                    /\ Write([u \in Articles |->
                                 IF u \in urls THEN Absent ELSE realm[u]],
                             [left EXCEPT !.articles = Bury(@, urls)],
                             AlertTold)
                    /\ UNCHANGED trap
       /\ UNCHANGED <<tab, detail, underfoot>>

\* Mutant: the row is the one after.
NextRow == alert.row + 1
AskedRow == alert.row

OkDeleteRow ==
    /\ Running
    /\ alert.kind = "deleteRow"
    /\ DeleteRows({AskedRow}, TRUE)

OkDeleteSelected ==
    /\ Running
    /\ alert.kind = "deleteSelected"
    /\ IF list.selected = {}
       THEN /\ alert' = NoAlert
            /\ UNCHANGED <<store, tab, favorites, list, detail, trap, history>>
       ELSE DeleteRows(list.selected, FALSE)

-----------------------------------------------------------------------------
(* Notifications.                                                          *)

\* fetchData, its alert if there is nothing left, and reloadData.  UIKit
\* presents nothing over an alert, nor over a list that is not shown.
NotifyList ==
    /\ Running
    /\ ~failed
    /\ list # Closed
    /\ list.pending
    /\ list' \in ListTold
    /\ alert' = IF /\ InCategory(list.category) = {}
                   /\ ListShown
                   /\ alert = NoAlert
                THEN [kind |-> "noArticles"]
                ELSE IF alert.kind = "deleteRow"
                     THEN [alert EXCEPT !.exact = FALSE]
                     ELSE alert
    /\ UNCHANGED <<store, tab, favorites, detail, trap, history>>

NotifyFavorites ==
    /\ Running
    /\ ~failed
    /\ favorites.pending
    /\ favorites' = FavoritesTold
    /\ UNCHANGED <<store, tab, list, detail, alert, trap, history>>

-----------------------------------------------------------------------------

Next ==
    \/ \E t \in Tabs : SelectTab(t)
    \/ \E c \in Categories : OpenList(c) \/ DisplayCount(c)
    \/ CloseList
    \/ \E u \in Articles, c \in Kept : OpenFromTab(u, c)
    \/ list # Closed /\ \E k \in Rows :
          \/ OpenFromList(k)
          \/ Mark(k)
          \/ DisplayRow(k)
          \/ ReadDeadRow(k)
          \/ AskDelete(k)
    \/ CloseDetail
    \/ Edit
    \/ OkMessage
    \/ OkNoArticles
    \/ AddBookmark
    \/ RemoveBookmark
    \/ RemoveDead
    \/ ThrowInTransaction
    \/ ReadInTransaction
    \/ AskDeleteSelected
    \/ CancelDelete
    \/ OkDeleteRow
    \/ OkDeleteSelected
    \/ NotifyList
    \/ NotifyFavorites
    \/ Relaunch

Spec == Init /\ [][Next]_vars

-----------------------------------------------------------------------------
(* Properties.                                                             *)

\* Table and view model count the same rows, and only rows there are selected.
TypeOK ==
    /\ realm \in [Articles -> Kept \cup {Absent}]
    /\ file \in [Articles -> Kept \cup {Absent}]
    /\ tab \in Tabs
    /\ favorites \in Favorites
    /\ list # Closed =>
          /\ list \in List
          /\ Len(list.cells) = Len(list.articles)
          /\ list.selected \subseteq Rows
    /\ detail # Closed => detail \in Detail
    /\ alert \in {NoAlert} \cup Alert
    /\ trap \in BOOLEAN
    /\ failed \in BOOLEAN
    /\ underfoot \in BOOLEAN
    /\ hasty \in BOOLEAN

\* Once Realm's notification was handled the list shows exactly the bookmarks of
\* its category, all of them live, unless there are none: then fetchData leaves
\* the old ones.  Not claimed after a commit failed.
ListFollowsRealm ==
    list # Closed /\ ~list.pending /\ ~failed /\ InCategory(list.category) # {} =>
        /\ {list.articles[k].url : k \in Rows} = InCategory(list.category)
        /\ \A k \in Rows : list.articles[k].live
        /\ \A j, k \in Rows :
              list.articles[j].url = list.articles[k].url => j = k

\* Deleting in the list, singly or many at once, never leads to a deleted object
\* being read or a row out of range.  That takes a detail screen removing an
\* article under the list, a failed commit, a delete begun on a row that had
\* moved, or one confirmed while a notification was due.
NoTrapFromList == trap => underfoot \/ failed \/ hasty

\* The bookmark button of a detail screen says whether the Realm has its
\* article, unless its own object was deleted or a commit failed.
FlagTellsRealm ==
    detail # Closed /\ detail.live /\ ~failed =>
        detail.isFavorited = (detail.url \in Stored)

\* No bookmark that is kept ever changes its category, which would move it to
\* another list or, with none, out of them all: not even by adding it again from
\* another tab, nor by what a failed commit leaves behind.
BookmarkKeepsCategory ==
    [][\A u \in Articles :
           file[u] # Absent => file'[u] \in {file[u], Absent}]_vars

\* A delete confirmed for a row deletes the article that row showed and no
\* other, unless the rows had moved.
DeletesWhatWasAsked ==
    [][alert.kind = "deleteRow" /\ alert.exact =>
           \A u \in Articles :
               file[u] # Absent /\ file'[u] = Absent => u = alert.asked]_vars

\* Once notified, the Favorites tab shows its placeholder just when no bookmark
\* is kept, those without a category included, even after a commit failed; and
\* until one does it counts the bookmarks there are.
CountsFollowRealm ==
    favorites.loaded /\ ~favorites.pending =>
        /\ favorites.empty = (\A u \in Articles : file[u] = Absent)
        /\ ~failed => \A c \in Categories :
                          favorites.counts[c] = Cardinality(InCategory(c))
=============================================================================
