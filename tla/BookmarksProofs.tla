---------------------------- MODULE BookmarksProofs ----------------------------
(* The bookmarks, the list, the detail screen and the Favorites tab for any number
   of articles and categories.                                             *)
EXTENDS Bookmarks, FiniteSetTheorems, TLAPS

\* Until a commit fails, what is read is what is committed.  The tab's record is
\* well-formed, and true of both once it was notified.
TallyInv ==
    /\ favorites \in Favorites
    /\ ~failed => realm = file
    /\ CountsFollowRealm

\* The bookmarks of a category can be counted.
LEMMA CountType ==
    \A c : Cardinality(InCategory(c)) \in Nat
<1>1. SUFFICES ASSUME NEW c PROVE Cardinality(InCategory(c)) \in Nat
  OBVIOUS
<1>2. InCategory(c) \subseteq Articles
  BY DEF InCategory
<1>3. IsFiniteSet(InCategory(c))
  BY <1>2, FS_Subset, BookmarksAssumption
<1> QED
  BY <1>3, FS_CardinalityType

\* After a relaunch the tab is not loaded and claims nothing; the Realm is read
\* from the file.
LEMMA RelaunchTally == Relaunch => TallyInv'
<1> SUFFICES ASSUME Relaunch PROVE TallyInv'
  OBVIOUS
<1>1. favorites' \in Favorites /\ ~favorites'.loaded
  BY DEF Relaunch, Launch, Favorites
<1>2. realm' = file'
  BY DEF Relaunch
<1> QED
  BY <1>1, <1>2 DEF TallyInv, CountsFollowRealm

\* The same of the first launch.
LEMMA InitTally == Init => TallyInv
<1> SUFFICES ASSUME Init PROVE TallyInv
  OBVIOUS
<1>1. favorites \in Favorites /\ ~favorites.loaded /\ realm = file
  BY DEF Init, Favorites
<1> QED
  BY <1>1 DEF TallyInv, CountsFollowRealm

\* A step that leaves the Realm and the tab alone.
LEMMA SameTally == TallyInv /\ UNCHANGED <<store, favorites>> => TallyInv'
<1> SUFFICES ASSUME TallyInv, UNCHANGED <<store, favorites>> PROVE TallyInv'
  OBVIOUS
<1>1. UNCHANGED <<realm, file, failed, favorites>>
  BY DEF store
<1>2. \A c : InCategory(c)' = InCategory(c)
  BY <1>1 DEF InCategory
<1> QED
  BY <1>1, <1>2 DEF TallyInv, CountsFollowRealm

\* Told what it is due before any commit failed, the tab is true of the Realm
\* there is and of the file.
LEMMA ToldTally ==
    ASSUME TallyInv, ~failed
    PROVE  /\ FavoritesTold \in Favorites
           /\ FavoritesTold.loaded = favorites.loaded
           /\ ~FavoritesTold.pending
           /\ FavoritesTold.loaded =>
                 /\ FavoritesTold.empty = (\A u \in Articles : file[u] = Absent)
                 /\ \A c \in Categories :
                       FavoritesTold.counts[c] = Cardinality(InCategory(c))
<1>1. CASE favorites.pending
  <2>1. [c \in Categories |-> Cardinality(InCategory(c))] \in [Categories -> Nat]
    BY CountType
  <2>2. NoBookmarks = (\A u \in Articles : file[u] = Absent)
    BY DEF NoBookmarks, Stored, TallyInv
  <2>3. NoBookmarks \in BOOLEAN
    BY DEF NoBookmarks
  <2> QED
    BY <1>1, <2>1, <2>2, <2>3 DEF FavoritesTold, TallyInv, Favorites
<1>2. CASE ~favorites.pending
  BY <1>2 DEF FavoritesTold, TallyInv, Favorites, CountsFollowRealm
<1> QED
  BY <1>1, <1>2

\* A step that tells the tab what it is due and leaves the Realm alone.
LEMMA TellTally ==
    ASSUME TallyInv, ~failed, UNCHANGED store, favorites' = FavoritesTold
    PROVE  TallyInv'
<1>1. UNCHANGED <<realm, file, failed>> /\ \A c : InCategory(c)' = InCategory(c)
  BY DEF InCategory, store
<1> QED
  BY <1>1, ToldTally DEF TallyInv, CountsFollowRealm

\* Whatever is committed, the notification of a loaded tab is due.  When the
\* commit fails the file is as it was and the tab was just told so.
LEMMA WriteTally ==
    ASSUME NEW r, NEW l, NEW a, TallyInv, ~failed, Write(r, l, a)
    PROVE  TallyInv'
<1>1. CASE Commit(r, l, a)
  <2>1. favorites' = [FavoritesTold EXCEPT !.pending = favorites.loaded]
    BY <1>1 DEF Commit, Notify
  <2>2. favorites' \in Favorites /\ favorites'.pending = favorites'.loaded
    BY <2>1, ToldTally DEF TallyInv, Favorites
  <2>3. realm' = file'
    BY <1>1 DEF Commit
  <2> QED
    BY <2>2, <2>3 DEF TallyInv, CountsFollowRealm
<1>2. CASE CommitFails(r, l, a)
  <2>1. failed' /\ file' = file /\ favorites' = FavoritesTold
    BY <1>2 DEF CommitFails
  <2> QED
    BY <2>1, ToldTally DEF TallyInv, CountsFollowRealm
<1> QED
  BY <1>1, <1>2 DEF Write

\* A delete ends in a write, at a deleted object, at a table that miscounts or in
\* the transaction of one that failed.
LEMMA DeleteTally ==
    ASSUME NEW gone, NEW byRow, TallyInv, DeleteRows(gone, byRow)
    PROVE  TallyInv'
<1>1. CASE Trap
  BY <1>1, SameTally DEF Trap, screens
<1>2. CASE ~failed /\ \E r, l, a : Write(r, l, a)
  BY <1>2, WriteTally
<1>3. CASE UNCHANGED <<store, favorites>>
  BY <1>3, SameTally
<1> QED
  BY <1>1, <1>2, <1>3 DEF DeleteRows

\* Every action keeps it: only SelectTab, DisplayCount, NotifyFavorites, Relaunch
\* and the writes touch the Realm or the tab.
LEMMA TallyStep == TallyInv /\ [Next]_vars => TallyInv'
<1> SUFFICES ASSUME TallyInv, [Next]_vars PROVE TallyInv'
  OBVIOUS
<1>1. ASSUME NEW t \in Tabs, SelectTab(t) PROVE TallyInv'
  <2>1. CASE t = "favorites" /\ ~favorites.loaded
    <3>1. favorites' \in Favorites /\ favorites'.pending
      BY <1>1, <2>1 DEF SelectTab, TallyInv, Favorites
    <3>2. UNCHANGED <<realm, file, failed>>
      BY <1>1 DEF SelectTab, store
    <3> QED
      BY <3>1, <3>2 DEF TallyInv, CountsFollowRealm
  <2>2. CASE ~(t = "favorites" /\ ~favorites.loaded)
    BY <1>1, <2>2, SameTally DEF SelectTab
  <2> QED
    BY <2>1, <2>2
<1>2. CASE AddBookmark
  <2>1. CASE UNCHANGED store /\ favorites' = FavoritesTold
    BY <1>2, <2>1, TellTally DEF AddBookmark
  <2>2. CASE \E r, l, a : Write(r, l, a)
    BY <1>2, <2>2, WriteTally DEF AddBookmark
  <2> QED
    BY <1>2, <2>1, <2>2 DEF AddBookmark, Write
<1>3. CASE RemoveBookmark
  BY <1>3, WriteTally DEF RemoveBookmark
<1>4. CASE OkDeleteRow
  BY <1>4, DeleteTally DEF OkDeleteRow
<1>5. CASE OkDeleteSelected
  BY <1>5, DeleteTally, SameTally DEF OkDeleteSelected
<1>6. CASE NotifyFavorites
  BY <1>6, TellTally DEF NotifyFavorites
<1>7. CASE Relaunch
  BY <1>7, RelaunchTally
<1>8. CASE UNCHANGED vars
  BY <1>8, SameTally DEF vars, screens
<1>9. ASSUME NEW c \in Categories, OpenList(c) PROVE TallyInv'
  BY <1>9, SameTally DEF OpenList
<1>10. ASSUME NEW c \in Categories, DisplayCount(c) PROVE TallyInv'
  <2>1. favorites' = [favorites EXCEPT !.counts[c] = Cardinality(InCategory(c))]
    BY <1>10 DEF DisplayCount
  <2>2. Cardinality(InCategory(c)) \in Nat
    BY CountType
  <2>3. /\ favorites' \in Favorites
        /\ favorites'.loaded = favorites.loaded
        /\ favorites'.pending = favorites.pending
        /\ favorites'.empty = favorites.empty
        /\ \A d \in Categories : favorites'.counts[d] =
              IF d = c THEN Cardinality(InCategory(c)) ELSE favorites.counts[d]
    BY <2>1, <2>2 DEF TallyInv, Favorites
  <2>4. UNCHANGED <<realm, file, failed>> /\ \A d : InCategory(d)' = InCategory(d)
    BY <1>10 DEF DisplayCount, store, InCategory
  <2> QED
    BY <2>3, <2>4 DEF TallyInv, CountsFollowRealm
<1>11. ASSUME NEW u \in Articles, NEW c \in Kept, OpenFromTab(u, c)
       PROVE  TallyInv'
  BY <1>11, SameTally DEF OpenFromTab, OpenDetail
<1>12. ASSUME NEW k \in Rows,
              \/ OpenFromList(k)
              \/ Mark(k)
              \/ DisplayRow(k)
              \/ ReadDeadRow(k)
              \/ AskDelete(k)
       PROVE  TallyInv'
  BY <1>12, SameTally
     DEF OpenFromList, OpenDetail, Mark, DisplayRow, ReadDeadRow, Trap, screens,
         AskDelete
<1>13. CASE \/ CloseList
            \/ CloseDetail
            \/ Edit
            \/ OkMessage
            \/ OkNoArticles
            \/ RemoveDead
            \/ ThrowInTransaction
            \/ ReadInTransaction
            \/ AskDeleteSelected
            \/ CancelDelete
            \/ NotifyList
  BY <1>13, SameTally
     DEF CloseList, CloseDetail, Edit, OkMessage, OkNoArticles, RemoveDead,
         ThrowInTransaction, ReadInTransaction, Trap, screens,
         AskDeleteSelected, CancelDelete, NotifyList
<1> QED
  BY <1>1, <1>2, <1>3, <1>4, <1>5, <1>6, <1>7, <1>8, <1>9, <1>10, <1>11, <1>12,
     <1>13
     DEF Next

\* Whatever screens are open, once Realm notified it the Favorites tab shows its
\* placeholder (FavoritesViewController.configObserve) just when the file has no
\* bookmark, even after a commit failed and left its block's writes readable;
\* and until one fails it counts the bookmarks there are.
THEOREM CountsStayTrue == Spec => []CountsFollowRealm
<1>1. TallyInv => CountsFollowRealm
  BY DEF TallyInv
<1> QED
  BY <1>1, InitTally, TallyStep, PTL DEF Spec

-----------------------------------------------------------------------------
(* Counting rows.  What is left of a list once rows went is found by rank. *)

\* A set of numbers has a least one.
LEMMA LeastNumber ==
    ASSUME NEW T \in SUBSET Nat, T # {}
    PROVE  \E x \in T : \A y \in T : x <= y
<1> DEFINE R == OpToRel(<, Nat)
<1>1. IsWellFoundedOn(R, Nat)
  BY NatLessThanWellFounded
<1>2. \A x, y \in Nat : x < y => <<x, y>> \in R
  BY DEF OpToRel
<1> HIDE DEF R
<1>3. PICK x \in T : \A y \in T : ~(<<y, x>> \in R)
  BY <1>1, WFMin
<1>4. \A y \in T : y \in Nat /\ x \in Nat /\ ~(y < x)
  BY <1>2, <1>3
<1> QED
  BY <1>4

\* The places are finitely many, and so are those up to any one of them.
LEMMA PlacesFinite ==
    ASSUME NEW n \in Nat, NEW left \in SUBSET (1..n)
    PROVE  /\ IsFiniteSet(left) /\ Cardinality(left) \in Nat
           /\ \A m : /\ IsFiniteSet({i \in left : i <= m})
                     /\ Cardinality({i \in left : i <= m}) \in Nat
                     /\ Cardinality({i \in left : i <= m}) <= Cardinality(left)
<1>1. IsFiniteSet(1..n)
  BY FS_Interval
<1>2. IsFiniteSet(left) /\ Cardinality(left) \in Nat
  BY <1>1, FS_Subset, FS_CardinalityType
<1>3. ASSUME NEW m
      PROVE  /\ IsFiniteSet({i \in left : i <= m})
             /\ Cardinality({i \in left : i <= m}) \in Nat
             /\ Cardinality({i \in left : i <= m}) <= Cardinality(left)
  <2>1. {i \in left : i <= m} \in SUBSET left
    OBVIOUS
  <2> QED
    BY <1>2, <2>1, FS_Subset, FS_CardinalityType
<1> QED
  BY <1>2, <1>3

\* There is a place of every rank: the first one up to which there are enough.
LEMMA RankOnto ==
    ASSUME NEW n \in Nat, NEW left \in SUBSET (1..n),
           NEW j \in 1..Cardinality(left)
    PROVE  \E k \in left : Cardinality({i \in left : i <= k}) = j
<1> DEFINE Upto(m) == {i \in left : i <= m}
           T == {m \in Nat : Cardinality(Upto(m)) >= j}
<1>0. \A i \in left : i \in Nat /\ 1 <= i /\ i <= n
  OBVIOUS
<1>1. /\ Cardinality(left) \in Nat
      /\ \A m : IsFiniteSet(Upto(m)) /\ Cardinality(Upto(m)) \in Nat
  BY PlacesFinite
<1>2. Upto(n) = left
  BY <1>0
<1>3. n \in T
  BY <1>1, <1>2
<1>4. PICK m \in T : \A y \in T : m <= y
  <2> HIDE DEF T
  <2>1. T \in SUBSET Nat
    BY DEF T
  <2> QED
    BY <1>3, <2>1, LeastNumber
<1>5. m # 0
  <2>1. Upto(0) = {}
    <3>1. \A i \in left : ~(i <= 0)
      BY <1>0
    <3> QED
      BY <3>1
  <2>2. Cardinality(Upto(0)) = 0
    BY <2>1, FS_EmptySet
  <2> QED
    BY <1>1, <1>4, <2>2
<1>6. m \in Nat /\ m - 1 \in Nat /\ m - 1 \notin T
  <2>1. m \in Nat
    BY <1>4
  <2>2. m - 1 \in Nat /\ ~(m <= m - 1)
    BY <1>5, <2>1
  <2> QED
    BY <1>4, <2>1, <2>2
<1>7. CASE m \notin left
  <2>1. \A i \in left : i <= m <=> i <= m - 1
    BY <1>0, <1>6, <1>7
  <2>2. Upto(m) = Upto(m - 1)
    BY <2>1
  <2> QED
    BY <1>4, <1>6, <2>2
<1>8. CASE m \in left
  <2>1. Upto(m) = Upto(m - 1) \cup {m} /\ m \notin Upto(m - 1)
    <3>1. \A i \in left : i <= m <=> i <= m - 1 \/ i = m
      BY <1>0, <1>6
    <3>2. ~(m <= m - 1) /\ m <= m
      BY <1>6
    <3> QED
      BY <1>8, <3>1, <3>2
  <2> HIDE DEF Upto
  <2>2. Cardinality(Upto(m)) = Cardinality(Upto(m - 1)) + 1
    BY <1>1, <2>1, FS_AddElement
  <2>3. Cardinality(Upto(m)) = j
    BY <1>1, <1>4, <1>6, <2>2
  <2> QED
    BY <1>8, <2>3 DEF Upto
<1> QED
  BY <1>7, <1>8

\* How many places are left.
LEMMA PlacesLeft ==
    ASSUME NEW n \in Nat, NEW gone \in SUBSET (1..n)
    PROVE  /\ Cardinality((1..n) \ gone) = n - Cardinality(gone)
           /\ Cardinality((1..n) \ gone) \in Nat /\ Cardinality(gone) \in Nat
<1>1. 1 \in Int /\ n \in Int /\ (1 > n => n = 0) /\ n - 1 + 1 = n
  OBVIOUS
<1>2. IsFiniteSet(1..n) /\ Cardinality(1..n) = n
  BY <1>1, FS_Interval
<1>3. (1..n) \cap gone = gone
  OBVIOUS
<1>4. Cardinality((1..n) \ gone) = Cardinality(1..n) - Cardinality((1..n) \cap gone)
  BY <1>2, FS_Difference
<1>5. (1..n) \ gone \in SUBSET (1..n)
  OBVIOUS
<1> QED
  BY <1>2, <1>3, <1>4, <1>5, PlacesFinite

\* The rows that stay move up by as many as went before them: they are rows of
\* the shorter list.
LEMMA MovedShape ==
    ASSUME NEW n \in Nat, NEW gone \in SUBSET (1..n), NEW rows \in SUBSET (1..n)
    PROVE  Moved(rows, gone) \subseteq 1..(n - Cardinality(gone))
<1> SUFFICES ASSUME NEW k \in rows \ gone
             PROVE  k - Cardinality({i \in gone : i < k})
                        \in 1..(n - Cardinality(gone))
  BY DEF Moved
<1> DEFINE left == (1..n) \ gone
           A == {i \in gone : i < k}
           B == {i \in left : i <= k}
<1>1. k \in Nat /\ k \in left /\ k \in B /\ left \in SUBSET (1..n)
  OBVIOUS
<1>2. A \cup B = 1..k /\ A \cap B = {} /\ A \in SUBSET (1..n)
  <2>1. k \notin gone /\ k \in Nat /\ k <= n
    OBVIOUS
  <2>2. \A i \in gone : i # k /\ i \in Nat /\ 1 <= i /\ (i < k <=> i <= k)
    BY <2>1
  <2>3. \A i \in 1..k : i \in 1..n /\ i <= k
    BY <2>1
  <2>4. \A i \in 1..n : i <= k => i \in 1..k
    BY <2>1
  <2>5. A \cup B \subseteq 1..k
    BY <2>2, <2>4
  <2>6. 1..k \subseteq A \cup B
    BY <2>2, <2>3
  <2> QED
    BY <2>5, <2>6
<1>3. /\ Cardinality(left) = n - Cardinality(gone)
      /\ Cardinality(left) \in Nat
  BY PlacesLeft
<1>4. /\ IsFiniteSet(A) /\ Cardinality(A) \in Nat
      /\ IsFiniteSet(B) /\ Cardinality(B) \in Nat
      /\ Cardinality(B) <= Cardinality(left)
  BY <1>1, <1>2, PlacesFinite
<1>5. Cardinality(1..k) = k
  <2>1. 1 \in Int /\ k \in Int /\ (1 > k => k = 0) /\ k - 1 + 1 = k
    BY <1>1
  <2> QED
    BY <2>1, FS_Interval
<1> HIDE DEF A, B, left
<1>6. Cardinality(A \cup B) = Cardinality(A) + Cardinality(B) - Cardinality(A \cap B)
  BY <1>4, FS_Union
<1>7. Cardinality(A \cap B) = 0 /\ Cardinality(B) # 0
  BY <1>1, <1>2, <1>4, FS_EmptySet
<1>8. k - Cardinality(A) = Cardinality(B)
  <2>1. k = Cardinality(A) + Cardinality(B) - 0
    BY <1>2, <1>5, <1>6, <1>7
  <2> QED
    BY <1>1, <1>4, <2>1
<1> QED
  BY <1>3, <1>4, <1>7, <1>8 DEF A

\* Where in the sequence the jth element that is left stands.
Place(s, gone) ==
    LET left == DOMAIN s \ gone
    IN  [j \in 1..Cardinality(left) |->
            CHOOSE k \in left : Cardinality({i \in left : i <= k}) = j]

\* A sequence without some places is made of the elements at the others, each
\* of them taken once.
LEMMA WithoutShape ==
    ASSUME NEW S, NEW s \in Seq(S), NEW gone \in SUBSET DOMAIN s
    PROVE  /\ Without(s, gone) \in Seq(S)
           /\ Len(Without(s, gone)) = Len(s) - Cardinality(gone)
           /\ \A j \in DOMAIN Without(s, gone) :
                 /\ Place(s, gone)[j] \in DOMAIN s \ gone
                 /\ Without(s, gone)[j] = s[Place(s, gone)[j]]
           /\ \A i, j \in DOMAIN Without(s, gone) :
                 Place(s, gone)[i] = Place(s, gone)[j] => i = j
<1> DEFINE n == Len(s)
           left == DOMAIN s \ gone
           rank(k) == Cardinality({i \in left : i <= k})
           place == Place(s, gone)
           w == Without(s, gone)
<1>1. n \in Nat /\ DOMAIN s = 1..n /\ left \in SUBSET (1..n)
  OBVIOUS
<1>2. Cardinality(left) \in Nat /\ Cardinality(left) = n - Cardinality(gone)
  <2>1. left = (1..n) \ gone /\ gone \in SUBSET (1..n)
    BY <1>1
  <2> QED
    BY <1>1, <2>1, PlacesLeft
<1>3. \A j \in 1..Cardinality(left) :
         place[j] \in left /\ rank(place[j]) = j
  <2> SUFFICES ASSUME NEW j \in 1..Cardinality(left)
               PROVE  place[j] \in left /\ rank(place[j]) = j
    OBVIOUS
  <2>1. \E k \in left : rank(k) = j
    BY <1>1, RankOnto
  <2>2. place[j] = CHOOSE k \in left : rank(k) = j
    BY DEF Place
  <2> HIDE DEF left, rank, place
  <2> QED
    BY <2>1, <2>2
<1>4. w = [j \in 1..Cardinality(left) |-> s[place[j]]]
  BY DEF Without, Place
<1> HIDE DEF left, place, rank
<1>6. w \in Seq(S) /\ Len(w) = Cardinality(left) /\ DOMAIN w = 1..Cardinality(left)
  <2>1. \A j \in 1..Cardinality(left) : s[place[j]] \in S
    BY <1>3 DEF left
  <2> QED
    BY <1>2, <1>4, <2>1
<1>7. \A j \in DOMAIN w : place[j] \in left /\ w[j] = s[place[j]]
  BY <1>3, <1>4, <1>6
<1>8. \A i, j \in DOMAIN w : place[i] = place[j] => i = j
  BY <1>3, <1>6
<1> QED
  BY <1>2, <1>6, <1>7, <1>8 DEF left, place

-----------------------------------------------------------------------------
(* Lists as they are read, told and cut.                                   *)

\* What TypeOK says of an open list.
ListOK(l) ==
    /\ l \in List
    /\ Len(l.cells) = Len(l.articles)
    /\ l.selected \subseteq DOMAIN l.articles

\* No article is in the list twice.
OneEach(s) == \A j, k \in DOMAIN s : s[j].url = s[k].url => j = k

\* The objects of the list are those of a set of articles, just read.
Reads(s, S) ==
    /\ \A k \in DOMAIN s : s[k].live /\ s[k].url \in S
    /\ \A u \in S : \E k \in DOMAIN s : s[k].url = u
    /\ OneEach(s)
    /\ Len(s) = Cardinality(S)

\* As many places as articles and an article in none of them missing: then none
\* is there twice.
LEMMA ArrangementReads ==
    ASSUME NEW S \in SUBSET Articles, NEW s \in Arrangements(S)
    PROVE  s \in Seq(Entry) /\ Reads(s, S)
<1> DEFINE n == Cardinality(S)
<1>1. n \in Nat
  BY FS_Subset, FS_CardinalityType, BookmarksAssumption
<1>2. /\ s \in [1..n -> [url : S, live : {TRUE}]]
      /\ \A u \in S : \E k \in DOMAIN s : s[k].url = u
  BY DEF Arrangements
<1> HIDE DEF n
<1>3. DOMAIN s = 1..n /\ \A k \in 1..n : s[k].live /\ s[k].url \in S /\ s[k] \in Entry
  BY <1>2 DEF Entry
<1>4. s \in Seq(Entry) /\ Len(s) = n
  <2>1. s \in [1..n -> Entry]
    BY <1>2, <1>3
  <2> QED
    BY <1>1, <2>1
<1> DEFINE f == [k \in 1..n |-> s[k].url]
<1>5. f \in Surjection(1..n, S)
  BY <1>2, <1>3 DEF Surjection
<1>6. IsFiniteSet(1..n) /\ Cardinality(1..n) = Cardinality(S)
  <2>1. 1 \in Int /\ n \in Int /\ (1 > n => n = 0) /\ n - 1 + 1 = n
    BY <1>1
  <2> QED
    BY <2>1, FS_Interval DEF n
<1>7. f \in Injection(1..n, S)
  <2> HIDE DEF f
  <2> QED
    BY <1>5, <1>6, FS_SurjSameCardinalityImpliesInj
<1>8. OneEach(s)
  <2>1. \A j, k \in 1..n : f[j] = f[k] => j = k
    BY <1>7 DEF Injection, IsInjective
  <2> QED
    BY <1>3, <2>1 DEF OneEach
<1> QED
  BY <1>2, <1>3, <1>4, <1>8 DEF Reads, n

LEMMA ReloadedShape ==
    ASSUME NEW l \in List
    PROVE  /\ ListOK(Reloaded(l))
           /\ Reloaded(l).selected = {}
           /\ Reloaded(l).articles = l.articles
           /\ Reloaded(l).category = l.category
           /\ Reloaded(l).editing = l.editing
           /\ Reloaded(l).pending = l.pending
<1>1. l.articles \in Seq(Entry)
  BY DEF List
<1>2. /\ DOMAIN l.articles = 1..Len(l.articles) /\ Len(l.articles) \in Nat
  BY <1>1
<1> DEFINE c == [k \in DOMAIN l.articles |-> k]
<1>3. c \in Seq(Nat \ {0}) /\ Len(c) = Len(l.articles)
  <2>1. c \in [1..Len(l.articles) -> Nat \ {0}]
    BY <1>2
  <2> QED
    BY <1>2, <2>1
<1>4. Reloaded(l) = [l EXCEPT !.cells = c, !.selected = {}]
  BY DEF Reloaded
<1> HIDE DEF c
<1> QED
  BY <1>3, <1>4 DEF ListOK, List

\* fetchData: the articles of the category, or the old ones if there are none.
LEMMA FetchedShape ==
    ASSUME NEW l \in List, NEW m \in Fetched(l)
    PROVE  /\ ListOK(m) /\ m.selected = {}
           /\ m.category = l.category /\ m.pending = l.pending
           /\ IF InCategory(l.category) = {} THEN m.articles = l.articles
              ELSE Reads(m.articles, InCategory(l.category))
<1> DEFINE S == InCategory(l.category)
<1>1. S \in SUBSET Articles
  BY DEF InCategory
<1>2. CASE S = {}
  <2>1. m = Reloaded(l)
    BY <1>2 DEF Fetched
  <2> QED
    BY <1>2, <2>1, ReloadedShape
<1>3. CASE S # {}
  <2>1. PICK s \in Arrangements(S) : m = Reloaded([l EXCEPT !.articles = s])
    BY <1>3 DEF Fetched
  <2>2. s \in Seq(Entry) /\ Reads(s, S)
    BY <1>1, ArrangementReads
  <2> DEFINE r == [l EXCEPT !.articles = s]
  <2>3. /\ r \in List /\ r.articles = s /\ r.category = l.category
        /\ r.pending = l.pending
    BY <2>2 DEF List
  <2> HIDE DEF r, S
  <2>4. /\ ListOK(Reloaded(r)) /\ Reloaded(r).selected = {}
        /\ Reloaded(r).articles = r.articles /\ Reloaded(r).category = r.category
        /\ Reloaded(r).pending = r.pending
    BY <2>3, ReloadedShape
  <2>5. m = Reloaded(r)
    BY <2>1 DEF r
  <2> QED
    BY <1>3, <2>2, <2>3, <2>4, <2>5 DEF S
<1> QED
  BY <1>2, <1>3

\* The list after the notification it is due.
LEMMA ToldShape ==
    ASSUME list # Closed => ListOK(list), NEW l \in ListTold
    PROVE  /\ list = Closed => l = Closed
           /\ list # Closed =>
                 /\ l # Closed /\ ListOK(l) /\ l.category = list.category
                 /\ ~l.pending
                 /\ ~list.pending => l = list
                 /\ list.pending =>
                       /\ l.selected = {}
                       /\ IF InCategory(list.category) = {}
                          THEN l.articles = list.articles
                          ELSE Reads(l.articles, InCategory(list.category))
<1>1. CASE list = Closed \/ ~list.pending
  BY <1>1 DEF ListTold
<1>2. CASE list # Closed /\ list.pending
  <2> DEFINE r == [list EXCEPT !.pending = FALSE]
  <2>1. /\ r \in List /\ r.category = list.category /\ ~r.pending
        /\ r.articles = list.articles
    BY <1>2 DEF ListOK, List
  <2>2. l \in Fetched(r)
    BY <1>2 DEF ListTold, Refreshed
  <2> HIDE DEF r
  <2>3. /\ ListOK(l) /\ l.selected = {} /\ l.category = r.category
        /\ l.pending = r.pending
        /\ IF InCategory(r.category) = {} THEN l.articles = r.articles
           ELSE Reads(l.articles, InCategory(r.category))
    BY <2>1, <2>2, FetchedShape
  <2>4. l # Closed
    BY <2>3, ClosedAssumption DEF ListOK
  <2> QED
    BY <1>2, <2>1, <2>3, <2>4
<1> QED
  BY <1>1, <1>2

LEMMA BuryShape ==
    ASSUME NEW s \in Seq(Entry), NEW gone
    PROVE  /\ Bury(s, gone) \in Seq(Entry) /\ Len(Bury(s, gone)) = Len(s)
           /\ DOMAIN Bury(s, gone) = DOMAIN s
           /\ \A k \in DOMAIN s :
                 /\ Bury(s, gone)[k].url = s[k].url
                 /\ Bury(s, gone)[k].live <=> s[k].live /\ s[k].url \notin gone
<1>1. DOMAIN s = 1..Len(s) /\ Len(s) \in Nat /\ \A k \in DOMAIN s : s[k] \in Entry
  OBVIOUS
<1>2. \A k \in DOMAIN s :
         /\ [s[k] EXCEPT !.live = @ /\ s[k].url \notin gone] \in Entry
         /\ [s[k] EXCEPT !.live = @ /\ s[k].url \notin gone].url = s[k].url
         /\ [s[k] EXCEPT !.live = @ /\ s[k].url \notin gone].live
               <=> s[k].live /\ s[k].url \notin gone
  BY <1>1 DEF Entry
<1>3. Bury(s, gone) \in [1..Len(s) -> Entry]
  BY <1>1, <1>2 DEF Bury
<1>4. \A k \in DOMAIN s :
         Bury(s, gone)[k] = [s[k] EXCEPT !.live = @ /\ s[k].url \notin gone]
  BY DEF Bury
<1>5. Bury(s, gone) \in Seq(Entry) /\ Len(Bury(s, gone)) = Len(s)
  BY <1>1, <1>3
<1>6. DOMAIN Bury(s, gone) = DOMAIN s
  BY <1>1, <1>3
<1> QED
  BY <1>2, <1>4, <1>5, <1>6

\* Rows are cut from a list whose table then counts right: the view model's
\* articles are cut at the same places.
LEMMA CutShape ==
    ASSUME list # Closed, ListOK(list), NEW l \in ListTold,
           NEW gone, gone # {}, NEW byRow \in BOOLEAN, CountsAgree(l, gone, byRow)
    PROVE  LET left == RowsDeleted(l, gone, byRow) IN
           /\ ListOK(left) /\ left.category = list.category
           /\ left.articles = Without(l.articles, gone)
           /\ gone \in SUBSET DOMAIN l.articles
<1> DEFINE left == RowsDeleted(l, gone, byRow)
           n == Len(l.articles)
<1>1. /\ ListOK(l) /\ l.category = list.category
      /\ list.pending => l.selected = {}
  BY ToldShape
<1>2. /\ l.articles \in Seq(Entry) /\ l.cells \in Seq(Nat \ {0})
      /\ Len(l.cells) = n /\ n \in Nat
      /\ DOMAIN l.articles = 1..n /\ DOMAIN l.cells = 1..n
      /\ l.selected \in SUBSET (1..n)
  <2>1. l.articles \in Seq(Entry) /\ l.cells \in Seq(Nat \ {0}) /\ Len(l.cells) = n
    BY <1>1 DEF ListOK, List
  <2> QED
    BY <1>1, <2>1 DEF ListOK
<1>3. /\ gone \in SUBSET (1..n)
      /\ gone \in SUBSET DOMAIN l.articles /\ gone \in SUBSET DOMAIN l.cells
  BY <1>2 DEF CountsAgree
<1>4. Cardinality(gone) \in Nat \ {0} /\ n - Cardinality(gone) \in Nat
  <2>1. IsFiniteSet(gone)
    BY <1>2, <1>3, PlacesFinite
  <2> QED
    BY <1>2, <1>3, <2>1, PlacesLeft, FS_EmptySet
<1>5. byRow \/ ~ReadAnew
  <2> SUFFICES ASSUME ~byRow, ReadAnew PROVE FALSE
    OBVIOUS
  <2>1. n = n - Cardinality(gone)
    BY <1>2 DEF CountsAgree, ArticlesLeft
  <2> QED
    BY <1>2, <1>4, <2>1
<1>6. ArticlesLeft(l, gone, byRow) = Without(l.articles, gone)
  BY <1>5 DEF ArticlesLeft
<1>7. /\ Without(l.articles, gone) \in Seq(Entry)
      /\ Len(Without(l.articles, gone)) = n - Cardinality(gone)
  BY <1>2, <1>3, WithoutShape
<1>8. /\ Without(l.cells, gone) \in Seq(Nat \ {0})
      /\ Len(Without(l.cells, gone)) = n - Cardinality(gone)
  BY <1>2, <1>3, WithoutShape
<1>9. Moved(l.selected, gone) \subseteq 1..(n - Cardinality(gone))
  BY <1>2, <1>3, MovedShape
<1>10. /\ DOMAIN Without(l.articles, gone) = 1..(n - Cardinality(gone))
       /\ Moved(l.selected, gone) \subseteq Nat \ {0}
  BY <1>4, <1>7, <1>9
<1>11. left = [l EXCEPT !.articles = Without(l.articles, gone),
                        !.cells = Without(l.cells, gone),
                        !.selected = Moved(l.selected, gone)]
  BY <1>6 DEF RowsDeleted
<1>12. /\ left \in List /\ left.category = l.category
       /\ left.articles = Without(l.articles, gone)
       /\ left.cells = Without(l.cells, gone)
       /\ left.selected = Moved(l.selected, gone)
  BY <1>1, <1>7, <1>8, <1>10, <1>11 DEF ListOK, List
<1> HIDE DEF left
<1>13. ListOK(left) /\ left.category = list.category
       /\ left.articles = Without(l.articles, gone)
  BY <1>1, <1>7, <1>8, <1>9, <1>10, <1>12 DEF ListOK
<1> QED
  BY <1>2, <1>3, <1>13 DEF left

\* With some of its objects deleted, or due a notification, a list is a list.
LEMMA BuriedList ==
    ASSUME NEW l, ListOK(l), NEW gone
    PROVE  LET b == [l EXCEPT !.articles = Bury(@, gone)] IN
           /\ ListOK(b) /\ b.articles = Bury(l.articles, gone)
           /\ b.category = l.category
<1>1. l.articles \in Seq(Entry)
  BY DEF ListOK, List
<1>2. /\ Bury(l.articles, gone) \in Seq(Entry)
      /\ Len(Bury(l.articles, gone)) = Len(l.articles)
      /\ DOMAIN Bury(l.articles, gone) = DOMAIN l.articles
  BY <1>1, BuryShape
<1> DEFINE b == [l EXCEPT !.articles = Bury(l.articles, gone)]
<1>3. /\ b \in List /\ b.articles = Bury(l.articles, gone)
      /\ b.category = l.category /\ b.cells = l.cells /\ b.selected = l.selected
  BY <1>2 DEF ListOK, List
<1> HIDE DEF b
<1>4. ListOK(b)
  BY <1>2, <1>3 DEF ListOK
<1> QED
  BY <1>3, <1>4 DEF b

LEMMA ObservedList ==
    ASSUME NEW l, l # Closed => ListOK(l)
    PROVE  /\ l = Closed => Observed(l) = Closed
           /\ l # Closed =>
                 /\ Observed(l) # Closed /\ ListOK(Observed(l))
                 /\ Observed(l).pending /\ Observed(l).articles = l.articles
                 /\ Observed(l).category = l.category
<1>1. CASE l = Closed
  BY <1>1 DEF Observed
<1>2. CASE l # Closed
  <2> DEFINE p == [l EXCEPT !.pending = TRUE]
  <2>1. /\ p \in List /\ p.articles = l.articles /\ p.cells = l.cells
        /\ p.selected = l.selected /\ p.category = l.category /\ p.pending
    BY <1>2 DEF ListOK, List
  <2>2. Observed(l) = p
    BY <1>2 DEF Observed
  <2> HIDE DEF p
  <2> QED
    BY <1>2, <2>1, <2>2, ClosedAssumption DEF ListOK
<1> QED
  BY <1>1, <1>2

-----------------------------------------------------------------------------
(* Type correctness.  The Favorites tab's record is typed by TallyInv.     *)

LEMMA ListTyped == TypeOK /\ list # Closed => ListOK(list)
  BY DEF TypeOK, ListOK, Rows

\* The part of TypeOK that every step must see to itself.
ScreensTyped ==
    /\ realm \in [Articles -> Kept \cup {Absent}]
    /\ file \in [Articles -> Kept \cup {Absent}]
    /\ tab \in Tabs
    /\ list # Closed => ListOK(list)
    /\ detail # Closed => detail \in Detail
    /\ alert \in Alert
    /\ trap \in BOOLEAN
    /\ failed \in BOOLEAN
    /\ underfoot \in BOOLEAN
    /\ hasty \in BOOLEAN

LEMMA TypedParts == TypeOK <=> ScreensTyped /\ favorites \in Favorites
<1>1. {NoAlert} \cup Alert = Alert
  BY DEF NoAlert, Alert
<1> QED
  BY <1>1 DEF TypeOK, ScreensTyped, ListOK, Rows

LEMMA AlertKinds ==
    /\ NoAlert \in Alert /\ [kind |-> "message"] \in Alert
    /\ [kind |-> "noArticles"] \in Alert /\ [kind |-> "deleteSelected"] \in Alert
    /\ AlertTold \in Alert
  BY DEF NoAlert, Alert, AlertTold

LEMMA WriteTyped ==
    ASSUME ScreensTyped, NEW r \in [Articles -> Kept \cup {Absent}],
           NEW l, l # Closed => ListOK(l), NEW a \in Alert, Write(r, l, a),
           UNCHANGED <<tab, trap>>, detail' # Closed => detail' \in Detail,
           underfoot' \in BOOLEAN, hasty' \in BOOLEAN
    PROVE  ScreensTyped'
<1>1. CASE Commit(r, l, a)
  <2>1. list' # Closed => ListOK(list')
    BY <1>1, ObservedList DEF Commit
  <2> QED
    BY <1>1, <2>1 DEF ScreensTyped, Commit, ListOK
<1>2. CASE CommitFails(r, l, a)
  BY <1>2, AlertKinds DEF ScreensTyped, CommitFails, ListOK
<1> QED
  BY <1>1, <1>2 DEF Write

LEMMA AddTyped == ScreensTyped /\ AddBookmark => ScreensTyped'
<1> SUFFICES ASSUME ScreensTyped, AddBookmark PROVE ScreensTyped'
  OBVIOUS
<1>1. detail \in Detail /\ detail' \in Detail
  BY DEF AddBookmark, ScreensTyped, Detail
<1>2. PICK l \in ListTold :
         \/ list' = l /\ UNCHANGED <<store, alert>>
         \/ Write(realm, l, NoAlert)
         \/ Write([realm EXCEPT ![detail.url] = detail.category], l, NoAlert)
  BY DEF AddBookmark, Write
<1>3. l # Closed => ListOK(l)
  BY ToldShape DEF ScreensTyped
<1>4. UNCHANGED <<tab, trap, underfoot, hasty>>
  BY DEF AddBookmark, history
<1>5. /\ [realm EXCEPT ![detail.url] = detail.category] \in [Articles -> Kept \cup {Absent}]
      /\ realm \in [Articles -> Kept \cup {Absent}]
  BY <1>1 DEF ScreensTyped, Detail
<1>6. underfoot' \in BOOLEAN /\ hasty' \in BOOLEAN
  BY <1>4 DEF ScreensTyped
<1>7. CASE Write([realm EXCEPT ![detail.url] = detail.category], l, NoAlert)
  BY <1>1, <1>3, <1>4, <1>5, <1>6, <1>7, WriteTyped, AlertKinds
<1>8. CASE Write(realm, l, NoAlert)
  BY <1>1, <1>3, <1>4, <1>5, <1>6, <1>8, WriteTyped, AlertKinds
<1>9. CASE list' = l /\ UNCHANGED <<store, alert>>
  BY <1>1, <1>3, <1>4, <1>9 DEF ScreensTyped, ListOK, store
<1> QED
  BY <1>2, <1>7, <1>8, <1>9

LEMMA RemoveTyped == ScreensTyped /\ RemoveBookmark => ScreensTyped'
<1> SUFFICES ASSUME ScreensTyped, RemoveBookmark PROVE ScreensTyped'
  OBVIOUS
<1>1. detail \in Detail /\ detail' \in Detail
  BY DEF RemoveBookmark, ScreensTyped, Detail
<1> DEFINE b(l) == IF l = Closed THEN Closed
                   ELSE [l EXCEPT !.articles = Bury(@, {detail.url})]
<1>2. PICK l \in ListTold :
         /\ Write([realm EXCEPT ![detail.url] = Absent], b(l), NoAlert)
         /\ underfoot' = (underfoot \/ Holds(l, detail.url))
  BY DEF RemoveBookmark
<1>3. l # Closed => ListOK(l)
  BY ToldShape DEF ScreensTyped
<1>4. UNCHANGED <<tab, trap, hasty>>
  BY DEF RemoveBookmark
<1>5. [realm EXCEPT ![detail.url] = Absent] \in [Articles -> Kept \cup {Absent}]
  BY DEF ScreensTyped
<1>6. underfoot' \in BOOLEAN /\ hasty' \in BOOLEAN
  BY <1>2, <1>4 DEF ScreensTyped
<1>7. b(l) # Closed => ListOK(b(l))
  BY <1>3, BuriedList
<1> HIDE DEF b
<1> QED
  BY <1>1, <1>2, <1>4, <1>5, <1>6, <1>7, WriteTyped, AlertKinds

\* The Realm without some articles.
Minus(urls) == [u \in Articles |-> IF u \in urls THEN Absent ELSE realm[u]]
Urls(gone) == {list.articles[k].url : k \in gone}

LEMMA DeleteTyped ==
    ASSUME ScreensTyped, list # Closed, NEW gone, gone # {}, NEW byRow \in BOOLEAN,
           DeleteRows(gone, byRow)
    PROVE  ScreensTyped'
<1>1. CASE Trap
  BY <1>1 DEF Trap, ScreensTyped, store, screens, history, ListOK
<1>2. ASSUME NEW l \in ListTold, hasty' = (hasty \/ list.pending),
             ~CountsAgree(l, gone, byRow), trap' = TRUE,
             UNCHANGED <<store, favorites, list, alert, tab, detail, underfoot>>
      PROVE  ScreensTyped'
  BY <1>2 DEF ScreensTyped, ListOK, store
<1>3. ASSUME NEW l \in ListTold, hasty' = (hasty \/ list.pending),
             CountsAgree(l, gone, byRow), UNCHANGED <<tab, detail, underfoot, trap>>,
             Write(Minus(Urls(gone)),
                   [RowsDeleted(l, gone, byRow) EXCEPT !.articles = Bury(@, Urls(gone))],
                   AlertTold)
      PROVE  ScreensTyped'
  <2> DEFINE left == RowsDeleted(l, gone, byRow)
             buried == [left EXCEPT !.articles = Bury(@, Urls(gone))]
  <2>1. ListOK(left)
    BY <1>3, CutShape DEF ScreensTyped
  <2> HIDE DEF left
  <2>2. ListOK(buried)
    BY <2>1, BuriedList
  <2>3. /\ hasty' \in BOOLEAN /\ underfoot' \in BOOLEAN
        /\ detail' # Closed => detail' \in Detail
        /\ UNCHANGED <<tab, trap>>
    BY <1>3 DEF ScreensTyped
  <2>4. Minus(Urls(gone)) \in [Articles -> Kept \cup {Absent}]
    BY DEF Minus, ScreensTyped
  <2>5. Write(Minus(Urls(gone)), buried, AlertTold)
    BY <1>3 DEF left
  <2> HIDE DEF buried
  <2> QED
    BY <2>2, <2>3, <2>4, <2>5, WriteTyped, AlertKinds
<1> QED
  BY <1>1, <1>2, <1>3 DEF DeleteRows, Minus, Urls

\* An alert about the list is presented over the list.
AboutList == {"noArticles", "deleteRow", "deleteSelected"}
AlertShown == alert.kind \in AboutList => ListShown

BaseInv == ScreensTyped /\ AlertShown

LEMMA DeleteShown ==
    ASSUME BaseInv, alert.kind \in AboutList, NEW gone, gone # {},
           NEW byRow \in BOOLEAN, DeleteRows(gone, byRow)
    PROVE  BaseInv'
<1>1. list # Closed /\ ListShown /\ ScreensTyped
  BY DEF BaseInv, AlertShown, ListShown
<1>2. ScreensTyped'
  BY <1>1, DeleteTyped
<1>3. CASE Trap
  BY <1>1, <1>2, <1>3 DEF Trap, screens, BaseInv, AlertShown, ListShown
<1>4. CASE UNCHANGED <<list, tab, detail, alert>>
  BY <1>1, <1>2, <1>4 DEF BaseInv, AlertShown, ListShown
<1>5. ASSUME NEW l \in ListTold, CountsAgree(l, gone, byRow),
             UNCHANGED <<tab, detail>>,
             \/ list' = Observed([RowsDeleted(l, gone, byRow)
                                     EXCEPT !.articles = Bury(@, Urls(gone))])
             \/ list' = [RowsDeleted(l, gone, byRow)
                            EXCEPT !.articles = Bury(@, Urls(gone))]
      PROVE  AlertShown'
  <2> DEFINE left == RowsDeleted(l, gone, byRow)
             buried == [left EXCEPT !.articles = Bury(@, Urls(gone))]
  <2>1. ListOK(left)
    BY <1>1, <1>5, CutShape DEF ScreensTyped
  <2> HIDE DEF left
  <2>2. ListOK(buried)
    BY <2>1, BuriedList
  <2> HIDE DEF buried
  <2>3. buried # Closed
    BY <2>2, ClosedAssumption DEF ListOK
  <2>4. Observed(buried) # Closed
    BY <2>2, <2>3, ObservedList
  <2>5. list' # Closed
    BY <1>5, <2>3, <2>4 DEF left, buried
  <2> QED
    BY <1>1, <1>5, <2>5 DEF AlertShown, ListShown
<1> QED
  BY <1>2, <1>3, <1>4, <1>5
     DEF BaseInv, DeleteRows, Write, Commit, CommitFails, Minus, Urls

LEMMA BaseStep == BaseInv /\ [Next]_vars => BaseInv'
<1> SUFFICES ASSUME BaseInv, [Next]_vars PROVE BaseInv'
  OBVIOUS
<1>0. ScreensTyped /\ AlertShown
  BY DEF BaseInv
<1>1. ASSUME Free, ScreensTyped', alert' \in {NoAlert, [kind |-> "message"]} PROVE BaseInv'
  BY <1>1 DEF BaseInv, AlertShown, AboutList, NoAlert
<1>2. ASSUME NEW t \in Tabs, SelectTab(t) PROVE BaseInv'
  <2>1. ScreensTyped'
    BY <1>0, <1>2 DEF SelectTab, ScreensTyped, store, history, ListOK
  <2> QED
    BY <1>1, <1>2, <2>1 DEF SelectTab, Free
<1>3. ASSUME NEW c \in Categories, OpenList(c) PROVE BaseInv'
  <2> DEFINE l == [category |-> c, articles |-> <<>>, cells |-> <<>>,
                   selected |-> {}, editing |-> FALSE, pending |-> TRUE]
  <2>1. l \in List
    BY DEF List
  <2>2. list' \in Fetched(l)
    BY <1>3 DEF OpenList
  <2> HIDE DEF l
  <2>3. ListOK(list')
    BY <2>1, <2>2, FetchedShape
  <2>4. ScreensTyped'
    BY <1>0, <1>3, <2>3 DEF OpenList, ScreensTyped, store, history, ListOK
  <2> QED
    BY <1>1, <1>3, <2>4 DEF OpenList, Free
<1>4. ASSUME NEW u \in Articles, NEW c \in Kept, OpenFromTab(u, c)
      PROVE  BaseInv'
  <2>1. detail' \in Detail
    BY <1>4 DEF OpenFromTab, OpenDetail, Detail, IsFavorited
  <2>2. ScreensTyped'
    BY <1>0, <1>4, <2>1 DEF OpenFromTab, OpenDetail, ScreensTyped, store, history, ListOK
  <2> QED
    BY <1>1, <1>4, <2>2 DEF OpenFromTab, OpenDetail, Free
<1>5. ASSUME list # Closed, NEW k \in Rows
      PROVE  /\ ListOK(list) /\ list.articles \in Seq(Entry)
             /\ list.cells \in Seq(Nat \ {0}) /\ DOMAIN list.cells = Rows
             /\ list.articles[k] \in Entry /\ list.cells[k] \in Nat \ {0}
             /\ k \in Nat \ {0}
  <2>1. /\ ListOK(list) /\ list.articles \in Seq(Entry)
        /\ list.cells \in Seq(Nat \ {0}) /\ Len(list.cells) = Len(list.articles)
    BY <1>0, <1>5 DEF ScreensTyped, ListOK, List
  <2>2. DOMAIN list.cells = Rows /\ k \in Nat \ {0}
    BY <1>5, <2>1 DEF Rows
  <2> QED
    BY <1>5, <2>1, <2>2 DEF Rows
<1>6. ASSUME list # Closed, NEW k \in Rows, OpenFromList(k) PROVE BaseInv'
  <2>1. list.articles[k].url \in Articles /\ list.category \in Kept
    BY <1>5, <1>6 DEF Entry, ListOK, List, Kept
  <2>2. detail' \in Detail
    BY <1>6, <2>1 DEF OpenFromList, OpenDetail, Detail, IsFavorited
  <2>3. ScreensTyped'
    BY <1>0, <1>6, <2>2 DEF OpenFromList, OpenDetail, ScreensTyped, store, history, ListOK
  <2> QED
    BY <1>1, <1>6, <2>3 DEF OpenFromList, OpenDetail, Free
\* A list changed in place.
<1>7. ASSUME ListOK(list'),
             UNCHANGED <<store, tab, detail, alert, trap, history>>
      PROVE  BaseInv'
  <2>1. list' # Closed
    BY <1>7, ClosedAssumption DEF ListOK
  <2>2. ScreensTyped'
    BY <1>0, <1>7 DEF ScreensTyped, store, history, ListOK
  <2> QED
    BY <1>0, <1>7, <2>1, <2>2 DEF BaseInv, AlertShown, ListShown
<1>8. ASSUME list # Closed, NEW k \in Rows, Mark(k) PROVE BaseInv'
  <2>1. ListOK(list')
    BY <1>5, <1>8 DEF Mark, ListOK, List, Rows
  <2> QED
    BY <1>7, <1>8, <2>1 DEF Mark
<1>9. ASSUME list # Closed, NEW k \in Rows, DisplayRow(k) PROVE BaseInv'
  <2> DEFINE c == [list.cells EXCEPT ![k] = k]
  <2>1. c \in Seq(Nat \ {0}) /\ Len(c) = Len(list.cells)
    BY <1>5, <1>9
  <2>2. list' = [list EXCEPT !.cells = c]
    BY <1>9 DEF DisplayRow
  <2> HIDE DEF c
  <2>3. ListOK(list')
    BY <1>5, <1>9, <2>1, <2>2 DEF ListOK, List
  <2> QED
    BY <1>7, <1>9, <2>3 DEF DisplayRow
<1>10. CASE Trap
  BY <1>0, <1>10 DEF Trap, BaseInv, AlertShown, ListShown, ScreensTyped, store,
                     screens, history, ListOK
<1>11. ASSUME list # Closed, NEW k \in Rows, AskDelete(k) PROVE BaseInv'
  <2>1. alert' \in Alert /\ hasty' \in BOOLEAN
    BY <1>0, <1>5, <1>11 DEF AskDelete, Alert, Entry, ScreensTyped
  <2>2. ScreensTyped'
    BY <1>0, <1>11, <2>1 DEF AskDelete, ScreensTyped, store, ListOK
  <2> QED
    BY <1>11, <2>2 DEF AskDelete, BaseInv, AlertShown, ListShown
<1>12. CASE CloseList \/ CloseDetail
  <2>1. ScreensTyped'
    BY <1>0, <1>12 DEF CloseList, CloseDetail, ScreensTyped, store, history, ListOK
  <2> QED
    BY <1>1, <1>12, <2>1 DEF CloseList, CloseDetail, Free
<1>13. CASE Edit
  <2>1. list # Closed /\ ListOK(list)
    BY <1>0, <1>13 DEF Edit, ListShown, ScreensTyped
  <2>2. ListOK(list')
    BY <1>13, <2>1 DEF Edit, ListOK, List
  <2> QED
    BY <1>7, <1>13, <2>2 DEF Edit
<1>14. CASE OkMessage \/ OkNoArticles \/ CancelDelete
  <2>1. ScreensTyped'
    BY <1>0, <1>14, AlertKinds
       DEF OkMessage, OkNoArticles, CancelDelete, ScreensTyped, store, history, ListOK
  <2> QED
    BY <1>14, <2>1
       DEF OkMessage, OkNoArticles, CancelDelete, BaseInv, AlertShown, AboutList,
           NoAlert
<1>15. CASE AddBookmark
  <2>1. ScreensTyped'
    BY <1>0, <1>15, AddTyped
  <2>2. Free /\ alert' \in {NoAlert, [kind |-> "message"]}
    BY <1>15 DEF AddBookmark, Write, Commit, CommitFails, Free
  <2> QED
    BY <1>1, <2>1, <2>2
<1>16. CASE RemoveBookmark
  <2>1. ScreensTyped'
    BY <1>0, <1>16, RemoveTyped
  <2>2. Free /\ alert' \in {NoAlert, [kind |-> "message"]}
    BY <1>16 DEF RemoveBookmark, Write, Commit, CommitFails, Free
  <2> QED
    BY <1>1, <2>1, <2>2
<1>17. CASE ThrowInTransaction \/ ReadInTransaction
  BY <1>10, <1>17 DEF ThrowInTransaction, ReadInTransaction
<1>18. CASE RemoveDead
  BY <1>10, <1>18 DEF RemoveDead
<1>19. CASE AskDeleteSelected
  <2>1. ScreensTyped'
    BY <1>0, <1>19, AlertKinds DEF AskDeleteSelected, ScreensTyped, store, history, ListOK
  <2> QED
    BY <1>19, <2>1 DEF AskDeleteSelected, BaseInv, AlertShown, ListShown
<1>20. CASE OkDeleteRow
  <2>1. DeleteRows({AskedRow}, TRUE) /\ alert.kind \in AboutList /\ {AskedRow} # {}
    BY <1>20 DEF OkDeleteRow, AboutList
  <2> QED
    BY <2>1, DeleteShown
<1>21. CASE OkDeleteSelected
  <2>1. CASE list.selected = {}
    <3>1. ScreensTyped'
      BY <1>0, <1>21, <2>1, AlertKinds
         DEF OkDeleteSelected, ScreensTyped, store, history, ListOK
    <3> QED
      BY <1>21, <2>1, <3>1
         DEF OkDeleteSelected, BaseInv, AlertShown, AboutList, NoAlert
  <2>2. CASE list.selected # {}
    <3>1. DeleteRows(list.selected, FALSE) /\ alert.kind \in AboutList
      BY <1>21, <2>2 DEF OkDeleteSelected, AboutList
    <3> QED
      BY <2>2, <3>1, DeleteShown
  <2> QED
    BY <2>1, <2>2
<1>22. CASE NotifyList
  <2>1. ListOK(list') /\ list' # Closed
    BY <1>0, <1>22, ToldShape DEF NotifyList, ScreensTyped
  <2>2. /\ alert' \in Alert
        /\ alert'.kind = alert.kind \/ ListShown
    BY <1>0, <1>22, AlertKinds DEF NotifyList, ScreensTyped, Alert
  <2>3. ScreensTyped'
    BY <1>0, <1>22, <2>1, <2>2 DEF NotifyList, ScreensTyped, store, history, ListOK
  <2> QED
    BY <1>0, <1>22, <2>1, <2>2, <2>3 DEF NotifyList, BaseInv, AlertShown, ListShown
<1>23. CASE NotifyFavorites \/ UNCHANGED vars
  BY <1>0, <1>23
     DEF NotifyFavorites, vars, store, screens, history, BaseInv, AlertShown,
         ListShown, ScreensTyped, ListOK
<1>24. ASSUME NEW c \in Categories, DisplayCount(c) PROVE BaseInv'
  BY <1>0, <1>24
     DEF DisplayCount, store, history, BaseInv, AlertShown, ListShown, ScreensTyped,
         ListOK
<1>25. CASE Relaunch
  <2>1. ScreensTyped'
    BY <1>0, <1>25, AlertKinds DEF Relaunch, Launch, ScreensTyped, Tabs
  <2> QED
    BY <1>25, <2>1 DEF Relaunch, Launch, BaseInv, AlertShown, AboutList, NoAlert
<1>26. ASSUME NEW k \in Rows, ReadDeadRow(k) PROVE BaseInv'
  BY <1>10, <1>26 DEF ReadDeadRow
<1> QED
  BY <1>2, <1>3, <1>4, <1>6, <1>8, <1>9, <1>11, <1>12, <1>13, <1>14, <1>15,
     <1>16, <1>17, <1>18, <1>19, <1>20, <1>21, <1>22, <1>23, <1>24, <1>25, <1>26
     DEF Next

LEMMA InitBase == Init => BaseInv
<1>1. Init => ScreensTyped
  BY AlertKinds DEF Init, ScreensTyped, Tabs
<1> QED
  BY <1>1 DEF Init, BaseInv, AlertShown, AboutList, NoAlert

LEMMA BaseAlways == Spec => [](BaseInv /\ TallyInv)
<1> QED
  BY InitBase, BaseStep, InitTally, TallyStep, PTL DEF Spec

\* Type correctness: table and view model count the same rows and only rows there
\* are selected, through every reading anew, deletion and failed commit.
THEOREM BookmarksTypeCorrect == Spec => []TypeOK
<1>1. BaseInv /\ TallyInv => TypeOK
  BY TypedParts DEF BaseInv, TallyInv
<1> QED
  BY BaseAlways, <1>1, PTL

-----------------------------------------------------------------------------
(* The list after Realm's notification.                                    *)

LEMMA ToldFollows ==
    ASSUME BaseInv, ListFollowsRealm, list' \in ListTold, realm' = realm,
           failed => failed'
    PROVE  ListFollowsRealm'
<1>1. list # Closed => ListOK(list)
  BY DEF BaseInv, ScreensTyped
<1> SUFFICES ASSUME list' # Closed, ~failed, InCategory(list'.category) # {}
             PROVE  /\ {list'.articles[k].url : k \in DOMAIN list'.articles}
                          = InCategory(list'.category)
                    /\ \A k \in DOMAIN list'.articles : list'.articles[k].live
                    /\ \A j, k \in DOMAIN list'.articles :
                          list'.articles[j].url = list'.articles[k].url => j = k
  BY DEF ListFollowsRealm, Rows, InCategory
<1>2. /\ list # Closed /\ list'.category = list.category
      /\ ~list.pending => list' = list
      /\ list.pending => Reads(list'.articles, InCategory(list.category))
  BY <1>1, ToldShape
<1>3. CASE ~list.pending
  BY <1>2, <1>3 DEF ListFollowsRealm, Rows
<1>4. CASE list.pending
  BY <1>2, <1>4 DEF Reads, OneEach
<1> QED
  BY <1>3, <1>4

\* A write leaves the list with a notification due, or closed, or fails.
LEMMA WriteFollows ==
    ASSUME NEW r, NEW l, NEW a, l # Closed => ListOK(l), Write(r, l, a)
    PROVE  ListFollowsRealm'
<1>1. CASE Commit(r, l, a)
  BY <1>1, ObservedList DEF Commit, ListFollowsRealm
<1>2. CASE CommitFails(r, l, a)
  BY <1>2 DEF CommitFails, ListFollowsRealm
<1> QED
  BY <1>1, <1>2 DEF Write

LEMMA SameFollows ==
    ASSUME ListFollowsRealm, realm' = realm, failed' = failed,
           list' # Closed => /\ list # Closed
                             /\ list'.articles = list.articles
                             /\ list'.category = list.category
                             /\ list'.pending = list.pending
    PROVE  ListFollowsRealm'
  BY DEF ListFollowsRealm, InCategory, Rows

LEMMA FollowsStep == BaseInv /\ ListFollowsRealm /\ [Next]_vars => ListFollowsRealm'
<1> SUFFICES ASSUME BaseInv, ListFollowsRealm, [Next]_vars PROVE ListFollowsRealm'
  OBVIOUS
<1>0. list # Closed => ListOK(list)
  BY DEF BaseInv, ScreensTyped
<1>1. \A l \in ListTold : l # Closed => ListOK(l)
  BY <1>0, ToldShape
<1>2. ASSUME NEW c \in Categories, OpenList(c) PROVE ListFollowsRealm'
  <2> DEFINE l == [category |-> c, articles |-> <<>>, cells |-> <<>>,
                   selected |-> {}, editing |-> FALSE, pending |-> TRUE]
  <2>1. l \in List /\ l.pending
    BY DEF List
  <2>2. list' \in Fetched(l)
    BY <1>2 DEF OpenList
  <2> HIDE DEF l
  <2>3. list'.pending
    BY <2>1, <2>2, FetchedShape
  <2> QED
    BY <2>3 DEF ListFollowsRealm
<1>3. CASE AddBookmark
  <2>1. PICK l \in ListTold :
           \/ list' = l /\ UNCHANGED <<realm, failed>>
           \/ \E r : Write(r, l, NoAlert)
    BY <1>3 DEF AddBookmark, Write, store
  <2>2. CASE list' = l /\ UNCHANGED <<realm, failed>>
    BY <2>2, ToldFollows
  <2>3. CASE \E r : Write(r, l, NoAlert)
    BY <1>1, <2>3, WriteFollows
  <2> QED
    BY <2>1, <2>2, <2>3
<1>4. CASE RemoveBookmark
  <2> DEFINE b(l) == IF l = Closed THEN Closed
                     ELSE [l EXCEPT !.articles = Bury(@, {detail.url})]
  <2>1. PICK l \in ListTold :
           Write([realm EXCEPT ![detail.url] = Absent], b(l), NoAlert)
    BY <1>4 DEF RemoveBookmark
  <2>2. b(l) # Closed => ListOK(b(l))
    BY <1>1, BuriedList
  <2> HIDE DEF b
  <2> QED
    BY <2>1, <2>2, WriteFollows
<1>5. ASSUME alert.kind \in AboutList, NEW gone, gone # {}, NEW byRow \in BOOLEAN,
             DeleteRows(gone, byRow)
      PROVE  ListFollowsRealm'
  <2>1. list # Closed /\ ListOK(list)
    BY <1>0, <1>5 DEF BaseInv, AlertShown, ListShown
  <2>2. CASE Trap
    BY <2>2, SameFollows DEF Trap, store, screens
  <2>3. CASE UNCHANGED <<realm, list, failed>>
    BY <2>3, SameFollows
  <2>4. ASSUME NEW l \in ListTold, CountsAgree(l, gone, byRow),
               Write(Minus(Urls(gone)),
                     [RowsDeleted(l, gone, byRow) EXCEPT !.articles = Bury(@, Urls(gone))],
                     AlertTold)
        PROVE  ListFollowsRealm'
    <3> DEFINE left == RowsDeleted(l, gone, byRow)
               buried == [left EXCEPT !.articles = Bury(@, Urls(gone))]
    <3>1. ListOK(left)
      BY <1>5, <2>1, <2>4, CutShape
    <3> HIDE DEF left
    <3>2. ListOK(buried)
      BY <3>1, BuriedList
    <3>3. Write(Minus(Urls(gone)), buried, AlertTold)
      BY <2>4 DEF left
    <3> HIDE DEF buried
    <3> QED
      BY <3>2, <3>3, WriteFollows
  <2> QED
    BY <1>5, <2>2, <2>3, <2>4 DEF DeleteRows, Minus, Urls, store
<1>6. CASE OkDeleteRow
  <2>1. DeleteRows({AskedRow}, TRUE) /\ alert.kind \in AboutList /\ {AskedRow} # {}
    BY <1>6 DEF OkDeleteRow, AboutList
  <2> QED
    BY <1>5, <2>1
<1>7. CASE OkDeleteSelected
  <2>1. CASE list.selected = {}
    BY <1>7, <2>1, SameFollows DEF OkDeleteSelected, store
  <2>2. CASE list.selected # {}
    <3>1. DeleteRows(list.selected, FALSE) /\ alert.kind \in AboutList
      BY <1>7, <2>2 DEF OkDeleteSelected, AboutList
    <3> QED
      BY <1>5, <2>2, <3>1
  <2> QED
    BY <2>1, <2>2
<1>8. CASE NotifyList
  BY <1>8, ToldFollows DEF NotifyList, store
<1>9. CASE Relaunch \/ CloseList \/ OkNoArticles
  BY <1>9 DEF Relaunch, Launch, CloseList, OkNoArticles, ListFollowsRealm
<1>10. ASSUME list # Closed, NEW k \in Rows, Mark(k) \/ DisplayRow(k)
       PROVE  ListFollowsRealm'
  <2>1. /\ list'.articles = list.articles /\ list'.category = list.category
        /\ list'.pending = list.pending
    BY <1>0, <1>10 DEF Mark, DisplayRow, ListOK, List
  <2> QED
    BY <1>10, <2>1, SameFollows DEF Mark, DisplayRow, store
<1>11. CASE Edit
  <2>1. list # Closed
    BY <1>11 DEF Edit, ListShown
  <2>2. /\ list'.articles = list.articles /\ list'.category = list.category
        /\ list'.pending = list.pending
    BY <1>0, <1>11, <2>1 DEF Edit, ListOK, List
  <2> QED
    BY <1>11, <2>1, <2>2, SameFollows DEF Edit, store
<1>12. CASE UNCHANGED <<realm, list, failed>>
  BY <1>12, SameFollows
<1> QED
  BY <1>2, <1>3, <1>4, <1>6, <1>7, <1>8, <1>9, <1>10, <1>11, <1>12
     DEF Next, SelectTab, DisplayCount, OpenFromTab, OpenDetail, OpenFromList,
         ReadDeadRow, AskDelete, CloseDetail, OkMessage, RemoveDead,
         ThrowInTransaction, ReadInTransaction, AskDeleteSelected, CancelDelete,
         NotifyFavorites, Trap, store, screens, vars

\* Once Realm's notification was handled the list shows exactly the bookmarks of
\* its category, each of them once and live, unless a commit failed or there are
\* none left (FavoritesDetailViewModel.fetchData).
THEOREM ListStaysTrue == Spec => []ListFollowsRealm
<1>1. Init => ListFollowsRealm
  BY DEF Init, ListFollowsRealm
<1> QED
  BY <1>1, BaseAlways, FollowsStep, PTL DEF Spec

-----------------------------------------------------------------------------
(* The bookmark button.  Three screens can delete an object; what a detail *)
(* screen may believe of its own rests on what the list holds, on who may  *)
(* write while it is open, and on what the delete alert was raised for.    *)

\* An object that was not deleted is a bookmark there is.
Sound(s, stored) ==
    /\ OneEach(s)
    /\ \A k \in DOMAIN s : s[k].live => s[k].url \in stored

ListSound == list # Closed => Sound(list.articles, Stored)

\* Only the Realm's own object can be deleted, and it is not while it is stored.
DetailSound ==
    detail # Closed =>
        /\ detail.managed \/ detail.live
        /\ detail.managed /\ detail.live => detail.url \in Stored

\* The row to be deleted still shows the article asked about.
AskedSound ==
    alert.kind = "deleteRow" /\ alert.exact =>
        /\ alert.row \in Rows
        /\ list.articles[alert.row].url = alert.asked

LEMMA ReadsSound ==
    ASSUME NEW c \in Categories, NEW s, Reads(s, InCategory(c))
    PROVE  Sound(s, Stored)
<1>1. InCategory(c) \subseteq Stored
  BY BookmarksAssumption DEF InCategory, Stored
<1> QED
  BY <1>1 DEF Reads, Sound

LEMMA ToldSound ==
    ASSUME BaseInv, ListSound, NEW l \in ListTold, l # Closed
    PROVE  Sound(l.articles, Stored) /\ ListOK(l) /\ list # Closed
<1>1. list # Closed => ListOK(list)
  BY DEF BaseInv, ScreensTyped
<1>2. /\ list # Closed /\ ListOK(l)
      /\ ~list.pending => l = list
      /\ list.pending =>
            IF InCategory(list.category) = {} THEN l.articles = list.articles
            ELSE Reads(l.articles, InCategory(list.category))
  BY <1>1, ToldShape
<1>3. list.category \in Categories
  BY <1>1, <1>2 DEF ListOK, List
<1> QED
  BY <1>2, <1>3, ReadsSound DEF ListSound

\* Cutting places out of a list, and burying objects in it, keeps what is left.
LEMMA CutSound ==
    ASSUME NEW s \in Seq(Entry), OneEach(s), NEW gone \in SUBSET DOMAIN s
    PROVE  /\ OneEach(Without(s, gone))
           /\ \A j \in DOMAIN Without(s, gone) :
                 \E k \in DOMAIN s \ gone : Without(s, gone)[j] = s[k]
<1> DEFINE w == Without(s, gone)
           place == Place(s, gone)
<1>1. /\ \A j \in DOMAIN w : place[j] \in DOMAIN s \ gone /\ w[j] = s[place[j]]
      /\ \A i, j \in DOMAIN w : place[i] = place[j] => i = j
  BY WithoutShape
<1> HIDE DEF w, place
<1>2. OneEach(w)
  BY <1>1 DEF OneEach
<1>3. \A j \in DOMAIN w : \E k \in DOMAIN s \ gone : w[j] = s[k]
  BY <1>1
<1> QED
  BY <1>2, <1>3 DEF w

\* A commit that takes some articles from the Realm and buries their objects.
LEMMA BurySound ==
    ASSUME NEW s \in Seq(Entry), NEW stored, NEW after, Sound(s, stored),
           NEW gone, stored \ gone \subseteq after
    PROVE  Sound(Bury(s, gone), after)
<1> DEFINE b == Bury(s, gone)
<1>1. /\ DOMAIN b = DOMAIN s
      /\ \A k \in DOMAIN s : /\ b[k].url = s[k].url
                             /\ b[k].live <=> s[k].live /\ s[k].url \notin gone
  BY BuryShape
<1> HIDE DEF b
<1>2. Sound(b, after)
  BY <1>1 DEF Sound, OneEach
<1> QED
  BY <1>2 DEF b

LEMMA SoundMore ==
    ASSUME NEW s, NEW stored, NEW after, Sound(s, stored), stored \subseteq after
    PROVE  Sound(s, after)
  BY DEF Sound

\* A list told and then given a commit's notification.
LEMMA ObservedSound ==
    ASSUME NEW l, l # Closed => ListOK(l) /\ Sound(l.articles, Stored'),
           list' = Observed(l) \/ list' = l
    PROVE  ListSound'
  BY ObservedList DEF ListSound

\* Rows are deleted: what stays is live only if the commit left it.
LEMMA DeleteSound ==
    ASSUME BaseInv, ListSound, alert.kind \in AboutList, NEW gone, gone # {},
           NEW byRow \in BOOLEAN, DeleteRows(gone, byRow)
    PROVE  ListSound'
<1>1. list # Closed /\ ListOK(list) /\ ScreensTyped
  BY DEF BaseInv, AlertShown, ListShown, ScreensTyped
<1>2. CASE UNCHANGED <<realm, list>>
  BY <1>2 DEF ListSound, Stored
<1>3. ASSUME NEW l \in ListTold, CountsAgree(l, gone, byRow),
             Write(Minus(Urls(gone)),
                   [RowsDeleted(l, gone, byRow) EXCEPT !.articles = Bury(@, Urls(gone))],
                   AlertTold)
      PROVE  ListSound'
  <2> DEFINE left == RowsDeleted(l, gone, byRow)
             buried == [left EXCEPT !.articles = Bury(@, Urls(gone))]
  <2>1. /\ ListOK(left) /\ left.articles = Without(l.articles, gone)
        /\ gone \in SUBSET DOMAIN l.articles
    BY <1>1, <1>3, CutShape
  <2>2. l # Closed /\ ListOK(l)
    BY <1>1, ToldShape
  <2>3. Sound(l.articles, Stored) /\ l.articles \in Seq(Entry)
    BY <2>2, ToldSound DEF ListOK, List
  <2>4. /\ OneEach(left.articles)
        /\ \A j \in DOMAIN left.articles :
              \E k \in DOMAIN l.articles : left.articles[j] = l.articles[k]
    BY <2>1, <2>3, CutSound DEF Sound
  <2>5. Sound(left.articles, Stored)
    BY <2>3, <2>4 DEF Sound
  <2> HIDE DEF left
  <2>6. Write(Minus(Urls(gone)), buried, AlertTold)
    BY <1>3 DEF left
  <2>7. Stored \ Urls(gone) \subseteq Stored'
    BY <2>6 DEF Write, Commit, CommitFails, Minus, Stored
  <2>8. left.articles \in Seq(Entry)
    BY <2>1 DEF ListOK, List
  <2>9. Sound(Bury(left.articles, Urls(gone)), Stored')
    BY <2>5, <2>7, <2>8, BurySound
  <2>10. ListOK(buried) /\ buried.articles = Bury(left.articles, Urls(gone))
    BY <2>1, BuriedList
  <2>11. list' = Observed(buried) \/ list' = buried
    BY <2>6 DEF Write, Commit, CommitFails
  <2> HIDE DEF buried
  <2> QED
    BY <2>9, <2>10, <2>11, ObservedSound
<1> QED
  BY <1>2, <1>3 DEF DeleteRows, Trap, store, screens, Minus, Urls

LEMMA ListSoundStep == BaseInv /\ ListSound /\ [Next]_vars => ListSound'
<1> SUFFICES ASSUME BaseInv, ListSound, [Next]_vars PROVE ListSound'
  OBVIOUS
<1>0. ScreensTyped
  BY DEF BaseInv
<1>1. \A l \in ListTold : l # Closed => ListOK(l) /\ Sound(l.articles, Stored)
  BY ToldSound
<1>2. ASSUME list' \in ListTold, realm' = realm PROVE ListSound'
  BY <1>1, <1>2 DEF ListSound, Stored
<1>3. ASSUME NEW c \in Categories, OpenList(c) PROVE ListSound'
  <2> DEFINE l == [category |-> c, articles |-> <<>>, cells |-> <<>>,
                   selected |-> {}, editing |-> FALSE, pending |-> TRUE]
  <2>1. l \in List /\ l.articles = <<>> /\ l.category = c
    BY DEF List
  <2>2. list' \in Fetched(l) /\ Stored' = Stored
    BY <1>3 DEF OpenList, Stored, store
  <2> HIDE DEF l
  <2>3. list'.articles = <<>> \/ Reads(list'.articles, InCategory(c))
    BY <2>1, <2>2, FetchedShape
  <2>4. Sound(<<>>, Stored)
    BY DEF Sound, OneEach
  <2>5. Sound(list'.articles, Stored)
    BY <2>3, <2>4, ReadsSound
  <2> QED
    BY <2>2, <2>5 DEF ListSound
<1>4. CASE AddBookmark
  <2>1. PICK l \in ListTold :
           \/ list' = l /\ realm' = realm
           \/ Write([realm EXCEPT ![detail.url] = detail.category], l, NoAlert)
    BY <1>4 DEF AddBookmark, CommitFails, store
  <2>2. CASE Write([realm EXCEPT ![detail.url] = detail.category], l, NoAlert)
    <3>1. detail.category # Absent
      BY <1>0, <1>4, BookmarksAssumption DEF AddBookmark, ScreensTyped, Detail, Kept
    <3>2. /\ realm' = [realm EXCEPT ![detail.url] = detail.category]
          /\ list' = Observed(l) \/ list' = l
      BY <2>2 DEF Write, Commit, CommitFails
    <3>3. Stored \subseteq Stored'
      BY <1>0, <3>1, <3>2 DEF Stored, ScreensTyped
    <3>4. l # Closed => ListOK(l) /\ Sound(l.articles, Stored')
      BY <1>1, <3>3, SoundMore
    <3> QED
      BY <3>2, <3>4, ObservedSound
  <2> QED
    BY <1>2, <2>1, <2>2
<1>5. CASE RemoveBookmark
  <2> DEFINE b(l) == IF l = Closed THEN Closed
                     ELSE [l EXCEPT !.articles = Bury(@, {detail.url})]
  <2>1. PICK l \in ListTold :
           Write([realm EXCEPT ![detail.url] = Absent], b(l), NoAlert)
    BY <1>5 DEF RemoveBookmark
  <2>2. /\ realm' = [realm EXCEPT ![detail.url] = Absent]
        /\ list' = Observed(b(l)) \/ list' = b(l)
    BY <2>1 DEF Write, Commit, CommitFails
  <2>3. Stored \ {detail.url} \subseteq Stored'
    BY <1>0, <2>2 DEF Stored, ScreensTyped
  <2>4. ASSUME l # Closed
        PROVE  /\ ListOK(b(l)) /\ b(l).articles = Bury(l.articles, {detail.url})
               /\ Sound(Bury(l.articles, {detail.url}), Stored')
    <3>1. ListOK(l) /\ Sound(l.articles, Stored) /\ l.articles \in Seq(Entry)
      BY <1>1, <2>4 DEF ListOK, List
    <3>2. Sound(Bury(l.articles, {detail.url}), Stored')
      BY <2>3, <3>1, BurySound
    <3> QED
      BY <2>4, <3>1, <3>2, BuriedList
  <2>5. l = Closed => b(l) = Closed
    OBVIOUS
  <2> HIDE DEF b
  <2> QED
    BY <2>2, <2>4, <2>5, ObservedSound
<1>6. CASE OkDeleteRow
  <2>1. DeleteRows({AskedRow}, TRUE) /\ alert.kind \in AboutList /\ {AskedRow} # {}
    BY <1>6 DEF OkDeleteRow, AboutList
  <2> QED
    BY <2>1, DeleteSound
<1>7. CASE UNCHANGED <<realm, list>>
  BY <1>7 DEF ListSound, Stored
<1>8. CASE OkDeleteSelected
  <2>1. CASE list.selected # {}
    <3>1. DeleteRows(list.selected, FALSE) /\ alert.kind \in AboutList
      BY <1>8, <2>1 DEF OkDeleteSelected, AboutList
    <3> QED
      BY <2>1, <3>1, DeleteSound
  <2> QED
    BY <1>7, <1>8, <2>1 DEF OkDeleteSelected, store
<1>9. CASE NotifyList
  BY <1>2, <1>9 DEF NotifyList, store
<1>10. CASE Relaunch \/ CloseList \/ OkNoArticles
  BY <1>10 DEF Relaunch, Launch, CloseList, OkNoArticles, ListSound
<1>11. ASSUME list # Closed, list'.articles = list.articles, realm' = realm
       PROVE  ListSound'
  BY <1>11 DEF ListSound, Stored
<1>12. ASSUME list # Closed, NEW k \in Rows, Mark(k) \/ DisplayRow(k)
       PROVE  ListSound'
  <2>1. list'.articles = list.articles
    BY <1>0, <1>12 DEF Mark, DisplayRow, ScreensTyped, ListOK, List
  <2> QED
    BY <1>11, <1>12, <2>1 DEF Mark, DisplayRow, store
<1>13. CASE Edit
  <2>1. list # Closed
    BY <1>13 DEF Edit, ListShown
  <2>2. list'.articles = list.articles
    BY <1>0, <1>13, <2>1 DEF Edit, ScreensTyped, ListOK, List
  <2> QED
    BY <1>11, <1>13, <2>1, <2>2 DEF Edit, store
<1> QED
  BY <1>3, <1>4, <1>5, <1>6, <1>7, <1>8, <1>9, <1>10, <1>12, <1>13
     DEF Next, SelectTab, DisplayCount, OpenFromTab, OpenDetail, OpenFromList,
         ReadDeadRow, AskDelete, CloseDetail, OkMessage, RemoveDead,
         ThrowInTransaction, ReadInTransaction, AskDeleteSelected, CancelDelete,
         NotifyFavorites, Trap, store, screens, vars

LEMMA AskedStep == BaseInv /\ AskedSound /\ [Next]_vars => AskedSound'
<1> SUFFICES ASSUME BaseInv, AskedSound, [Next]_vars PROVE AskedSound'
  OBVIOUS
<1>0. ScreensTyped /\ AlertShown
  BY DEF BaseInv
<1>1. CASE alert'.kind # "deleteRow"
  BY <1>1 DEF AskedSound
<1>2. NoAlert.kind # "deleteRow" /\ AlertTold.kind # "deleteRow"
  BY DEF NoAlert, AlertTold
<1>3. CASE UNCHANGED <<alert, list>>
  BY <1>3 DEF AskedSound, Rows
<1>4. ASSUME NEW k \in Rows, AskDelete(k) PROVE AskedSound'
  BY <1>4 DEF AskDelete, AskedSound, Rows
<1>5. ASSUME list # Closed, NEW k \in Rows, DisplayRow(k) PROVE AskedSound'
  <2>1. list'.articles = list.articles /\ alert' = alert
    BY <1>0, <1>5 DEF DisplayRow, ScreensTyped, ListOK, List
  <2> QED
    BY <2>1 DEF AskedSound, Rows
<1>6. CASE NotifyList
  <2>1. alert'.kind = "deleteRow" => ~alert'.exact
    BY <1>0, <1>6, <1>2 DEF NotifyList, ScreensTyped, Alert
  <2> QED
    BY <2>1 DEF AskedSound
<1>7. CASE Free /\ alert' = alert
  BY <1>1, <1>2, <1>7 DEF Free
<1>8. CASE OkDeleteRow \/ OkDeleteSelected
  <2>1. \/ alert' \in {NoAlert, AlertTold, [kind |-> "message"]}
        \/ UNCHANGED <<alert, list>>
    BY <1>8 DEF OkDeleteRow, OkDeleteSelected, DeleteRows, Trap, screens, Write,
                Commit, CommitFails
  <2> QED
    BY <1>1, <1>2, <1>3, <2>1
<1>9. CASE AddBookmark \/ RemoveBookmark
  <2>1. alert' \in {NoAlert, [kind |-> "message"]}
    BY <1>9 DEF AddBookmark, RemoveBookmark, Free, Write, Commit, CommitFails
  <2> QED
    BY <1>1, <1>2, <2>1
<1>10. CASE \/ OkMessage \/ OkNoArticles \/ AskDeleteSelected
            \/ CancelDelete \/ Relaunch
  BY <1>1, <1>2, <1>10
     DEF OkMessage, OkNoArticles, AskDeleteSelected, CancelDelete,
         Relaunch, Launch
<1> QED
  BY <1>3, <1>4, <1>5, <1>6, <1>7, <1>8, <1>9, <1>10
     DEF Next, SelectTab, OpenList, DisplayCount, CloseList, OpenFromTab,
         OpenDetail, OpenFromList, Mark, Edit, ReadDeadRow, CloseDetail,
         RemoveDead, ThrowInTransaction, ReadInTransaction, NotifyFavorites, Trap,
         screens, vars

DetailInv == DetailSound /\ FlagTellsRealm

LEMMA DetailStep ==
    BaseInv /\ ListSound /\ DetailInv /\ [Next]_vars => DetailInv'
<1> SUFFICES ASSUME BaseInv, ListSound, DetailInv, [Next]_vars PROVE DetailInv'
  OBVIOUS
<1>0. ScreensTyped /\ AlertShown /\ DetailSound /\ FlagTellsRealm
  BY DEF BaseInv, DetailInv
<1>1. CASE UNCHANGED <<realm, detail, failed>>
  BY <1>0, <1>1 DEF DetailInv, DetailSound, FlagTellsRealm, Stored
<1>2. CASE detail' = Closed
  BY <1>2 DEF DetailInv, DetailSound, FlagTellsRealm
<1>3. ASSUME NEW u \in Articles, NEW c \in Kept, OpenFromTab(u, c) PROVE DetailInv'
  BY <1>3 DEF OpenFromTab, OpenDetail, DetailInv, DetailSound, FlagTellsRealm,
              IsFavorited, Stored, store
<1>4. ASSUME list # Closed, NEW k \in Rows, OpenFromList(k) PROVE DetailInv'
  <2>1. list.articles[k].url \in Stored
    BY <1>4 DEF OpenFromList, ListSound, Sound, Rows
  <2> QED
    BY <1>4, <2>1 DEF OpenFromList, OpenDetail, DetailInv, DetailSound,
                      FlagTellsRealm, IsFavorited, Stored, store
<1>5. CASE AddBookmark
  <2>1. /\ detail # Closed /\ detail \in Detail /\ ~detail.isFavorited
        /\ detail' = [detail EXCEPT !.isFavorited = TRUE]
    BY <1>0, <1>5 DEF AddBookmark, ScreensTyped
  <2>2. /\ detail'.isFavorited /\ detail'.managed = detail.managed
        /\ detail'.live = detail.live /\ detail'.url = detail.url
    BY <2>1 DEF Detail
  <2>3. CASE realm' = realm /\ detail.managed
    BY <1>0, <2>1, <2>2, <2>3
       DEF DetailInv, DetailSound, FlagTellsRealm, Stored
  <2>4. ASSUME NEW l, ~detail.managed,
               Write([realm EXCEPT ![detail.url] = detail.category], l, NoAlert)
        PROVE  DetailInv'
    <3>1. detail.category # Absent /\ detail.url \in Articles
      BY <2>1, BookmarksAssumption DEF Detail, Kept
    <3>2. detail.url \in Stored'
      BY <1>0, <2>4, <3>1 DEF Write, Commit, CommitFails, Stored, ScreensTyped
    <3> QED
      BY <1>0, <2>1, <2>2, <2>4, <3>2 DEF DetailInv, DetailSound, FlagTellsRealm
  <2> QED
    BY <1>5, <2>3, <2>4 DEF AddBookmark, CommitFails, store
<1>6. CASE RemoveBookmark
  <2>1. /\ detail # Closed /\ detail \in Detail
        /\ detail' = [detail EXCEPT !.isFavorited = FALSE, !.live = ~detail.managed]
        /\ realm' = [realm EXCEPT ![detail.url] = Absent]
    BY <1>0, <1>6 DEF RemoveBookmark, ScreensTyped, Write, Commit, CommitFails
  <2>2. /\ detail'.managed = detail.managed /\ detail'.live = ~detail.managed
        /\ detail'.url = detail.url /\ detail'.isFavorited = FALSE
        /\ detail.managed \in BOOLEAN
    BY <2>1 DEF Detail
  <2>3. detail.url \notin Stored'
    BY <1>0, <2>1 DEF Stored, ScreensTyped
  <2>4. DetailSound'
    BY <2>2 DEF DetailSound
  <2>5. (detail'.url \in Stored') = FALSE
    BY <2>2, <2>3
  <2>6. detail'.isFavorited = (detail'.url \in Stored')
    BY <2>2, <2>5, Zenon
  <2>7. FlagTellsRealm'
    BY <2>6 DEF FlagTellsRealm
  <2> QED
    BY <2>4, <2>7 DEF DetailInv
\* While the delete alert is up no detail screen is open.
<1>7. CASE OkDeleteRow \/ OkDeleteSelected
  <2>1. detail = Closed
    BY <1>0, <1>7 DEF AlertShown, ListShown, AboutList, OkDeleteRow, OkDeleteSelected
  <2>2. detail' = detail
    BY <1>7 DEF OkDeleteRow, OkDeleteSelected, DeleteRows, Trap, screens
  <2> QED
    BY <1>2, <2>1, <2>2
<1>8. CASE Relaunch \/ CloseDetail
  BY <1>2, <1>8 DEF Relaunch, Launch, CloseDetail
<1> QED
  BY <1>1, <1>3, <1>4, <1>5, <1>6, <1>7, <1>8
     DEF Next, SelectTab, OpenList, DisplayCount, CloseList, Mark, DisplayRow,
         ReadDeadRow, AskDelete, Edit, OkMessage, OkNoArticles, RemoveDead,
         ThrowInTransaction, ReadInTransaction, AskDeleteSelected, CancelDelete,
         NotifyList, NotifyFavorites, Trap, store, screens, vars

LEMMA InitSound == Init => ListSound /\ AskedSound /\ DetailInv
  BY DEF Init, ListSound, AskedSound, DetailInv, DetailSound, FlagTellsRealm, NoAlert

LEMMA SoundAlways ==
    Spec => [](BaseInv /\ ListSound /\ AskedSound /\ DetailInv)
<1>1. Init => BaseInv /\ ListSound /\ AskedSound /\ DetailInv
  BY InitBase, InitSound
<1>2. (BaseInv /\ ListSound /\ AskedSound /\ DetailInv) /\ [Next]_vars
         => (BaseInv /\ ListSound /\ AskedSound /\ DetailInv)'
  BY BaseStep, ListSoundStep, AskedStep, DetailStep
<1> QED
  BY <1>1, <1>2, PTL DEF Spec

\* The bookmark button of a detail screen says whether the Realm has its article,
\* however the other screens write meanwhile, unless the screen's own object was
\* deleted or a commit failed.
THEOREM FlagStaysTrue == Spec => []FlagTellsRealm
<1>1. DetailInv => FlagTellsRealm
  BY DEF DetailInv
<1> QED
  BY SoundAlways, <1>1, PTL

\* Adding a bookmark never changes the category of one that is kept: the button
\* only adds what the Realm does not have, and once a commit failed nothing is
\* committed any more.
THEOREM CategoriesAreKept == Spec => BookmarkKeepsCategory
<1>1. BaseInv /\ TallyInv /\ DetailInv /\ [Next]_vars =>
         [\A u \in Articles : file[u] # Absent => file'[u] \in {file[u], Absent}]_vars
  <2> SUFFICES ASSUME BaseInv, TallyInv, DetailInv, [Next]_vars,
                      NEW u \in Articles, file[u] # Absent
               PROVE  file'[u] \in {file[u], Absent}
    OBVIOUS
  <2>0. ScreensTyped /\ DetailSound /\ FlagTellsRealm /\ (~failed => realm = file)
    BY DEF BaseInv, DetailInv, TallyInv
  <2>1. CASE AddBookmark
    <3>1. CASE file' = file
      BY <3>1
    <3>2. ASSUME NEW l, ~detail.managed,
                 Commit([realm EXCEPT ![detail.url] = detail.category], l, NoAlert)
          PROVE  file'[u] \in {file[u], Absent}
      <4>1. realm = file
        BY <2>0, <2>1 DEF AddBookmark
      <4>2. detail.url \notin Stored
        BY <2>0, <2>1, <3>2 DEF AddBookmark, DetailSound, FlagTellsRealm
      <4>3. u # detail.url
        BY <4>1, <4>2 DEF Stored
      <4> QED
        BY <2>0, <3>2, <4>1, <4>3 DEF Commit, ScreensTyped
    <3> QED
      BY <2>1, <3>1, <3>2 DEF AddBookmark, Write, CommitFails, store
  <2>2. CASE RemoveBookmark
    BY <2>0, <2>2 DEF RemoveBookmark, Write, Commit, CommitFails, ScreensTyped
  <2>3. CASE OkDeleteRow \/ OkDeleteSelected
    BY <2>0, <2>3
       DEF OkDeleteRow, OkDeleteSelected, DeleteRows, Trap, Write, Commit,
           CommitFails, store
  <2>4. CASE file' = file
    BY <2>4
  <2> QED
    BY <2>1, <2>2, <2>3, <2>4
       DEF Next, SelectTab, OpenList, DisplayCount, CloseList, OpenFromTab,
           OpenFromList, OpenDetail, Mark, DisplayRow, ReadDeadRow, AskDelete,
           CloseDetail, Edit, OkMessage, OkNoArticles, RemoveDead,
           ThrowInTransaction, ReadInTransaction, AskDeleteSelected, CancelDelete,
           NotifyList, NotifyFavorites, Relaunch, Trap, store, vars
<1> QED
  BY SoundAlways, BaseAlways, <1>1, PTL DEF Spec, BookmarkKeepsCategory

\* A delete confirmed for a row deletes the article that row showed and no other,
\* unless the rows had moved: no other write runs while the alert is up.
THEOREM DeletesAreExact == Spec => DeletesWhatWasAsked
<1>1. BaseInv /\ TallyInv /\ AskedSound /\ [Next]_vars =>
         [alert.kind = "deleteRow" /\ alert.exact =>
             \A u \in Articles :
                file[u] # Absent /\ file'[u] = Absent => u = alert.asked]_vars
  <2> SUFFICES ASSUME BaseInv, TallyInv, AskedSound, [Next]_vars,
                      alert.kind = "deleteRow", alert.exact,
                      NEW u \in Articles, file[u] # Absent, file'[u] = Absent
               PROVE  u = alert.asked
    OBVIOUS
  <2>1. list.articles[alert.row].url = alert.asked /\ (~failed => realm = file)
    BY DEF AskedSound, TallyInv
  <2>2. CASE OkDeleteRow
    <3>1. u \in Urls({alert.row})
      BY <2>1, <2>2
         DEF OkDeleteRow, AskedRow, DeleteRows, Trap, Write, Commit, CommitFails,
             Urls, store
    <3> QED
      BY <2>1, <3>1 DEF Urls
  <2>3. CASE file' = file
    BY <2>3
  <2>4. ~Free
    BY DEF Free, NoAlert
  <2>5. ~AddBookmark /\ ~RemoveBookmark /\ ~OkDeleteSelected
    BY <2>4 DEF AddBookmark, RemoveBookmark, OkDeleteSelected
  <2> QED
    BY <2>2, <2>3, <2>5
       DEF Next, SelectTab, OpenList, DisplayCount, CloseList, OpenFromTab,
           OpenFromList, OpenDetail, Mark, DisplayRow, ReadDeadRow, AskDelete,
           CloseDetail, Edit, OkMessage, OkNoArticles, RemoveDead,
           ThrowInTransaction, ReadInTransaction, AskDeleteSelected, CancelDelete,
           NotifyList, NotifyFavorites, Relaunch, Trap, store, vars
<1> QED
  BY SoundAlways, BaseAlways, <1>1, PTL DEF Spec, DeletesWhatWasAsked

-----------------------------------------------------------------------------
(* No trap.  Until a detail screen removed an article the list holds, a    *)
(* commit failed, or a delete was begun or confirmed in haste, every       *)
(* object on screen is live and in the category its list is of, and the    *)
(* row an alert is about is there.                                         *)

Clean == ~underfoot /\ ~failed /\ ~hasty

\* Every object is live, and a bookmark of the category.
Whole(s, r, c) == \A k \in DOMAIN s : s[k].live /\ r[s[k].url] = c

ListWhole == list # Closed => Whole(list.articles, realm, list.category)

\* The list under a detail screen still holds its article.
DetailWhole ==
    detail # Closed =>
        detail.live /\ (detail.managed => Holds(list, detail.url))

AlertWhole == alert.kind = "deleteRow" => alert.row \in Rows

WholeInv == ~trap /\ ListWhole /\ DetailWhole /\ AlertWhole
CleanInv == Clean => WholeInv

\* A list read anew has no fewer rows: what it had were different bookmarks of
\* the category.
LEMMA ReadsMore ==
    ASSUME NEW s \in Seq(Entry), NEW t \in Seq(Entry), NEW c, OneEach(s),
           Whole(s, realm, c), Reads(t, InCategory(c))
    PROVE  DOMAIN s \subseteq DOMAIN t
<1> DEFINE n == Len(s)
           S == InCategory(c)
           f == [k \in 1..n |-> s[k].url]
<1>1. n \in Nat /\ DOMAIN s = 1..n /\ \A k \in 1..n : s[k] \in Entry
  OBVIOUS
<1>2. \A k \in 1..n : s[k].url \in S
  BY <1>1 DEF Whole, InCategory, Entry
<1>3. IsFiniteSet(S)
  BY FS_Subset, BookmarksAssumption DEF InCategory
<1>4. f \in Injection(1..n, S)
  <2>1. f \in [1..n -> S]
    BY <1>2
  <2>2. \A j, k \in 1..n : f[j] = f[k] => j = k
    BY <1>1 DEF OneEach
  <2> QED
    BY <2>1, <2>2 DEF Injection, IsInjective
<1>5. Cardinality(1..n) = n
  <2>1. 1 \in Int /\ n \in Int /\ (1 > n => n = 0) /\ n - 1 + 1 = n
    BY <1>1
  <2> QED
    BY <2>1, FS_Interval
<1> HIDE DEF f, S
<1>6. n <= Cardinality(S)
  BY <1>3, <1>4, <1>5, FS_Injection
<1>7. n <= Len(t) /\ Len(t) \in Nat /\ DOMAIN t = 1..Len(t)
  BY <1>6 DEF Reads, S
<1> HIDE DEF n
<1> QED
  BY <1>1, <1>7

\* Telling the list keeps it whole, and it holds what it held.
LEMMA ToldWhole ==
    ASSUME BaseInv, ListSound, ListWhole, NEW l \in ListTold, l # Closed
    PROVE  /\ list # Closed /\ ListOK(l) /\ l.category = list.category
           /\ Whole(l.articles, realm, l.category)
           /\ Rows \subseteq DOMAIN l.articles
           /\ \A u : Holds(list, u) => Holds(l, u)
<1>1. list # Closed => ListOK(list)
  BY DEF BaseInv, ScreensTyped
<1>2. /\ list # Closed /\ ListOK(l) /\ l.category = list.category
      /\ ~list.pending => l = list
      /\ list.pending =>
            IF InCategory(list.category) = {} THEN l.articles = list.articles
            ELSE Reads(l.articles, InCategory(list.category))
  BY <1>1, ToldShape
<1>3. Whole(list.articles, realm, list.category) /\ OneEach(list.articles)
  BY <1>2 DEF ListWhole, ListSound, Sound
<1>4. CASE l.articles = list.articles
  BY <1>2, <1>3, <1>4 DEF Rows, Holds
<1>5. CASE Reads(l.articles, InCategory(list.category))
  <2>1. list.articles \in Seq(Entry) /\ l.articles \in Seq(Entry)
    BY <1>1, <1>2 DEF ListOK, List
  <2>2. Rows \subseteq DOMAIN l.articles
    BY <1>3, <1>5, <2>1, ReadsMore DEF Rows
  <2>3. Whole(l.articles, realm, l.category)
    BY <1>2, <1>5 DEF Reads, Whole, InCategory
  <2>4. ASSUME NEW u, Holds(list, u) PROVE Holds(l, u)
    <3>1. PICK k \in DOMAIN list.articles : list.articles[k].url = u
      BY <2>4 DEF Holds
    <3>2. list.articles[k] \in Entry /\ realm[u] = list.category
      BY <1>3, <2>1, <3>1 DEF Whole
    <3>3. u \in InCategory(list.category)
      BY <3>1, <3>2 DEF InCategory, Entry
    <3> QED
      BY <1>5, <3>3 DEF Reads, Holds
  <2> QED
    BY <1>2, <2>2, <2>3, <2>4
<1> QED
  BY <1>2, <1>4, <1>5

LEMMA AddWhole ==
    ASSUME BaseInv, ListSound, DetailInv, WholeInv, ~failed, ~failed', AddBookmark
    PROVE  WholeInv'
<1>0. ScreensTyped /\ DetailSound /\ FlagTellsRealm
  BY DEF BaseInv, DetailInv
<1>1. /\ detail # Closed /\ detail \in Detail /\ ~detail.isFavorited /\ detail.live
      /\ detail' = [detail EXCEPT !.isFavorited = TRUE] /\ trap' = trap
  BY <1>0 DEF AddBookmark, ScreensTyped, WholeInv, DetailWhole
<1>2. detail.url \notin Stored /\ ~detail.managed
  BY <1>0, <1>1 DEF FlagTellsRealm, DetailSound
<1>3. PICK l \in ListTold :
         Commit([realm EXCEPT ![detail.url] = detail.category], l, NoAlert)
  BY <1>2 DEF AddBookmark, Write, CommitFails
<1>4. ListWhole'
  <2> SUFFICES ASSUME list' # Closed PROVE Whole(list'.articles, realm', list'.category)
    BY DEF ListWhole
  <2>1. list' = Observed(l) /\ l # Closed
    BY <1>3 DEF Commit, Observed
  <2>2. ListOK(l) /\ Whole(l.articles, realm, l.category)
    BY <2>1, ToldWhole DEF WholeInv
  <2>3. list'.articles = l.articles /\ list'.category = l.category
    BY <2>1, <2>2, ObservedList
  <2>4. l.category # Absent /\ realm[detail.url] = Absent
    BY <1>1, <1>2, <2>2, BookmarksAssumption DEF ListOK, List, Stored, Detail
  <2>5. \A k \in DOMAIN l.articles : realm'[l.articles[k].url] = l.category
    BY <1>0, <1>3, <2>2, <2>4 DEF Commit, Whole, ScreensTyped
  <2> QED
    BY <2>2, <2>3, <2>5 DEF Whole
<1>5. DetailWhole'
  <2>1. detail'.live /\ ~detail'.managed
    BY <1>1, <1>2 DEF Detail
  <2> QED
    BY <2>1 DEF DetailWhole
<1>6. AlertWhole'
  BY <1>3 DEF Commit, AlertWhole, NoAlert
<1> QED
  BY <1>1, <1>4, <1>5, <1>6 DEF WholeInv

LEMMA RemoveWhole ==
    ASSUME BaseInv, ListSound, DetailInv, WholeInv, ~failed', ~underfoot',
           RemoveBookmark
    PROVE  WholeInv'
<1>0. ScreensTyped
  BY DEF BaseInv
<1>1. /\ detail # Closed /\ detail \in Detail /\ trap' = trap
  BY <1>0 DEF RemoveBookmark, ScreensTyped
<1> DEFINE b(l) == IF l = Closed THEN Closed
                   ELSE [l EXCEPT !.articles = Bury(@, {detail.url})]
<1>2. PICK l \in ListTold :
         /\ detail' = [detail EXCEPT !.isFavorited = FALSE, !.live = ~detail.managed]
         /\ Commit([realm EXCEPT ![detail.url] = Absent], b(l), NoAlert)
         /\ ~Holds(l, detail.url)
  BY DEF RemoveBookmark, Write, CommitFails
<1>3. ~detail.managed
  <2>1. detail.managed => list # Closed /\ Holds(list, detail.url)
    BY <1>1 DEF WholeInv, DetailWhole, Holds
  <2>2. list # Closed => l # Closed
    BY <1>0, ToldShape DEF ScreensTyped
  <2> QED
    BY <1>2, <2>1, <2>2, ToldWhole DEF WholeInv
<1>4. ListWhole'
  <2> SUFFICES ASSUME list' # Closed PROVE Whole(list'.articles, realm', list'.category)
    BY DEF ListWhole
  <2>1. list' = Observed(b(l)) /\ l # Closed
    BY <1>2 DEF Commit, Observed
  <2>2. ListOK(l) /\ Whole(l.articles, realm, l.category) /\ l.articles \in Seq(Entry)
    BY <2>1, ToldWhole DEF WholeInv, ListOK, List
  <2>3. /\ ListOK(b(l)) /\ b(l).articles = Bury(l.articles, {detail.url})
        /\ b(l).category = l.category
    BY <2>1, <2>2, BuriedList
  <2>4. /\ list'.articles = Bury(l.articles, {detail.url})
        /\ list'.category = l.category
    <3> HIDE DEF b
    <3>1. b(l) # Closed
      BY <2>3, ClosedAssumption DEF ListOK
    <3> QED
      BY <2>1, <2>3, <3>1, ObservedList
  <2>5. \A k \in DOMAIN l.articles : l.articles[k].url # detail.url
    BY <1>2, <2>1 DEF Holds
  <2>6. \A k \in DOMAIN l.articles :
           /\ Bury(l.articles, {detail.url})[k].url = l.articles[k].url
           /\ Bury(l.articles, {detail.url})[k].live
    BY <2>2, <2>5, BuryShape DEF Whole
  <2>7. DOMAIN Bury(l.articles, {detail.url}) = DOMAIN l.articles
    BY <2>2, BuryShape
  <2>8. \A k \in DOMAIN l.articles : realm'[l.articles[k].url] = l.category
    BY <1>0, <1>2, <2>2, <2>5 DEF Commit, Whole, ScreensTyped
  <2> QED
    BY <2>4, <2>6, <2>7, <2>8 DEF Whole
<1>5. DetailWhole'
  <2>1. detail'.live /\ ~detail'.managed
    BY <1>1, <1>2, <1>3 DEF Detail
  <2> QED
    BY <2>1 DEF DetailWhole
<1>6. AlertWhole'
  BY <1>2 DEF Commit, AlertWhole, NoAlert
<1> QED
  BY <1>1, <1>4, <1>5, <1>6 DEF WholeInv

\* With nothing due, rows that are there are deleted without a trap: they are
\* read while live, and the table counts right.
LEMMA DeleteWhole ==
    ASSUME BaseInv, ListSound, WholeInv, alert.kind \in AboutList,
           NEW gone, gone # {}, gone \subseteq Rows, NEW byRow \in BOOLEAN,
           DeleteRows(gone, byRow), ~hasty', ~failed, ~failed'
    PROVE  WholeInv'
<1>1. /\ list # Closed /\ ListOK(list) /\ detail = Closed /\ ScreensTyped
      /\ Whole(list.articles, realm, list.category) /\ OneEach(list.articles)
      /\ list.articles \in Seq(Entry)
  BY DEF BaseInv, AlertShown, ListShown, ScreensTyped, WholeInv, ListWhole,
         ListSound, Sound, ListOK, List
<1>2. Readable(gone)
  BY <1>1 DEF Readable, Rows, Whole
<1>3. ~list.pending /\ detail' = detail
  BY <1>2 DEF DeleteRows
<1>4. ListTold = {list}
  BY <1>3 DEF ListTold
<1>5. CountsAgree(list, gone, byRow)
  <2>1. ArticlesLeft(list, gone, byRow) = Without(list.articles, gone)
    BY <1>3 DEF ArticlesLeft, ReadAnew
  <2>2. Len(Without(list.articles, gone)) = Len(list.articles) - Cardinality(gone)
    BY <1>1, WithoutShape DEF Rows
  <2> QED
    BY <1>1, <2>1, <2>2 DEF CountsAgree, Rows, ListOK
<1> DEFINE left == RowsDeleted(list, gone, byRow)
           buried == [left EXCEPT !.articles = Bury(@, Urls(gone))]
<1>6. Commit(Minus(Urls(gone)), buried, AlertTold) /\ trap' = trap
  BY <1>2, <1>4, <1>5 DEF DeleteRows, Write, CommitFails, Minus, Urls
<1>7. /\ ListOK(left) /\ left.articles = Without(list.articles, gone)
      /\ left.category = list.category
  BY <1>1, <1>4, <1>5, CutShape
<1> HIDE DEF left
<1>8. /\ ListOK(buried) /\ buried.articles = Bury(left.articles, Urls(gone))
      /\ buried.category = left.category
  BY <1>7, BuriedList
<1>9. /\ list'.articles = Bury(Without(list.articles, gone), Urls(gone))
      /\ list'.category = list.category
  <2> HIDE DEF buried
  <2>1. list' = Observed(buried) /\ buried # Closed
    BY <1>6, <1>8, ClosedAssumption DEF Commit, ListOK
  <2> QED
    BY <1>7, <1>8, <2>1, ObservedList
<1> DEFINE w == Without(list.articles, gone)
<1>10. \A j \in DOMAIN w : \E k \in DOMAIN list.articles \ gone : w[j] = list.articles[k]
  BY <1>1, CutSound DEF Rows
<1>11. w \in Seq(Entry)
  BY <1>1, WithoutShape DEF Rows
<1> HIDE DEF w
<1>12. \A j \in DOMAIN w :
          /\ w[j].live /\ w[j].url \notin Urls(gone) /\ w[j].url \in Articles
          /\ realm[w[j].url] = list.category
  <2> SUFFICES ASSUME NEW j \in DOMAIN w
               PROVE  /\ w[j].live /\ w[j].url \notin Urls(gone)
                      /\ w[j].url \in Articles /\ realm[w[j].url] = list.category
    OBVIOUS
  <2>1. PICK k \in DOMAIN list.articles \ gone : w[j] = list.articles[k]
    BY <1>10
  <2>2. w[j] \in Entry
    BY <1>11
  <2>3. list.articles[k].url \notin Urls(gone)
    BY <1>1 DEF Urls, OneEach, Rows
  <2> QED
    BY <1>1, <2>1, <2>2, <2>3 DEF Whole, Entry
<1>13. /\ DOMAIN Bury(w, Urls(gone)) = DOMAIN w
       /\ \A j \in DOMAIN w :
             /\ Bury(w, Urls(gone))[j].url = w[j].url
             /\ Bury(w, Urls(gone))[j].live
  BY <1>11, <1>12, BuryShape
<1>14. \A j \in DOMAIN w : realm'[w[j].url] = list.category
  BY <1>6, <1>12 DEF Commit, Minus
<1>15. ListWhole'
  <2>1. Whole(Bury(w, Urls(gone)), realm', list.category)
    BY <1>13, <1>14 DEF Whole
  <2> QED
    BY <1>9, <2>1 DEF ListWhole, w
<1>16. AlertWhole'
  BY <1>6 DEF Commit, AlertTold, AlertWhole, NoAlert
<1> QED
  BY <1>1, <1>3, <1>6, <1>15, <1>16 DEF WholeInv, DetailWhole

LEMMA WholeStep ==
    ASSUME BaseInv, ListSound, DetailInv, WholeInv, Clean, Clean', Next
    PROVE  WholeInv'
<1>0. /\ ScreensTyped /\ AlertShown /\ DetailSound /\ FlagTellsRealm
      /\ ~trap /\ ListWhole /\ DetailWhole /\ AlertWhole
  BY DEF BaseInv, DetailInv, WholeInv
<1>1. NoAlert.kind # "deleteRow" /\ AlertTold.kind # "deleteRow"
  BY DEF NoAlert, AlertTold
\* Steps that leave the list's articles alone.
<1>2. ASSUME UNCHANGED <<realm, trap>>,
             \/ list' = list
             \/ /\ list # Closed /\ list' # Closed
                /\ list'.articles = list.articles /\ list'.category = list.category
      PROVE  ListWhole' /\ (list # Closed => Rows' = Rows)
                        /\ \A u : Holds(list, u) => Holds(list', u)
  BY <1>0, <1>2 DEF ListWhole, Whole, Rows, Holds
<1>3. CASE UNCHANGED <<realm, trap, list, detail>> /\ alert'.kind # "deleteRow"
  BY <1>0, <1>2, <1>3 DEF WholeInv, DetailWhole, AlertWhole
<1>4. CASE UNCHANGED <<realm, trap, list, detail, alert>>
  BY <1>0, <1>4 DEF WholeInv, ListWhole, Whole, DetailWhole, AlertWhole, Rows, Holds
<1>5. CASE \/ \E t \in Tabs : SelectTab(t)
           \/ \E c \in Categories : DisplayCount(c)
           \/ OkMessage \/ AskDeleteSelected \/ CancelDelete \/ NotifyFavorites
  BY <1>1, <1>3, <1>4, <1>5
     DEF SelectTab, DisplayCount, OkMessage, AskDeleteSelected, CancelDelete,
         NotifyFavorites, store
<1>6. CASE Relaunch
  BY <1>1, <1>6 DEF Relaunch, Launch, WholeInv, ListWhole, DetailWhole, AlertWhole
<1>7. CASE CloseList \/ OkNoArticles
  <2>1. /\ detail = Closed /\ detail' = detail /\ list' = Closed /\ trap' = trap
        /\ alert'.kind # "deleteRow"
    BY <1>0, <1>1, <1>7
       DEF CloseList, OkNoArticles, ListShown, AlertShown, AboutList, Free
  <2> QED
    BY <1>0, <2>1 DEF WholeInv, ListWhole, DetailWhole, AlertWhole
<1>8. ASSUME NEW c \in Categories, OpenList(c) PROVE WholeInv'
  <2> DEFINE l == [category |-> c, articles |-> <<>>, cells |-> <<>>,
                   selected |-> {}, editing |-> FALSE, pending |-> TRUE]
  <2>1. l \in List /\ l.articles = <<>> /\ l.category = c
    BY DEF List
  <2>2. /\ list' \in Fetched(l) /\ realm' = realm /\ list = Closed /\ trap' = trap
        /\ detail' = detail /\ alert' = NoAlert
    BY <1>8 DEF OpenList, Free, store
  <2> HIDE DEF l
  <2>3. /\ list'.articles = <<>> \/ Reads(list'.articles, InCategory(c))
        /\ list'.category = c
    BY <2>1, <2>2, FetchedShape
  <2>4. ListWhole'
    BY <2>2, <2>3 DEF ListWhole, Whole, Reads, InCategory
  <2>5. DetailWhole'
    BY <1>0, <2>2 DEF DetailWhole, Holds
  <2> QED
    BY <1>0, <1>1, <2>2, <2>4, <2>5 DEF WholeInv, AlertWhole
<1>9. ASSUME NEW u \in Articles, NEW c \in Kept, OpenFromTab(u, c) PROVE WholeInv'
  <2>1. DetailWhole'
    BY <1>9 DEF OpenFromTab, OpenDetail, DetailWhole
  <2> QED
    BY <1>0, <1>9, <2>1
       DEF OpenFromTab, OpenDetail, WholeInv, ListWhole, Whole, AlertWhole, Rows,
           store
<1>10. ASSUME list # Closed, NEW k \in Rows, OpenFromList(k) PROVE WholeInv'
  <2>1. DetailWhole'
    BY <1>10 DEF OpenFromList, OpenDetail, DetailWhole, Holds, Rows
  <2> QED
    BY <1>0, <1>10, <2>1
       DEF OpenFromList, OpenDetail, WholeInv, ListWhole, Whole, AlertWhole, Rows,
           store
<1>11. CASE CloseDetail
  BY <1>0, <1>11
     DEF CloseDetail, WholeInv, DetailWhole, ListWhole, Whole, AlertWhole, Rows, store
<1>12. ASSUME list # Closed, Edit \/ \E k \in Rows : Mark(k) \/ DisplayRow(k)
       PROVE  WholeInv'
  <2>1. /\ list' # Closed /\ list'.articles = list.articles
        /\ list'.category = list.category
    <3>1. /\ list' \in List /\ list'.articles = list.articles
          /\ list'.category = list.category
      <4>1. list \in List /\ list.cells \in Seq(Nat \ {0})
            /\ Len(list.cells) = Len(list.articles)
        BY <1>0, <1>12 DEF ScreensTyped, ListOK, List
      <4>2. CASE Edit
        BY <4>1, <4>2 DEF Edit, List
      <4>3. ASSUME NEW k \in Rows, Mark(k) PROVE <3>1!:
        <5>1. k \in Nat \ {0}
          BY <1>0, <1>12, <4>3 DEF ScreensTyped, ListOK, List, Rows
        <5> QED
          BY <4>1, <4>3, <5>1 DEF Mark, List
      <4>4. ASSUME NEW k \in Rows, DisplayRow(k) PROVE <3>1!:
        <5>1. list.articles \in Seq(Entry)
          BY <4>1 DEF List
        <5>2. k \in Nat \ {0} /\ k \in DOMAIN list.cells
          BY <4>1, <5>1 DEF Rows
        <5>3. [list.cells EXCEPT ![k] = k] \in Seq(Nat \ {0})
          BY <4>1, <5>2
        <5> QED
          BY <4>1, <4>4, <5>3 DEF DisplayRow, List
      <4> QED
        BY <1>12, <4>2, <4>3, <4>4
    <3> QED
      BY <3>1, ClosedAssumption
  <2>2. UNCHANGED <<realm, trap, detail, alert>>
    BY <1>12 DEF Edit, Mark, DisplayRow, store
  <2>3. ListWhole' /\ Rows' = Rows /\ \A u : Holds(list, u) => Holds(list', u)
    BY <1>2, <1>12, <2>1, <2>2
  <2>4. DetailWhole'
    BY <1>0, <2>2, <2>3 DEF DetailWhole, Holds
  <2> QED
    BY <1>0, <2>2, <2>3, <2>4 DEF WholeInv, AlertWhole
<1>13. ASSUME list # Closed, NEW k \in Rows, ReadDeadRow(k) PROVE WholeInv'
  BY <1>0, <1>13 DEF ReadDeadRow, ListWhole, Whole, Rows
<1>14. ASSUME list # Closed, NEW k \in Rows, AskDelete(k) PROVE WholeInv'
  <2>1. list.cells[k] = k
    BY <1>14 DEF AskDelete, Clean
  <2>2. alert'.row = k /\ UNCHANGED <<realm, list, detail, trap>>
    BY <1>14, <2>1 DEF AskDelete, store
  <2>3. Rows' = Rows
    BY <2>2 DEF Rows
  <2> QED
    BY <1>0, <2>2, <2>3 DEF WholeInv, ListWhole, Whole, DetailWhole, AlertWhole, Holds
<1>15. CASE AddBookmark
  BY <1>15, AddWhole DEF Clean
<1>16. CASE RemoveBookmark
  BY <1>16, RemoveWhole DEF Clean
<1>17. CASE RemoveDead \/ ThrowInTransaction \/ ReadInTransaction
  BY <1>0, <1>17
     DEF RemoveDead, ThrowInTransaction, ReadInTransaction, DetailWhole, Clean
<1>18. CASE OkDeleteRow
  <2>1. /\ DeleteRows({AskedRow}, TRUE) /\ alert.kind \in AboutList
        /\ {AskedRow} # {} /\ {AskedRow} \subseteq Rows
    BY <1>0, <1>18 DEF OkDeleteRow, AboutList, AskedRow, AlertWhole
  <2> QED
    BY <2>1, DeleteWhole DEF Clean
<1>19. CASE OkDeleteSelected
  <2>1. CASE list.selected = {}
    BY <1>1, <1>3, <1>19, <2>1 DEF OkDeleteSelected, store
  <2>2. CASE list.selected # {}
    <3>1. DeleteRows(list.selected, FALSE) /\ alert.kind \in AboutList
      BY <1>19, <2>2 DEF OkDeleteSelected, AboutList
    <3>2. list.selected \subseteq Rows
      BY <1>0, <3>1 DEF AlertShown, ListShown, ScreensTyped, ListOK, Rows
    <3> QED
      BY <2>2, <3>1, <3>2, DeleteWhole DEF Clean
  <2> QED
    BY <2>1, <2>2
<1>20. CASE NotifyList
  <2>1. /\ list # Closed /\ list' \in ListTold /\ UNCHANGED <<realm, detail, trap>>
        /\ alert'.kind = "deleteRow" => alert.kind = "deleteRow" /\ alert'.row = alert.row
    BY <1>0, <1>1, <1>20 DEF NotifyList, ScreensTyped, Alert, store
  <2>2. list' # Closed
    BY <1>0, <2>1, ToldShape DEF ScreensTyped
  <2>3. /\ Whole(list'.articles, realm, list'.category)
        /\ Rows \subseteq DOMAIN list'.articles
        /\ \A u : Holds(list, u) => Holds(list', u)
    BY <1>0, <2>1, <2>2, ToldWhole
  <2>4. ListWhole'
    BY <2>1, <2>3 DEF ListWhole
  <2>5. DetailWhole'
    BY <1>0, <2>1, <2>3 DEF DetailWhole, Holds
  <2>6. AlertWhole'
    BY <1>0, <2>1, <2>3 DEF AlertWhole, Rows
  <2> QED
    BY <1>0, <2>1, <2>4, <2>5, <2>6 DEF WholeInv
<1>21. Edit => list # Closed
  BY DEF Edit, ListShown
<1> QED
  BY <1>5, <1>6, <1>7, <1>8, <1>9, <1>10, <1>11, <1>12, <1>13, <1>14, <1>15, <1>16,
     <1>17, <1>18, <1>19, <1>20, <1>21 DEF Next

\* Only a relaunch forgets what went wrong.
LEMMA CleanBefore ==
    ASSUME Next, Clean', ~Relaunch
    PROVE  Clean
<1>1. failed => failed'
  BY DEF Next, SelectTab, OpenList, DisplayCount, CloseList, OpenFromTab,
         OpenDetail, OpenFromList, Mark, DisplayRow, ReadDeadRow, AskDelete,
         CloseDetail, Edit, OkMessage, OkNoArticles, AddBookmark, RemoveBookmark,
         RemoveDead, ThrowInTransaction, ReadInTransaction, AskDeleteSelected,
         CancelDelete, OkDeleteRow, OkDeleteSelected, DeleteRows, NotifyList,
         NotifyFavorites, Trap, Write, Commit, CommitFails, store
<1>2. (underfoot => underfoot') /\ (hasty => hasty')
  <2>1. CASE RemoveBookmark
    <3>1. hasty' = hasty
      BY <2>1 DEF RemoveBookmark
    <3>2. ASSUME NEW l, underfoot' = (underfoot \/ Holds(l, detail.url)), underfoot
          PROVE  underfoot'
      BY <3>2, Zenon
    <3>3. underfoot => underfoot'
      BY <2>1, <3>2 DEF RemoveBookmark
    <3> QED
      BY <3>1, <3>3
  <2>2. ASSUME NEW k, AskDelete(k) PROVE <1>2!:
    BY <2>2 DEF AskDelete
  <2>3. CASE OkDeleteRow \/ OkDeleteSelected
    BY <2>3 DEF OkDeleteRow, OkDeleteSelected, DeleteRows, Trap, history
  <2>4. CASE UNCHANGED <<underfoot, hasty>>
    BY <2>4
  <2> QED
    BY <2>1, <2>2, <2>3, <2>4
       DEF Next, SelectTab, OpenList, DisplayCount, CloseList, OpenFromTab,
           OpenDetail, OpenFromList, Mark, DisplayRow, ReadDeadRow, CloseDetail,
           Edit, OkMessage, OkNoArticles, AddBookmark, RemoveDead,
           ThrowInTransaction, ReadInTransaction, AskDeleteSelected, CancelDelete,
           NotifyList, NotifyFavorites, Trap, history
<1> QED
  BY <1>1, <1>2 DEF Clean

LEMMA CleanStep ==
    BaseInv /\ ListSound /\ DetailInv /\ CleanInv /\ [Next]_vars => CleanInv'
<1> SUFFICES ASSUME BaseInv, ListSound, DetailInv, CleanInv, [Next]_vars, Clean'
             PROVE  WholeInv'
  BY DEF CleanInv
<1>1. CASE UNCHANGED vars
  BY <1>1 DEF vars, store, screens, history, CleanInv, Clean, WholeInv, ListWhole, Whole,
              DetailWhole, AlertWhole, Rows, Holds
<1>2. CASE Relaunch
  BY <1>2 DEF Relaunch, Launch, WholeInv, ListWhole, DetailWhole, AlertWhole, NoAlert
<1>3. CASE Next /\ ~Relaunch
  <2>1. Clean
    BY <1>3, CleanBefore
  <2> QED
    BY <1>3, <2>1, WholeStep DEF CleanInv
<1> QED
  BY <1>1, <1>2, <1>3

\* Deleting in the list, singly or many at once, never reads a deleted object or
\* a row out of range: a trap takes a detail screen that removed an article the
\* list holds, a failed commit, a delete begun on a row that had moved, or one
\* confirmed while a notification was due.
THEOREM ListNeverTraps == Spec => []NoTrapFromList
<1>1. Init => CleanInv
  BY DEF Init, CleanInv, WholeInv, ListWhole, DetailWhole, AlertWhole, NoAlert
<1>2. BaseInv /\ ListSound /\ AskedSound /\ DetailInv /\ CleanInv /\ [Next]_vars
         => CleanInv'
  BY CleanStep
<1>3. CleanInv => NoTrapFromList
  BY DEF CleanInv, Clean, WholeInv, NoTrapFromList
<1> QED
  BY <1>1, <1>2, <1>3, SoundAlways, PTL DEF Spec
=============================================================================
