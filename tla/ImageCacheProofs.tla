--------------------------- MODULE ImageCacheProofs ---------------------------
(* Theorems about ImageCache, for every cap and every set of addresses.    *)
EXTENDS ImageCache, FiniteSetTheorems, TLAPS

-----------------------------------------------------------------------------
(* configSaveImage on its list of keys.                                    *)

\* With the new key appended, the list is overfull or has room.
LEMMA AppendShape ==
    ASSUME NEW u \in URLs, keys \in Seq(URLs)
    PROVE  /\ Append(keys, u) \in Seq(URLs)
           /\ Len(Append(keys, u)) = Len(keys) + 1
           /\ Append(keys, u)[Len(keys) + 1] = u
           /\ \A k \in DOMAIN keys : Append(keys, u)[k] = keys[k]
           /\ DOMAIN Append(keys, u) = 1..(Len(keys) + 1)
           /\ DOMAIN keys = 1..Len(keys)
           /\ Len(keys) \in Nat
    OBVIOUS

\* Where an element of the new list was in the list with the key appended.
LEMMA KeysAfterShape ==
    ASSUME NEW u \in URLs, keys \in Seq(URLs), Len(keys) <= Cap
    PROVE  /\ KeysAfter(u) \in Seq(URLs)
           /\ Len(KeysAfter(u)) <= Cap
           /\ Overfull(u) => /\ Len(KeysAfter(u)) = Len(keys)
                             /\ \A k \in 1..Len(keys) :
                                    KeysAfter(u)[k] = Append(keys, u)[k + 1]
           /\ ~Overfull(u) => KeysAfter(u) = Append(keys, u)
<1> DEFINE a == Append(keys, u)
<1>1. a \in Seq(URLs) /\ Len(a) = Len(keys) + 1 /\ Len(keys) \in Nat
    BY AppendShape
<1> HIDE DEF a
<1>2. a # <<>>
    BY <1>1
<1>3. /\ Tail(a) \in Seq(URLs) /\ Len(Tail(a)) = Len(keys)
      /\ \A k \in 1..Len(keys) : Tail(a)[k] = a[k + 1]
    BY <1>1, <1>2
<1>4. Cap \in Nat
    BY CacheAssumption
<1>5. Overfull(u) <=> Len(a) > Cap
    BY DEF Overfull, a
<1>6. KeysAfter(u) = IF Overfull(u) THEN Tail(a) ELSE a
    BY DEF KeysAfter, a
<1>7. CASE Overfull(u)
    BY <1>1, <1>3, <1>4, <1>6, <1>7 DEF a
<1>8. CASE ~Overfull(u)
    <2>1. Len(a) <= Cap
        BY <1>1, <1>4, <1>5, <1>8
    <2> QED BY <1>1, <1>6, <1>8, <2>1 DEF a
<1> QED BY <1>7, <1>8

\* Every key but the one whose image goes is still in the list, and so is the
\* new one; nothing else is.
LEMMA KeysAfterTracked ==
    ASSUME NEW u \in URLs, keys \in Seq(URLs), Len(keys) <= Cap,
           NEW v \in URLs, v \in Tracked \cup {u}, v # Evicted(u)
    PROVE  \E k \in DOMAIN KeysAfter(u) : KeysAfter(u)[k] = v
<1> DEFINE a == Append(keys, u)
<1>1. /\ a \in Seq(URLs) /\ Len(a) = Len(keys) + 1 /\ Len(keys) \in Nat
      /\ a[Len(keys) + 1] = u /\ DOMAIN a = 1..(Len(keys) + 1)
      /\ \A k \in DOMAIN keys : a[k] = keys[k]
      /\ DOMAIN keys = 1..Len(keys)
    BY AppendShape
<1>2. PICK k \in 1..(Len(keys) + 1) : a[k] = v
    BY <1>1 DEF Tracked
<1>3. CASE ~Overfull(u)
    <2>1. KeysAfter(u) = a
        BY <1>3, KeysAfterShape
    <2> QED BY <1>1, <1>2, <2>1
<1>4. CASE Overfull(u)
    <2>1. Evicted(u) = Head(a) /\ Head(a) = a[1]
        BY <1>1, <1>4 DEF Evicted
    <2>2. k # 1 /\ k - 1 \in 1..Len(keys)
        BY <1>1, <1>2, <2>1
    <2>3. /\ Len(KeysAfter(u)) = Len(keys) /\ KeysAfter(u) \in Seq(URLs)
          /\ KeysAfter(u)[k - 1] = a[(k - 1) + 1]
        BY <1>4, <2>2, KeysAfterShape
    <2> QED BY <1>1, <1>2, <2>2, <2>3
<1> QED BY <1>3, <1>4

-----------------------------------------------------------------------------
(* Type correctness and the bound.                                         *)

\* The part of the type invariant and of the bound that Save disturbs.
Bounded == keys \in Seq(URLs) /\ Len(keys) <= Cap

CacheInv == TypeOK /\ Bounded /\ ImagesTracked

LEMMA EmptyList == <<>> \in Seq(URLs) /\ Len(<<>>) <= Cap
<1>1. Len(<<>>) = 0
    OBVIOUS
<1> QED BY <1>1, CacheAssumption

\* What StartWith is given is typed.
LEMMA RequestType ==
    ASSUME NEW row \in Rows \cup {Detail}, NEW u \in URLs, NEW t \in Tasks,
           NEW again \in BOOLEAN, NEW cached
    PROVE  /\ Request(row, u, cached, t, again) \subseteq Download
           /\ \A e \in Request(row, u, cached, t, again) :
                  e.url = u /\ u \notin cached
           /\ \A e, f \in Request(row, u, cached, t, again) : e = f
    BY DEF Request, Download

LEMMA SaveCacheInv ==
    ASSUME CacheInv, NEW u \in URLs, Save(u), connected' = connected
    PROVE  /\ keys' \in Seq(URLs) /\ Len(keys') <= Cap
           /\ images' \subseteq URLs
           /\ ~connected' => images' = {}
           /\ ImagesTracked'
<1>1. CASE ~connected
    BY <1>1 DEF Save, CacheInv, TypeOK, Bounded, ImagesTracked, Tracked
<1>2. CASE connected
    <2>1. keys' = KeysAfter(u) /\ images' = (images \cup {u}) \ {Evicted(u)}
        BY <1>2 DEF Save
    <2>2. keys' \in Seq(URLs) /\ Len(keys') <= Cap
        BY <2>1, KeysAfterShape DEF CacheInv, Bounded
    <2>3. images' \subseteq URLs
        BY <2>1 DEF CacheInv, TypeOK
    <2>4. ASSUME NEW v \in images' PROVE v \in Tracked'
        <3>1. v \in URLs /\ v \in Tracked \cup {u} /\ v # Evicted(u)
            BY <2>1, <2>3, <2>4 DEF CacheInv, ImagesTracked
        <3>2. \E k \in DOMAIN KeysAfter(u) : KeysAfter(u)[k] = v
            BY <3>1, KeysAfterTracked DEF CacheInv, Bounded
        <3> QED BY <2>1, <3>2 DEF Tracked
    <2> QED BY <1>2, <2>2, <2>3, <2>4 DEF ImagesTracked
<1> QED BY <1>1, <1>2 DEF CacheInv, TypeOK

LEMMA AnswerCacheInv ==
    ASSUME CacheInv, NEW d \in downloads, Answer(d)
    PROVE  CacheInv'
<1>1. /\ d.url \in URLs /\ d.task \in Tasks /\ d.again \in BOOLEAN
      /\ d.row \in Rows \cup {Detail} /\ downloads \subseteq Download
    BY DEF CacheInv, TypeOK, Download
<1>2. ASSUME NEW decodes \in BOOLEAN, Downloaded(d, decodes)
      PROVE  CacheInv'
    <2>1. connected' = connected /\ table' = table /\ cleared' = cleared
          /\ Save(d.url)
        BY <1>2 DEF Downloaded
    <2>2. /\ keys' \in Seq(URLs) /\ Len(keys') <= Cap /\ images' \subseteq URLs
          /\ (~connected' => images' = {}) /\ ImagesTracked'
        BY <1>1, <2>1, SaveCacheInv
    <2>3. downloads' \subseteq Download /\ face' \in [Rows -> Face]
          /\ duplicated' \in BOOLEAN
        <3>1. CASE decodes /\ Reloads(d)
            <4>1. table[d.row] \in URLs
                BY <1>1, <3>1 DEF Reloads, CacheInv, TypeOK
            <4> DEFINE other == ~d.again
            <4>2. other \in BOOLEAN
                OBVIOUS
            <4> HIDE DEF other
            <4>4. Request(d.row, table[d.row], images', d.task, other)
                      \subseteq Download
                BY <1>1, <4>1, <4>2, RequestType
            <4>3. FaceOf(table[d.row], images') \in Face
                BY DEF FaceOf, Face
            <4> QED BY <1>1, <1>2, <3>1, <4>3, <4>4
                    DEF other, Downloaded, StartWith, CacheInv, TypeOK
        <3>2. CASE ~(decodes /\ Reloads(d))
            BY <1>1, <1>2, <3>2 DEF Downloaded, CacheInv, TypeOK
        <3> QED BY <3>1, <3>2
    <2> QED BY <2>1, <2>2, <2>3 DEF CacheInv, TypeOK, Bounded
<1>3. CASE DownloadFailed(d)
    BY <1>1, <1>3
    DEF DownloadFailed, CacheInv, TypeOK, Bounded, ImagesTracked, Tracked
<1> QED BY <1>2, <1>3 DEF Answer

LEMMA UserCacheInv == CacheInv /\ User => CacheInv'
<1> SUFFICES ASSUME CacheInv, User PROVE CacheInv'
    OBVIOUS
<1> USE DEF CacheInv, Bounded, ImagesTracked, Tracked
<1>1. ASSUME NEW r \in Rows, NEW u \in URLs, NEW t \in FreeTasks,
             DisplayRow(r, u, t)
      PROVE  CacheInv'
    <2>1. Request(r, u, images, t, FALSE) \subseteq Download
        BY RequestType DEF FreeTasks
    <2>2. FaceOf(u, images) \in Face
        BY DEF FaceOf, Face
    <2> QED BY <1>1, <2>1, <2>2 DEF DisplayRow, StartWith, TypeOK
<1>2. ASSUME NEW r \in Rows, HideRow(r) PROVE CacheInv'
    BY <1>2 DEF HideRow, TypeOK, Face
<1>3. ASSUME NEW u \in URLs, NEW t \in FreeTasks, OpenDetail(u, t)
      PROVE  CacheInv'
    <2>1. Request(Detail, u, images, t, FALSE) \subseteq Download
        BY RequestType DEF FreeTasks
    <2> QED BY <1>3, <2>1 DEF OpenDetail, StartWith, TypeOK
<1>4. CASE SceneDisconnects
    BY <1>4 DEF SceneDisconnects, TypeOK, Face
<1>5. CASE SceneConnects
    BY <1>5 DEF SceneConnects, TypeOK
<1>6. CASE Relaunch
    BY <1>6, EmptyList DEF Relaunch, TypeOK, Face
<1> QED BY <1>1, <1>2, <1>3, <1>4, <1>5, <1>6 DEF User

LEMMA CacheInvAlways == Spec => []CacheInv
<1>1. Init => CacheInv
    BY EmptyList
    DEF Init, CacheInv, TypeOK, Bounded, ImagesTracked, Tracked, Face
<1>2. CacheInv /\ [Next]_vars => CacheInv'
    <2> SUFFICES ASSUME CacheInv, [Next]_vars PROVE CacheInv'
        OBVIOUS
    <2>1. CASE UNCHANGED vars
        BY <2>1 DEF vars, CacheInv, TypeOK, Bounded, ImagesTracked, Tracked
    <2> QED BY <2>1, UserCacheInv, AnswerCacheInv DEF Next
<1> QED BY <1>1, <1>2, PTL DEF Spec

\* Type correctness; the dictionary is empty whenever no scene is connected.
THEOREM CacheTypeCorrect == Spec => []TypeOK
<1>1. CacheInv => TypeOK
    BY DEF CacheInv
<1> QED BY CacheInvAlways, <1>1, PTL

\* Every image in the dictionary has a key in the list of keys and so will be
\* evicted when its key is the oldest.
THEOREM ImagesStayTracked == Spec => []ImagesTracked
<1>1. CacheInv => ImagesTracked
    BY DEF CacheInv
<1> QED BY CacheInvAlways, <1>1, PTL

\* A list has at least as many elements as the set of what it holds.
LEMMA TrackedSize ==
    ASSUME keys \in Seq(URLs)
    PROVE  IsFiniteSet(Tracked) /\ Cardinality(Tracked) <= Len(keys)
<1>1. DOMAIN keys = 1..Len(keys) /\ Len(keys) \in Nat
    OBVIOUS
<1>2. IsFiniteSet(1..Len(keys)) /\ Cardinality(1..Len(keys)) = Len(keys)
    BY <1>1, FS_Interval
<1>3. keys \in Surjection(1..Len(keys), Tracked)
    BY <1>1 DEF Tracked, Surjection
<1> QED BY <1>2, <1>3, FS_Surjection

\* Neither the list of keys nor the dictionary outgrows the cap, however many
\* downloads answer and in whatever order.
THEOREM CacheStaysBounded == Spec => []CacheBounded
<1>1. CacheInv => CacheBounded
    <2> SUFFICES ASSUME CacheInv PROVE CacheBounded
        OBVIOUS
    <2>1. IsFiniteSet(Tracked) /\ Cardinality(Tracked) <= Len(keys)
        BY TrackedSize DEF CacheInv, Bounded
    <2>2. Cardinality(images) <= Cardinality(Tracked)
          /\ Cardinality(images) \in Nat /\ Cardinality(Tracked) \in Nat
        BY <2>1, FS_Subset, FS_CardinalityType DEF CacheInv, ImagesTracked
    <2> QED BY <2>1, <2>2, CacheAssumption DEF CacheInv, Bounded, CacheBounded
<1> QED BY CacheInvAlways, <1>1, PTL

-----------------------------------------------------------------------------
(* Exactness.  What keeps list and dictionary equal is that a download in  *)
(* flight is the only one of its URL and the URL is not cached, so that a  *)
(* save always adds a new key.                                             *)

NoRepeat(s) == \A j, k \in DOMAIN s : s[j] = s[k] => j = k

DownloadsNew ==
    ~duplicated /\ ~cleared =>
        /\ \A d \in downloads : d.url \notin images
        /\ \A d, e \in downloads : d.url = e.url => d = e

ExactInv == CacheExact /\ DownloadsNew

\* Saving a URL that is not in the list keeps list and dictionary equal.
LEMMA SaveExact ==
    ASSUME CacheInv, NEW u \in URLs, Save(u), u \notin Tracked,
           images = Tracked, NoRepeat(keys)
    PROVE  /\ images' = Tracked' /\ NoRepeat(keys')
           /\ images' \subseteq images \cup {u}
<1>1. CASE ~connected
    BY <1>1 DEF Save, Tracked, NoRepeat
<1>2. CASE connected
    <2> DEFINE a == Append(keys, u)
               n == Len(keys)
    <2>1. /\ a \in Seq(URLs) /\ Len(a) = n + 1 /\ n \in Nat /\ a[n + 1] = u
          /\ DOMAIN a = 1..(n + 1) /\ DOMAIN keys = 1..n
          /\ \A k \in DOMAIN keys : a[k] = keys[k]
          /\ keys \in Seq(URLs) /\ n <= Cap
        BY AppendShape DEF CacheInv, Bounded
    <2>2. keys' = KeysAfter(u) /\ images' = (images \cup {u}) \ {Evicted(u)}
        BY <1>2 DEF Save
    <2>3. \A j, k \in 1..(n + 1) : a[j] = a[k] => j = k
        <3>1. \A j \in 1..n : a[j] \in Tracked /\ a[j] # u
            BY <2>1 DEF Tracked
        <3> QED BY <2>1, <3>1 DEF NoRepeat
    <2>4. \A k \in DOMAIN keys' : keys'[k] \in Tracked \cup {u}
        <3>1. \A k \in 1..(n + 1) : a[k] \in Tracked \cup {u}
            BY <2>1 DEF Tracked
        <3>2. CASE Overfull(u)
            <4>1. Len(keys') = n /\ keys' \in Seq(URLs)
                  /\ \A k \in 1..n : keys'[k] = a[k + 1]
                BY <2>1, <2>2, <3>2, KeysAfterShape
            <4> QED BY <2>1, <3>1, <4>1
        <3>3. CASE ~Overfull(u)
            BY <2>1, <2>2, <3>1, <3>3, KeysAfterShape
        <3> QED BY <3>2, <3>3
    <2>5. \A k \in DOMAIN keys' : keys'[k] # Evicted(u)
        <3>1. CASE Overfull(u)
            <4>1. Len(keys') = n /\ keys' \in Seq(URLs)
                  /\ \A k \in 1..n : keys'[k] = a[k + 1]
                BY <2>1, <2>2, <3>1, KeysAfterShape
            <4>2. Evicted(u) = a[1]
                BY <2>1, <3>1 DEF Evicted
            <4> QED BY <2>1, <2>3, <4>1, <4>2
        <3>2. CASE ~Overfull(u)
            <4>1. Evicted(u) = Blank /\ keys' \in Seq(URLs)
                BY <2>1, <2>2, <3>2, KeysAfterShape DEF Evicted
            <4> QED BY <4>1, CacheAssumption
        <3> QED BY <3>1, <3>2
    <2>6. \A v \in images' : v \in Tracked'
        <3> SUFFICES ASSUME NEW v \in images' PROVE v \in Tracked'
            OBVIOUS
        <3>1. v \in URLs /\ v \in Tracked \cup {u} /\ v # Evicted(u)
            BY <2>2 DEF CacheInv, TypeOK
        <3>2. \E k \in DOMAIN KeysAfter(u) : KeysAfter(u)[k] = v
            BY <2>1, <3>1, KeysAfterTracked
        <3> QED BY <2>2, <3>2 DEF Tracked
    <2>7. \A v \in Tracked' : v \in images'
        BY <2>2, <2>4, <2>5 DEF Tracked
    <2>8. NoRepeat(keys')
        <3>1. CASE Overfull(u)
            <4>1. Len(keys') = n /\ keys' \in Seq(URLs)
                  /\ \A k \in 1..n : keys'[k] = a[k + 1]
                BY <2>1, <2>2, <3>1, KeysAfterShape
            <4>2. DOMAIN keys' = 1..n
                BY <4>1
            <4>3. \A j, k \in 1..n : a[j + 1] = a[k + 1] => j = k
                BY <2>1, <2>3
            <4> QED BY <4>1, <4>2, <4>3 DEF NoRepeat
        <3>2. CASE ~Overfull(u)
            <4>1. keys' = a
                BY <2>1, <2>2, <3>2, KeysAfterShape
            <4> QED BY <2>1, <2>3, <4>1 DEF NoRepeat
        <3> QED BY <3>1, <3>2
    <2> QED BY <2>2, <2>6, <2>7, <2>8
<1> QED BY <1>1, <1>2 DEF CacheInv, TypeOK

\* A cell's new request keeps the downloads apart, or is recorded.
LEMMA StartExact ==
    ASSUME NEW others, NEW new, NEW cached, StartWith(others, new),
           ~duplicated', \A e \in new : e.url \notin cached,
           \A e, f \in new : e = f,
           \A d \in others : d.url \notin cached,
           \A d, e \in others : d.url = e.url => d = e
    PROVE  /\ ~duplicated
           /\ \A d \in downloads' : d.url \notin cached
           /\ \A d, e \in downloads' : d.url = e.url => d = e
    BY DEF StartWith

LEMMA ExactStep == CacheInv /\ ExactInv /\ [Next]_vars => ExactInv'
<1> SUFFICES ASSUME CacheInv, ExactInv, [Next]_vars,
                    ~duplicated', ~cleared'
             PROVE  /\ images' = Tracked' /\ NoRepeat(keys')
                    /\ \A d \in downloads' : d.url \notin images'
                    /\ \A d, e \in downloads' : d.url = e.url => d = e
    BY DEF ExactInv, CacheExact, DownloadsNew, NoRepeat
<1> DEFINE Goal == /\ images' = Tracked' /\ NoRepeat(keys')
                   /\ \A d \in downloads' : d.url \notin images'
                   /\ \A d, e \in downloads' : d.url = e.url => d = e
<1>1. ASSUME ~duplicated, ~cleared
      PROVE  /\ images = Tracked /\ NoRepeat(keys)
             /\ \A d \in downloads : d.url \notin images
             /\ \A d, e \in downloads : d.url = e.url => d = e
    BY <1>1 DEF ExactInv, CacheExact, DownloadsNew, NoRepeat
<1>2. ASSUME NEW row \in Rows \cup {Detail}, NEW u \in URLs, NEW t \in FreeTasks,
             StartWith(downloads, Request(row, u, images, t, FALSE)),
             UNCHANGED <<images, keys, cleared>>
      PROVE  Goal
    <2>1. ~duplicated /\ ~cleared /\ t \in Tasks
        BY <1>2 DEF StartWith, FreeTasks
    <2>2. /\ \A e \in Request(row, u, images, t, FALSE) : e.url \notin images
          /\ \A e, f \in Request(row, u, images, t, FALSE) : e = f
        <3> DEFINE q == [row |-> row, url |-> u, task |-> t, again |-> FALSE]
        <3>1. q.url = u
            OBVIOUS
        <3>2. /\ Request(row, u, images, t, FALSE) \subseteq {q}
              /\ u \in images => Request(row, u, images, t, FALSE) = {}
            BY DEF Request
        <3> HIDE DEF q
        <3> QED BY <3>1, <3>2
    <2>3. /\ \A d \in downloads' : d.url \notin images
          /\ \A d, e \in downloads' : d.url = e.url => d = e
        BY <1>1, <1>2, <2>1, <2>2, StartExact
    <2>4. images' = Tracked' /\ NoRepeat(keys')
        BY <1>1, <1>2, <2>1 DEF Tracked
    <2> QED BY <1>2, <2>3, <2>4
<1>3. ASSUME downloads' \subseteq downloads,
             UNCHANGED <<images, keys, duplicated, cleared>>
      PROVE  Goal
    BY <1>1, <1>3 DEF Tracked
<1>4. ASSUME SceneDisconnects PROVE Goal
    BY <1>4 DEF SceneDisconnects
<1>5. ASSUME Relaunch PROVE Goal
    BY <1>5 DEF Relaunch, Tracked, NoRepeat
<1>6. ASSUME NEW d \in downloads, NEW decodes \in BOOLEAN, Downloaded(d, decodes)
      PROVE  Goal
    <2>1. /\ d.url \in URLs /\ d.task \in Tasks /\ d.again \in BOOLEAN
          /\ d.row \in Rows \cup {Detail}
        BY DEF CacheInv, TypeOK, Download
    <2>2. ~duplicated /\ ~cleared /\ Save(d.url)
        BY <1>6 DEF Downloaded, StartWith
    <2>3. d.url \notin Tracked /\ images = Tracked /\ NoRepeat(keys)
        BY <1>1, <2>2
    <2>4. images' = Tracked' /\ NoRepeat(keys')
          /\ images' \subseteq images \cup {d.url}
        BY <2>1, <2>2, <2>3, SaveExact
    <2> DEFINE others == downloads \ {d}
    <2>5. /\ \A e \in others : e.url \notin images'
          /\ \A e, f \in others : e.url = f.url => e = f
        BY <1>1, <2>2, <2>4
    <2>6. CASE decodes /\ Reloads(d)
        <3> DEFINE again == ~d.again
                   new == Request(d.row, table[d.row], images', d.task, again)
        <3>1. table[d.row] \in URLs
            BY <2>1, <2>6 DEF Reloads, CacheInv, TypeOK
        <3>2. again \in BOOLEAN
            OBVIOUS
        <3>3. StartWith(others, new)
            BY <1>6, <2>6 DEF Downloaded
        <3> HIDE DEF again
        <3>4. /\ \A e \in new : e.url \notin images'
              /\ \A e, f \in new : e = f
            BY <2>1, <3>1, <3>2, RequestType
        <3> HIDE DEF new, others
        <3>5. /\ \A e \in downloads' : e.url \notin images'
              /\ \A e, f \in downloads' : e.url = f.url => e = f
            BY <2>5, <3>3, <3>4 DEF StartWith
        <3> QED BY <2>4, <3>5
    <2>7. CASE ~(decodes /\ Reloads(d))
        <3>1. downloads' = others
            BY <1>6, <2>7 DEF Downloaded
        <3> HIDE DEF others
        <3> QED BY <2>4, <2>5, <3>1
    <2> QED BY <2>6, <2>7
<1>7. ASSUME NEW r \in Rows, HideRow(r) PROVE Goal
    BY <1>3, <1>7 DEF HideRow
<1>8. ASSUME SceneConnects PROVE Goal
    BY <1>3, <1>8 DEF SceneConnects
<1>9. ASSUME NEW d \in downloads, DownloadFailed(d) PROVE Goal
    BY <1>3, <1>9 DEF DownloadFailed
<1>10. ASSUME UNCHANGED vars PROVE Goal
    BY <1>3, <1>10 DEF vars
<1>11. ASSUME NEW r \in Rows, NEW u \in URLs, NEW t \in FreeTasks,
              DisplayRow(r, u, t)
       PROVE  Goal
    BY <1>2, <1>11 DEF DisplayRow
<1>12. ASSUME NEW u \in URLs, NEW t \in FreeTasks, OpenDetail(u, t) PROVE Goal
    BY <1>2, <1>12 DEF OpenDetail
<1> HIDE DEF Goal
<1>13. ASSUME User PROVE Goal
    BY <1>4, <1>5, <1>7, <1>8, <1>11, <1>12, <1>13 DEF User
<1>14. ASSUME NEW d \in downloads, Answer(d) PROVE Goal
    BY <1>6, <1>9, <1>14 DEF Answer
<1>15. Goal
    BY <1>10, <1>13, <1>14 DEF Next
<1> QED BY <1>15 DEF Goal

\* As long as no two downloads of a URL overlap and no scene ends, the list of
\* keys is exactly the dictionary, without a repeat.
THEOREM CacheStaysExact == Spec => []CacheExact
<1>1. Init => ExactInv
    BY DEF Init, ExactInv, CacheExact, DownloadsNew, Tracked
<1>2. CacheInv /\ ExactInv /\ [Next]_vars => ExactInv'
    BY ExactStep
<1>3. ExactInv => CacheExact
    BY DEF ExactInv
<1> QED BY CacheInvAlways, <1>1, <1>2, <1>3, PTL DEF Spec
-----------------------------------------------------------------------------
(* What one save may cost.                                                 *)

\* Only the oldest key can lose its image, and only when there is one; the list
\* ends with the key just saved.
LEMMA SaveEvicts ==
    ASSUME NEW u \in URLs, keys \in Seq(URLs), Len(keys) <= Cap
    PROVE  /\ \/ Evicted(u) = Blank
              \/ /\ keys # <<>> /\ Evicted(u) = Head(keys)
                 /\ Head(keys) \in Tracked
           /\ KeysAfter(u)[Len(KeysAfter(u))] = u
<1> DEFINE a == Append(keys, u)
<1>1. /\ a \in Seq(URLs) /\ Len(a) = Len(keys) + 1 /\ Len(keys) \in Nat
      /\ a[Len(keys) + 1] = u /\ DOMAIN keys = 1..Len(keys)
      /\ \A k \in DOMAIN keys : a[k] = keys[k]
    BY AppendShape
<1>2. Overfull(u) <=> Len(a) > Cap
    BY DEF Overfull
<1>3. Evicted(u) = IF Overfull(u) THEN Head(a) ELSE Blank
    BY DEF Evicted
<1> HIDE DEF a
<1>4. CASE ~Overfull(u)
    <2>1. KeysAfter(u) = a
        BY <1>4, KeysAfterShape DEF a
    <2> QED BY <1>1, <1>3, <1>4, <2>1
<1>5. CASE Overfull(u)
    <2>1. Len(keys) >= 1 /\ keys # <<>> /\ 1 \in DOMAIN keys
        BY <1>1, <1>2, <1>5, CacheAssumption
    <2>2. Head(a) = a[1] /\ Head(keys) = keys[1]
        BY <1>1, <2>1
    <2>3. /\ Len(KeysAfter(u)) = Len(keys)
          /\ KeysAfter(u)[Len(keys)] = a[Len(keys) + 1]
        <3>1. Len(keys) \in 1..Len(keys)
            BY <1>1, <2>1
        <3> QED BY <1>5, <3>1, KeysAfterShape DEF a
    <2> QED BY <1>1, <1>3, <1>5, <2>1, <2>2, <2>3 DEF Tracked
<1> QED BY <1>4, <1>5

LEMMA FifoStep ==
    ASSUME CacheInv, [Next]_vars, keys' # keys, keys' # <<>>
    PROVE  /\ \A u \in images \ images' : keys # <<>> /\ u = Head(keys)
           /\ LET u == keys'[Len(keys')] IN u \notin Tracked => u \in images'
<1>1. PICK d \in downloads : Save(d.url) /\ connected
    <2>1. \E d \in downloads, decodes \in BOOLEAN : Downloaded(d, decodes)
        BY DEF Next, vars, User, DisplayRow, HideRow, OpenDetail,
               SceneDisconnects, SceneConnects, Relaunch, Answer, DownloadFailed
    <2> QED BY <2>1 DEF Downloaded, Save
<1> DEFINE u == d.url
<1>2. /\ keys' = KeysAfter(u) /\ images' = (images \cup {u}) \ {Evicted(u)}
      /\ u \in URLs /\ images \subseteq URLs
    BY <1>1 DEF Save, CacheInv, TypeOK, Download
<1> HIDE DEF u
<1>3. /\ \/ Evicted(u) = Blank
         \/ keys # <<>> /\ Evicted(u) = Head(keys) /\ Head(keys) \in Tracked
      /\ keys'[Len(keys')] = u
    BY <1>2, SaveEvicts DEF CacheInv, Bounded
<1> QED BY <1>2, <1>3, CacheAssumption

\* A save costs at most the image of the oldest key, and an image whose key was
\* not in the list is there afterwards.
THEOREM SavesAreFifo == Spec => SaveIsFifo
<1>1. CacheInv /\ [Next]_vars =>
          [keys' # keys /\ keys' # <<>> =>
              /\ \A u \in images \ images' : keys # <<>> /\ u = Head(keys)
              /\ LET u == keys'[Len(keys')] IN u \notin Tracked => u \in images'
          ]_vars
    BY FifoStep
<1> QED BY CacheInvAlways, <1>1, PTL DEF Spec, SaveIsFifo
=============================================================================
