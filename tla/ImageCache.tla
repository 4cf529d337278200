------------------------------ MODULE ImageCache ------------------------------
(***************************************************************************)
(* APIManager.Downloader and the cells that use it: a dictionary of image  *)
(* data in UserDefaults ("dataImages"), the list of its keys in memory     *)
(* (dataImageKeys), and the rows on display, each of which asks for its    *)
(* image when it is laid out without one.  The dictionary and the list are *)
(* updated apart: several downloads of one URL may be in flight, and the   *)
(* end of a scene empties the dictionary but not the list.                 *)
(***************************************************************************)
EXTENDS Naturals, Sequences, FiniteSets

CONSTANTS
    URLs,     \* image addresses
    BadURLs,  \* those URL(string:) rejects, "" among them: never requested
    Rows,     \* row positions of the tables on display
    Detail,   \* the image view of a detail screen: filled once, not reloaded
    Blank,    \* no article at this row
    Cap,      \* the most keys kept (60 in the code)
    Tasks     \* bound: image downloads in flight at once

ASSUME CacheAssumption ==
    /\ BadURLs \subseteq URLs
    /\ Detail \notin Rows
    /\ Blank \notin URLs
    /\ Cap \in Nat \ {0}

VARIABLES
    connected,   \* the scene is connected; "dataImages" exists just then
    images,      \* the keys of dataImages
    keys,        \* dataImageKeys, oldest first
    table,       \* per row: the image address of its article, or Blank
    face,        \* per row: what its image view shows
    downloads,   \* the image downloads in flight
    \* History, read by no action:
    duplicated,  \* two downloads of one URL were in flight together
    cleared      \* the dictionary was emptied under a list with keys

vars == <<connected, images, keys, table, face, downloads, duplicated, cleared>>

\* A download started by the answer to another differs from it in again.
Download == [row : Rows \cup {Detail}, url : URLs, task : Tasks, again : BOOLEAN]
Face == {"blank", "default", "picture"}
Tracked == {keys[k] : k \in DOMAIN keys}

Init ==
    /\ connected = TRUE
    /\ images = {}
    /\ keys = <<>>
    /\ table = [r \in Rows |-> Blank]
    /\ face = [r \in Rows |-> "blank"]
    /\ downloads = {}
    /\ duplicated = FALSE
    /\ cleared = FALSE

-----------------------------------------------------------------------------
(* configSaveImage.                                                        *)

\* Mutant: the cap is checked before the new key is counted.
OverfullByOne(u) == Len(keys) > Cap
Overfull(u) == Len(Append(keys, u)) > Cap

KeysAfter(u) ==
    IF Overfull(u) THEN Tail(Append(keys, u)) ELSE Append(keys, u)

\* Mutant: the image just saved is the one that goes.
EvictNewest(u) == IF Overfull(u) THEN u ELSE Blank
\* The key whose image goes, if any.
Evicted(u) == IF Overfull(u) THEN Head(Append(keys, u)) ELSE Blank

\* Mutant: the dictionary is written although it was removed.
SaveAnyway(u) ==
    /\ keys' = KeysAfter(u)
    /\ images' = (images \cup {u}) \ {Evicted(u)}
\* Mutant: a full cache starts afresh.
SaveFlushing(u) ==
    IF connected
    THEN /\ keys' = IF Overfull(u) THEN <<u>> ELSE Append(keys, u)
         /\ images' = IF Overfull(u) THEN {u} ELSE images \cup {u}
    ELSE UNCHANGED <<keys, images>>
\* Without the dictionary nothing is saved.
Save(u) ==
    IF connected
    THEN /\ keys' = KeysAfter(u)
         /\ images' = (images \cup {u}) \ {Evicted(u)}
    ELSE UNCHANGED <<keys, images>>

-----------------------------------------------------------------------------
(* updateUI of a cell: the cached picture, or the placeholder and a        *)
(* download.                                                               *)

FaceOf(u, cached) == IF u \in cached THEN "picture" ELSE "default"

\* Mutant: a cached image is downloaded all the same.
AlwaysRequest(row, u, cached, t, again) ==
    IF u \in BadURLs THEN {}
    ELSE {[row |-> row, url |-> u, task |-> t, again |-> again]}
Request(row, u, cached, t, again) ==
    IF u \in cached \/ u \in BadURLs THEN {}
    ELSE {[row |-> row, url |-> u, task |-> t, again |-> again]}

FreeTasks == Tasks \ {d.task : d \in downloads}

\* The downloads become the given ones together with a cell's new request.
StartWith(others, new) ==
    /\ downloads' = others \cup new
    /\ duplicated' = (duplicated
                      \/ \E d \in others, e \in new : d.url = e.url)

\* A cell is laid out: the row scrolls into view, or its list was reloaded.
DisplayRow(r, u, t) ==
    /\ connected
    /\ table' = [table EXCEPT ![r] = u]
    /\ face' = [face EXCEPT ![r] = FaceOf(u, images)]
    /\ StartWith(downloads, Request(r, u, images, t, FALSE))
    /\ UNCHANGED <<connected, images, keys, cleared>>

\* The row leaves the table.
HideRow(r) ==
    /\ table[r] # Blank
    /\ table' = [table EXCEPT ![r] = Blank]
    /\ face' = [face EXCEPT ![r] = "blank"]
    /\ UNCHANGED <<connected, images, keys, downloads, duplicated, cleared>>

\* NewsDetailViewController.configUI.
OpenDetail(u, t) ==
    /\ connected
    /\ StartWith(downloads, Request(Detail, u, images, t, FALSE))
    /\ UNCHANGED <<connected, images, keys, table, face, cleared>>

\* The scene goes away with its tables; clearImageData leaves the keys.
SceneDisconnects ==
    /\ connected
    /\ connected' = FALSE
    /\ images' = {}
    /\ table' = [r \in Rows |-> Blank]
    /\ face' = [r \in Rows |-> "blank"]
    /\ cleared' = TRUE
    /\ UNCHANGED <<keys, downloads, duplicated>>

\* A new scene, whose HomeViewController calls configImageDataStorage.
SceneConnects ==
    /\ ~connected
    /\ connected' = TRUE
    /\ UNCHANGED <<images, keys, table, face, downloads, duplicated, cleared>>

\* The process ends: the keys go with it, and the next launch starts with an
\* empty dictionary whatever UserDefaults held.
Relaunch ==
    /\ connected' = TRUE
    /\ images' = {}
    /\ keys' = <<>>
    /\ table' = [r \in Rows |-> Blank]
    /\ face' = [r \in Rows |-> "blank"]
    /\ downloads' = {}
    /\ duplicated' = FALSE
    /\ cleared' = FALSE

-----------------------------------------------------------------------------
(* The completion of a download.                                           *)

\* The data is saved; if it makes an image and the row still has an article,
\* the row is reloaded, which lays its cell out again.
Reloads(d) == d.row \in Rows /\ table[d.row] # Blank

Downloaded(d, decodes) ==
    /\ Save(d.url)
    /\ IF decodes /\ Reloads(d)
       THEN /\ face' = [face EXCEPT ![d.row] = FaceOf(table[d.row], images')]
            /\ StartWith(downloads \ {d},
                         Request(d.row, table[d.row], images', d.task, ~d.again))
       ELSE /\ downloads' = downloads \ {d}
            /\ UNCHANGED <<face, duplicated>>
    /\ UNCHANGED <<connected, table, cleared>>

DownloadFailed(d) ==
    /\ downloads' = downloads \ {d}
    /\ UNCHANGED <<connected, images, keys, table, face, duplicated, cleared>>

Answer(d) ==
    \/ \E decodes \in BOOLEAN : Downloaded(d, decodes)
    \/ DownloadFailed(d)

User ==
    \/ \E r \in Rows, u \in URLs, t \in FreeTasks : DisplayRow(r, u, t)
    \/ \E r \in Rows : HideRow(r)
    \/ \E u \in URLs, t \in FreeTasks : OpenDetail(u, t)
    \/ SceneDisconnects
    \/ SceneConnects
    \/ Relaunch

Next ==
    \/ User
    \/ \E d \in downloads : Answer(d)

Spec == Init /\ [][Next]_vars

\* Every URLSession task ends.
FairSpec == Spec /\ \A t \in Tasks :
                WF_vars(\E d \in downloads : d.task = t /\ Answer(d))

-----------------------------------------------------------------------------
(* Properties.                                                             *)

\* Without a connected scene there is no dictionary to hold an image.
TypeOK ==
    /\ connected \in BOOLEAN
    /\ images \subseteq URLs
    /\ ~connected => images = {}
    /\ keys \in Seq(URLs)
    /\ table \in [Rows -> URLs \cup {Blank}]
    /\ face \in [Rows -> Face]
    /\ downloads \subseteq Download
    /\ duplicated \in BOOLEAN
    /\ cleared \in BOOLEAN

\* Neither the list nor the dictionary outgrows the cap, however many downloads
\* answer in whatever order.
CacheBounded == Len(keys) <= Cap /\ Cardinality(images) <= Cap

\* Every image in the dictionary has a key in the list, so none stays for ever
\* for want of being evicted.
ImagesTracked == images \subseteq Tracked

\* As long as no two downloads of a URL overlapped and no scene ended, the list
\* is exactly the dictionary, without a repeat.
CacheExact ==
    ~duplicated /\ ~cleared =>
        /\ images = Tracked
        /\ \A j, k \in DOMAIN keys : keys[j] = keys[k] => j = k

\* A save costs at most the image of the oldest key, and an image whose key was
\* not in the list is there afterwards.
SaveIsFifo ==
    [][keys' # keys /\ keys' # <<>> =>
           /\ \A u \in images \ images' : keys # <<>> /\ u = Head(keys)
           /\ LET u == keys'[Len(keys')] IN u \notin Tracked => u \in images'
      ]_vars

\* When the user stops, downloads come to an end: reloading a row with a fresh
\* image does not download it again for ever.  Not claimed after overlapping
\* downloads or a disconnected scene, when an old key can evict a new image.
DownloadsSettle ==
    (<>[][~User]_vars /\ [](~duplicated /\ ~cleared)) => <>[](downloads = {})
=============================================================================
