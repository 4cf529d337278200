-------------------------------- MODULE SubTabs --------------------------------
(***************************************************************************)
(* The sub tabs of the News tab: which lists of categories the settings    *)
(* screen can save.  Settings shows that it saves no other; HomeFeed       *)
(* builds the tab from any of them.                                        *)
(***************************************************************************)
EXTENDS Naturals, Sequences

CONSTANTS
    AllCases,  \* CategoryType.allCases, in its order
    Pinned     \* the sub tabs that cannot be switched off (.us, .health)

Category == {AllCases[k] : k \in DOMAIN AllCases}

ASSUME SubTabsAssumption ==
    /\ AllCases \in Seq(Category)
    /\ \A j, k \in DOMAIN AllCases : AllCases[j] = AllCases[k] => j = k
    /\ Pinned \subseteq Category /\ Pinned # {}

\* Mutant: the pinned sub tabs can be switched off.
UnpinnedSelections ==
    {s \in UNION {[1..n -> Category] : n \in 1..Len(AllCases)} :
        \A j, k \in DOMAIN s : j < k =>
            \E a, b \in DOMAIN AllCases :
                a < b /\ s[j] = AllCases[a] /\ s[k] = AllCases[b]}

\* What the settings screen can save: a subsequence of allCases that keeps the
\* pinned categories.
Selections ==
    {s \in UNION {[1..n -> Category] : n \in 1..Len(AllCases)} :
        /\ \A c \in Pinned : \E k \in DOMAIN s : s[k] = c
        /\ \A j, k \in DOMAIN s : j < k =>
               \E a, b \in DOMAIN AllCases :
                   a < b /\ s[j] = AllCases[a] /\ s[k] = AllCases[b]}
=============================================================================
