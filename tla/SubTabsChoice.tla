----------------------------- MODULE SubTabsChoice -----------------------------
(***************************************************************************)
(* What the News tab may rely on: the sub tabs are all categories at       *)
(* first, and each save replaces them by another selection.                *)
(***************************************************************************)
EXTENDS SubTabs

VARIABLE categories

Init == categories = AllCases

Save ==
    /\ categories' \in Selections
    /\ categories' # categories

Spec == Init /\ [][Save]_categories
=============================================================================
