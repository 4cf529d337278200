------------------------------- MODULE Settings -------------------------------
(***************************************************************************)
(* The settings of the sub tabs: SettingManager, which keeps them in       *)
(* UserDefaults as raw values, and the screen that changes them,           *)
(* SettingSubTabsViewModel and SettingSubTabsViewController with its       *)
(* cells.  Everything runs on the main thread; what can go wrong is in     *)
(* the way from the cells to the raw values and back, over reopened        *)
(* screens and launches, and in what the News tab is built from.           *)
(***************************************************************************)
EXTENDS SubTabs

CONSTANT RawValue  \* CategoryType.rawValue: not the order of allCases

ASSUME RawValueAssumption ==
    /\ DOMAIN RawValue = Category
    /\ \A c, d \in Category : RawValue[c] = RawValue[d] => c = d

VARIABLES
    stored,  \* the array in UserDefaults, if there is one
    tabs,    \* the categories the News tab was last built from
    cells,   \* the screen's cells: isEnable per category; empty while closed
    alert,   \* the alert on the screen
    \* History, read by no action:
    chosen,  \* the categories enabled when Save last changed the settings
    toggled  \* a cell was changed since the screen opened

vars == <<stored, tabs, cells, alert, chosen, toggled>>

NoKey == [present |-> FALSE, array |-> <<>>]
Closed == <<>>
Open == cells # Closed

-----------------------------------------------------------------------------
(* SettingManager.categories.                                              *)

\* Mutant: a stored value is taken for a place in allCases.
DecodedByPlace(raw) == AllCases[raw + 1]
\* CategoryType(rawValue:).
Decoded(raw) == CHOOSE c \in Category : RawValue[c] = raw

Get(value) ==
    IF value.present
    THEN [k \in DOMAIN value.array |-> Decoded(value.array[k])]
    ELSE AllCases
Encoded(list) ==
    [present |-> TRUE, array |-> [k \in DOMAIN list |-> RawValue[list[k]]]]

Categories == Get(stored)

Members(list) == {list[k] : k \in DOMAIN list}

-----------------------------------------------------------------------------
(* The screen.                                                             *)

Init ==
    /\ stored = NoKey
    /\ tabs = Categories
    /\ cells = Closed
    /\ alert = "none"
    /\ chosen = Category
    /\ toggled = FALSE

\* Mutant: the stored choice is not looked at.
AllActive(c) == TRUE
GetIsActive(c) == c \in Pinned \/ c \in Members(Categories)

\* getAllCellViewModel, when the screen is pushed.
OpenScreen ==
    /\ ~Open
    /\ cells' = [c \in Category |-> GetIsActive(c)]
    /\ toggled' = FALSE
    /\ UNCHANGED <<stored, tabs, alert, chosen>>

\* Mutant: the check button of every cell works.
MayChangeAny(c) == TRUE
\* checkButtonTouchUpInside.
MayChange(c) == c \notin Pinned

ChangeStatus(c) ==
    /\ Open
    /\ alert = "none"
    /\ MayChange(c)
    /\ cells' = [cells EXCEPT ![c] = ~@]
    /\ toggled' = TRUE
    /\ UNCHANGED <<stored, tabs, alert, chosen>>

\* The enabled cells, in the order of the cells.
Enabled == {c \in Category : cells[c]}
\* What the first k cells append.
Selected[k \in 0..Len(AllCases)] ==
    IF k = 0 THEN <<>>
    ELSE IF cells[AllCases[k]] THEN Append(Selected[k - 1], AllCases[k])
    ELSE Selected[k - 1]
CategoriesSelected == Selected[Len(AllCases)]

\* Mutant: as many sub tabs as before count as no change.
Duplicated == Len(CategoriesSelected) = Len(Categories)
\* elementsEqual.
Unchanged == CategoriesSelected = Categories

SaveDuplicated ==
    /\ Open
    /\ alert = "none"
    /\ Unchanged
    /\ alert' = "again"
    /\ UNCHANGED <<stored, tabs, cells, chosen, toggled>>

\* Mutant: the News tab is told before the choice is stored.
RebuiltBefore == tabs' = Categories
\* fetchDataSetting runs within the post, after the choice was stored.
Rebuilt == tabs' = Get(stored')

SaveSettingSubTabs ==
    /\ Open
    /\ alert = "none"
    /\ ~Unchanged
    /\ stored' = Encoded(CategoriesSelected)
    /\ Rebuilt
    /\ alert' = "saved"
    /\ chosen' = Enabled
    /\ UNCHANGED <<cells, toggled>>

\* Ok after a save leaves the screen.
OkSaved ==
    /\ alert = "saved"
    /\ alert' = "none"
    /\ cells' = Closed
    /\ UNCHANGED <<stored, tabs, chosen, toggled>>

OkAgain ==
    /\ alert = "again"
    /\ alert' = "none"
    /\ UNCHANGED <<stored, tabs, cells, chosen, toggled>>

\* Going back without saving.
Back ==
    /\ Open
    /\ alert = "none"
    /\ cells' = Closed
    /\ UNCHANGED <<stored, tabs, alert, chosen, toggled>>

\* The process ends and starts again.
Relaunch ==
    /\ tabs' = Categories
    /\ cells' = Closed
    /\ alert' = "none"
    /\ UNCHANGED <<stored, chosen, toggled>>

Next ==
    \/ OpenScreen
    \/ \E c \in Category : ChangeStatus(c)
    \/ SaveDuplicated
    \/ SaveSettingSubTabs
    \/ OkSaved
    \/ OkAgain
    \/ Back
    \/ Relaunch

Spec == Init /\ [][Next]_vars

-----------------------------------------------------------------------------
(* Properties.                                                             *)

\* Nobody tells another choice than the settings: the News tab, whose arrays are
\* indexed by the categories read live, is built from them as they are; a screen
\* just opened shows what was last saved, by this process or an earlier one; and
\* when Save reports a change or a duplicate they are the cells on the screen.
AllTellSettings ==
    /\ tabs = Categories
    /\ Open /\ ~toggled => Enabled = chosen
    /\ alert # "none" => Members(Categories) = Enabled

SubTabsOf == INSTANCE SubTabsChoice WITH categories <- Categories

\* The settings change as SubTabsChoice says: a list of sub tabs in the order of
\* allCases, the pinned ones always there, and only by a save.
ImplementsSubTabs == SubTabsOf!Spec
=============================================================================
