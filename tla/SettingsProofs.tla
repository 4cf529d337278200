---------------------------- MODULE SettingsProofs ----------------------------
(***************************************************************************)
(* The settings of the sub tabs for any list of categories, any of them    *)
(* pinned, and any raw values that tell them apart.                        *)
(***************************************************************************)
EXTENDS Settings, WellFoundedInduction, TLAPS

-----------------------------------------------------------------------------
(* What Save selects.                                                      *)

\* A set of numbers has a least one.
LEMMA LeastNumber ==
    ASSUME NEW T \in SUBSET Nat, T # {}
    PROVE  \E x \in T : \A y \in T : x <= y
<1> DEFINE R == OpToRel(<, Nat)
<1>1. IsWellFoundedOn(R, Nat)
  BY NatLessThanWellFounded
<1>2. \A x, y \in Nat : x < y => <<x, y>> \in R
  BY DEF OpToRel
<1> HIDE DEF R
<1>3. PICK x \in T : \A y \in T : ~(<<y, x>> \in R)
  BY <1>1, WFMin
<1>4. \A y \in T : y \in Nat /\ x \in Nat /\ ~(y < x)
  BY <1>2, <1>3
<1> QED
  BY <1>4

\* One more cell.
Appended(list, k) == IF cells[AllCases[k]] THEN Append(list, AllCases[k]) ELSE list

\* g is what the first cells append, up to n of them.
Appends(g, n) == g = [k \in 0..n |-> IF k = 0 THEN <<>> ELSE Appended(g[k - 1], k)]

\* Appending cell by cell defines a list: were there a first number of cells for
\* which it did not, the cells before it would have one.
LEMMA AppendsExist ==
    ASSUME NEW n \in Nat PROVE \E g : Appends(g, n)
<1> SUFFICES ASSUME ~\E g : Appends(g, n) PROVE FALSE
  OBVIOUS
<1> DEFINE T == {m \in Nat : ~\E g : Appends(g, m)}
<1>1. T \in SUBSET Nat /\ n \in T
  OBVIOUS
<1>2. PICK m \in T : \A y \in T : m <= y
  BY <1>1, LeastNumber
<1>3. m \in Nat /\ ~\E g : Appends(g, m)
  OBVIOUS
<1>4. m # 0
  <2> SUFFICES ASSUME m = 0 PROVE FALSE
    OBVIOUS
  <2> DEFINE g == [k \in 0..0 |-> <<>>]
  <2>1. \A k \in 0..0 : k = 0
    OBVIOUS
  <2>2. Appends(g, 0)
    BY <2>1 DEF Appends
  <2> QED
    BY <1>3, <2>2
<1>5. m - 1 \in Nat /\ m - 1 \notin T
  BY <1>2, <1>3, <1>4
<1>6. PICK g : Appends(g, m - 1)
  BY <1>5
<1> DEFINE h == [k \in 0..m |-> IF k = m THEN Appended(g[m - 1], m) ELSE g[k]]
<1>7. ASSUME NEW k \in 0..m
      PROVE  h[k] = IF k = 0 THEN <<>> ELSE Appended(h[k - 1], k)
  <2>1. CASE k = m
    <3>1. m - 1 \in 0..m /\ m - 1 # m
      BY <1>3, <1>4
    <3>2. h[k] = Appended(g[m - 1], m) /\ h[m - 1] = g[m - 1]
      BY <2>1, <3>1
    <3> QED
      BY <1>4, <2>1, <3>2
  <2>2. CASE k # m
    <3>1. k \in 0..(m - 1) /\ (k # 0 => k - 1 \in 0..m /\ k - 1 # m)
      BY <1>3, <1>7, <2>2
    <3>2. h[k] = g[k] /\ (k # 0 => h[k - 1] = g[k - 1])
      BY <1>7, <2>2, <3>1
    <3>3. g[k] = IF k = 0 THEN <<>> ELSE Appended(g[k - 1], k)
      BY <1>6, <3>1 DEF Appends
    <3> QED
      BY <3>2, <3>3
  <2> QED
    BY <2>1, <2>2
<1>8. Appends(h, m)
  <2>1. h = [k \in 0..m |-> h[k]]
    OBVIOUS
  <2> HIDE DEF h
  <2> QED
    BY <1>7, <2>1 DEF Appends
<1> QED
  BY <1>3, <1>8

LEMMA SelectedAppends ==
    /\ Selected[0] = <<>>
    /\ \A k \in 1..Len(AllCases) : Selected[k] = Appended(Selected[k - 1], k)
<1> DEFINE N == Len(AllCases)
<1>1. N \in Nat
  BY SubTabsAssumption
<1>2. \E g : Appends(g, N)
  BY <1>1, AppendsExist
<1>3. Selected = CHOOSE g : Appends(g, N)
  BY Zenon DEF Selected, Appends, Appended
<1>4. Appends(Selected, N)
  BY <1>2, <1>3, Zenon
<1> HIDE DEF N
<1>5. \A k \in 0..N : Selected[k] = IF k = 0 THEN <<>> ELSE Appended(Selected[k - 1], k)
  BY <1>4 DEF Appends
<1> QED
  BY <1>1, <1>5 DEF N

\* list holds the enabled ones among the first k categories, in their order.
IsSelected(list, k) ==
    /\ list \in Seq(Category) /\ Len(list) <= k
    /\ \A i \in 1..Len(list) :
          \E a \in 1..k : list[i] = AllCases[a] /\ cells[AllCases[a]]
    /\ \A a \in 1..k : cells[AllCases[a]] =>
          \E i \in 1..Len(list) : list[i] = AllCases[a]
    /\ \A i, j \in 1..Len(list) : i < j =>
          \E a, b \in 1..k : a < b /\ list[i] = AllCases[a] /\ list[j] = AllCases[b]

LEMMA AppendedIsSelected ==
    ASSUME NEW k \in 1..Len(AllCases), NEW list, IsSelected(list, k - 1)
    PROVE  IsSelected(Appended(list, k), k)
<1>1. /\ Len(AllCases) \in Nat /\ k \in Nat /\ k >= 1 /\ AllCases[k] \in Category
      /\ \A a \in 1..(k - 1) : a \in 1..k /\ a < k
  BY SubTabsAssumption
<1>2. /\ list \in Seq(Category) /\ Len(list) \in Nat /\ Len(list) <= k - 1
      /\ \A i \in 1..Len(list) :
            \E a \in 1..(k - 1) : list[i] = AllCases[a] /\ cells[AllCases[a]]
  BY DEF IsSelected
<1>3. ASSUME NEW i \in 1..Len(list), NEW j \in 1..Len(list), i < j
      PROVE  \E a, b \in 1..k : a < b /\ list[i] = AllCases[a] /\ list[j] = AllCases[b]
  <2>1. PICK a \in 1..(k - 1), b \in 1..(k - 1) :
           a < b /\ list[i] = AllCases[a] /\ list[j] = AllCases[b]
    BY <1>3 DEF IsSelected
  <2> QED
    BY <1>1, <2>1
<1>4. CASE ~cells[AllCases[k]]
  <2>1. Appended(list, k) = list
    BY <1>4 DEF Appended
  <2>2. Len(list) <= k
    BY <1>1, <1>2
  <2>3. ASSUME NEW i \in 1..Len(list)
        PROVE  \E a \in 1..k : list[i] = AllCases[a] /\ cells[AllCases[a]]
    BY <1>1, <1>2
  <2>4. ASSUME NEW a \in 1..k, cells[AllCases[a]]
        PROVE  \E i \in 1..Len(list) : list[i] = AllCases[a]
    <3>1. a # k
      BY <1>4, <2>4
    <3>2. a \in 1..(k - 1)
      BY <1>1, <2>4, <3>1
    <3> QED
      BY <2>4, <3>2 DEF IsSelected
  <2> QED
    BY <1>2, <1>3, <2>1, <2>2, <2>3, <2>4 DEF IsSelected
<1>5. CASE cells[AllCases[k]]
  <2> DEFINE longer == Append(list, AllCases[k])
             n == Len(list) + 1
  <2>1. /\ Appended(list, k) = longer /\ longer \in Seq(Category) /\ Len(longer) = n
        /\ longer[n] = AllCases[k] /\ \A i \in 1..Len(list) : longer[i] = list[i]
    BY <1>1, <1>2, <1>5 DEF Appended
  <2>2. /\ n <= k /\ n \in 1..n /\ k \in 1..k
        /\ \A i \in 1..n : i = n \/ i \in 1..Len(list)
        /\ \A i \in 1..Len(list) : i \in 1..n
    BY <1>1, <1>2
  <2> HIDE DEF longer, n
  <2>3. ASSUME NEW i \in 1..n
        PROVE  \E a \in 1..k : longer[i] = AllCases[a] /\ cells[AllCases[a]]
    <3>1. CASE i = n
      BY <1>5, <2>1, <2>2, <3>1
    <3>2. CASE i \in 1..Len(list)
      BY <1>1, <1>2, <2>1, <3>2
    <3> QED
      BY <2>2, <3>1, <3>2
  <2>4. ASSUME NEW a \in 1..k, cells[AllCases[a]]
        PROVE  \E i \in 1..n : longer[i] = AllCases[a]
    <3>1. CASE a = k
      BY <2>1, <2>2, <3>1
    <3>2. CASE a # k
      <4>1. a \in 1..(k - 1)
        BY <1>1, <2>4, <3>2
      <4>2. PICK i \in 1..Len(list) : list[i] = AllCases[a]
        BY <2>4, <4>1 DEF IsSelected
      <4> QED
        BY <2>1, <2>2, <4>2
    <3> QED
      BY <3>1, <3>2
  <2>5. ASSUME NEW i \in 1..n, NEW j \in 1..n, i < j
        PROVE  \E a, b \in 1..k :
                  a < b /\ longer[i] = AllCases[a] /\ longer[j] = AllCases[b]
    <3>1. i \in 1..Len(list)
      BY <1>2, <2>2, <2>5 DEF n
    <3>2. CASE j = n
      <4>1. PICK a \in 1..(k - 1) : list[i] = AllCases[a]
        BY <1>2, <3>1
      <4>2. a \in 1..k /\ a < k /\ k \in 1..k
        BY <1>1, <4>1
      <4>3. longer[i] = AllCases[a] /\ longer[j] = AllCases[k]
        BY <2>1, <3>1, <3>2, <4>1
      <4> QED
        BY <4>2, <4>3
    <3>3. CASE j \in 1..Len(list)
      <4>1. PICK a \in 1..k, b \in 1..k :
               a < b /\ list[i] = AllCases[a] /\ list[j] = AllCases[b]
        BY <1>3, <2>5, <3>1, <3>3
      <4>2. longer[i] = AllCases[a] /\ longer[j] = AllCases[b]
        BY <2>1, <3>1, <3>3, <4>1
      <4> QED
        BY <4>1, <4>2
    <3> QED
      BY <2>2, <3>2, <3>3
  <2> QED
    BY <2>1, <2>2, <2>3, <2>4, <2>5 DEF IsSelected
<1> QED
  BY <1>4, <1>5

\* Save selects the enabled categories, in the order of allCases: there is no
\* first cell after which it does not.
LEMMA SelectionIsSelected == IsSelected(CategoriesSelected, Len(AllCases))
<1> DEFINE N == Len(AllCases)
           T == {k \in Nat : k <= N /\ ~IsSelected(Selected[k], k)}
<1>1. N \in Nat
  BY SubTabsAssumption
<1>2. ASSUME T # {} PROVE FALSE
  <2>1. T \in SUBSET Nat
    OBVIOUS
  <2>2. PICK k \in T : \A y \in T : k <= y
    BY <1>2, <2>1, LeastNumber
  <2>3. k \in Nat /\ k <= N /\ ~IsSelected(Selected[k], k)
    BY <2>2
  <2>4. k # 0
    <3>1. IsSelected(<<>>, 0)
      BY DEF IsSelected
    <3> QED
      BY <2>3, <3>1, SelectedAppends
  <2>5. k - 1 \in Nat /\ k - 1 <= N /\ k \in 1..N /\ ~(k <= k - 1)
    BY <1>1, <2>3, <2>4
  <2>6. IsSelected(Selected[k - 1], k - 1)
    BY <2>2, <2>5
  <2>7. Selected[k] = Appended(Selected[k - 1], k)
    BY <2>5, SelectedAppends
  <2> HIDE DEF T
  <2> QED
    BY <2>3, <2>5, <2>6, <2>7, AppendedIsSelected
<1> QED
  BY <1>1, <1>2 DEF CategoriesSelected

\* It is a selection, and its members are the enabled cells.
LEMMA SelectionKept ==
    ASSUME cells \in [Category -> BOOLEAN], \A c \in Pinned : cells[c]
    PROVE  /\ CategoriesSelected \in Selections
           /\ CategoriesSelected \in Seq(Category)
           /\ Members(CategoriesSelected) = Enabled
<1> DEFINE list == CategoriesSelected
           N == Len(AllCases)
<1>1. IsSelected(list, N)
  BY SelectionIsSelected
<1>2. N \in Nat /\ DOMAIN AllCases = 1..N /\ AllCases \in Seq(Category)
  BY SubTabsAssumption
<1>3. list \in Seq(Category) /\ Len(list) \in Nat /\ DOMAIN list = 1..Len(list)
  BY <1>1 DEF IsSelected
<1> HIDE DEF list, N
<1>4. ASSUME NEW c \in Category, cells[c] PROVE \E i \in DOMAIN list : list[i] = c
  <2>1. PICK a \in 1..N : AllCases[a] = c
    BY <1>2 DEF Category
  <2> QED
    BY <1>1, <1>3, <1>4, <2>1 DEF IsSelected
<1>5. ASSUME NEW i \in DOMAIN list PROVE list[i] \in Category /\ cells[list[i]]
  <2>1. PICK a \in 1..N : list[i] = AllCases[a] /\ cells[AllCases[a]]
    BY <1>1, <1>3, <1>5 DEF IsSelected
  <2> QED
    BY <1>2, <2>1 DEF Category
<1>6. Members(list) = Enabled
  BY <1>4, <1>5 DEF Members, Enabled
<1>7. \A c \in Pinned : \E i \in DOMAIN list : list[i] = c
  BY <1>4, SubTabsAssumption
<1>8. list \in [1..Len(list) -> Category] /\ Len(list) \in 1..N
  <2>1. list \in [1..Len(list) -> Category]
    BY <1>3
  <2>2. PICK c \in Pinned : TRUE
    BY SubTabsAssumption
  <2>3. PICK i \in 1..Len(list) : TRUE
    BY <1>3, <1>7, <2>2
  <2>4. Len(list) <= N
    BY <1>1 DEF IsSelected
  <2> QED
    BY <1>2, <1>3, <2>1, <2>3, <2>4
<1>9. ASSUME NEW i \in DOMAIN list, NEW j \in DOMAIN list, i < j
      PROVE  \E a, b \in DOMAIN AllCases :
                a < b /\ list[i] = AllCases[a] /\ list[j] = AllCases[b]
  <2>1. i \in 1..Len(list) /\ j \in 1..Len(list)
    BY <1>3, <1>9
  <2>2. PICK a \in 1..N, b \in 1..N :
           a < b /\ list[i] = AllCases[a] /\ list[j] = AllCases[b]
    BY <1>1, <1>9, <2>1, Zenon DEF IsSelected
  <2> QED
    BY <1>2, <2>2
<1>10. list \in UNION {[1..n -> Category] : n \in 1..N}
  BY <1>8
<1>11. list \in Selections
  BY <1>7, <1>9, <1>10 DEF Selections, N
<1> QED
  BY <1>3, <1>6, <1>11 DEF list

-----------------------------------------------------------------------------
(* Through the raw values and back.                                        *)

LEMMA DecodedRaw ==
    ASSUME NEW c \in Category PROVE Decoded(RawValue[c]) = c
<1>1. \E d \in Category : RawValue[d] = RawValue[c]
  OBVIOUS
<1>2. \A d \in Category : RawValue[d] = RawValue[c] => d = c
  BY RawValueAssumption
<1> QED
  BY <1>1, <1>2 DEF Decoded

\* What was stored comes back, whatever the raw values are.
LEMMA StoredComesBack ==
    ASSUME NEW list \in Seq(Category) PROVE Get(Encoded(list)) = list
<1>1. Get(Encoded(list)) = [k \in DOMAIN list |-> Decoded(RawValue[list[k]])]
  BY DEF Get, Encoded
<1>2. ASSUME NEW k \in DOMAIN list PROVE Decoded(RawValue[list[k]]) = list[k]
  BY DecodedRaw
<1>3. list = [k \in DOMAIN list |-> list[k]]
  OBVIOUS
<1> QED
  BY <1>1, <1>2, <1>3

-----------------------------------------------------------------------------
(* Who tells what.                                                         *)

\* An open screen keeps the pinned cells enabled.
Screen ==
    /\ toggled \in BOOLEAN
    /\ cells = Closed \/ cells \in [Category -> BOOLEAN]
    /\ Open => \A c \in Pinned : cells[c]

\* The settings are what was chosen last, and so are the cells until they are
\* changed and while an alert is up.
Chosen ==
    /\ tabs = Categories
    /\ Members(Categories) = chosen
    /\ Pinned \subseteq chosen /\ chosen \subseteq Category
    /\ Open /\ ~toggled => Enabled = chosen
    /\ alert # "none" => Open /\ Enabled = chosen

SettingsInv == Screen /\ Chosen

LEMMA InitSettings == Init => SettingsInv
<1> SUFFICES ASSUME Init PROVE SettingsInv
  OBVIOUS
<1>1. Categories = AllCases
  BY DEF Init, Categories, Get, NoKey
<1>2. Members(Categories) = Category
  BY <1>1 DEF Members, Category
<1> QED
  BY <1>1, <1>2, SubTabsAssumption DEF Init, SettingsInv, Screen, Chosen, Open

\* A step that stores nothing.
LEMMA NothingStored ==
    ASSUME UNCHANGED stored PROVE Categories' = Categories
  BY DEF Categories

LEMMA SaveStores ==
    ASSUME SettingsInv, SaveSettingSubTabs
    PROVE  /\ Categories' = CategoriesSelected /\ CategoriesSelected \in Selections
           /\ Members(CategoriesSelected) = Enabled
<1>1. cells \in [Category -> BOOLEAN] /\ \A c \in Pinned : cells[c]
  BY DEF SettingsInv, Screen, SaveSettingSubTabs, Open
<1>2. /\ CategoriesSelected \in Selections /\ CategoriesSelected \in Seq(Category)
      /\ Members(CategoriesSelected) = Enabled
  BY <1>1, SelectionKept
<1>3. Categories' = Get(Encoded(CategoriesSelected))
  BY DEF SaveSettingSubTabs, Categories
<1> QED
  BY <1>2, <1>3, StoredComesBack

LEMMA SettingsStep == SettingsInv /\ [Next]_vars => SettingsInv'
<1> SUFFICES ASSUME SettingsInv, [Next]_vars PROVE SettingsInv'
  OBVIOUS
<1>0. Screen /\ Chosen
  BY DEF SettingsInv
<1>1. CASE OpenScreen
  <2>1. /\ UNCHANGED <<stored, tabs, alert, chosen>> /\ alert = "none" /\ toggled' = FALSE
        /\ cells' = [c \in Category |-> GetIsActive(c)]
    BY <1>0, <1>1 DEF OpenScreen, Chosen
  <2>2. Categories' = Categories
    BY <2>1, NothingStored
  <2>3. \A c \in Category : GetIsActive(c) \in BOOLEAN /\ (GetIsActive(c) <=> c \in chosen)
    BY <1>0 DEF GetIsActive, Chosen
  <2>4. cells' \in [Category -> BOOLEAN] /\ \A c \in Category : cells'[c] <=> c \in chosen
    BY <2>1, <2>3
  <2>5. Enabled' = chosen
    BY <1>0, <2>4 DEF Enabled, Chosen
  <2>6. Screen'
    BY <1>0, <2>1, <2>4, SubTabsAssumption DEF Screen, Chosen
  <2> QED
    BY <1>0, <2>1, <2>2, <2>5, <2>6 DEF SettingsInv, Chosen
<1>2. ASSUME NEW c \in Category, ChangeStatus(c) PROVE SettingsInv'
  <2>1. /\ UNCHANGED <<stored, tabs, alert, chosen>> /\ alert = "none" /\ toggled' = TRUE
        /\ cells' = [cells EXCEPT ![c] = ~cells[c]] /\ c \notin Pinned
        /\ cells \in [Category -> BOOLEAN] /\ \A d \in Pinned : cells[d]
    BY <1>0, <1>2 DEF ChangeStatus, MayChange, Screen, Open
  <2>2. Categories' = Categories
    BY <2>1, NothingStored
  <2>3. cells' \in [Category -> BOOLEAN] /\ \A d \in Pinned : cells'[d] = cells[d]
    BY <2>1, SubTabsAssumption
  <2>4. Screen'
    BY <2>1, <2>3 DEF Screen
  <2> QED
    BY <1>0, <2>1, <2>2, <2>4 DEF SettingsInv, Chosen
<1>3. CASE SaveDuplicated
  <2>1. /\ UNCHANGED <<stored, tabs, cells, chosen, toggled>>
        /\ Open /\ Members(CategoriesSelected) = Members(Categories)
    BY <1>3 DEF SaveDuplicated, Unchanged
  <2>2. cells \in [Category -> BOOLEAN] /\ \A d \in Pinned : cells[d]
    BY <1>0, <2>1 DEF Screen, Open
  <2>3. Enabled = chosen
    BY <1>0, <2>1, <2>2, SelectionKept DEF Chosen
  <2>4. Categories' = Categories /\ Enabled' = Enabled /\ (Open' <=> Open)
    BY <2>1, NothingStored DEF Enabled, Open
  <2> QED
    BY <1>0, <2>1, <2>3, <2>4 DEF SettingsInv, Screen, Chosen
<1>4. CASE SaveSettingSubTabs
  <2>1. /\ UNCHANGED <<cells, toggled>> /\ Open /\ chosen' = Enabled
        /\ tabs' = Categories'
    BY <1>4 DEF SaveSettingSubTabs, Rebuilt, Categories
  <2>2. Members(Categories)' = Enabled
    BY <1>4, SaveStores DEF Members
  <2>3. Enabled' = Enabled /\ (Open' <=> Open)
    BY <2>1 DEF Enabled, Open
  <2>4. Pinned \subseteq Enabled /\ Enabled \subseteq Category
    BY <1>0, <2>1, SubTabsAssumption DEF Screen, Enabled
  <2> QED
    BY <1>0, <2>1, <2>2, <2>3, <2>4 DEF SettingsInv, Screen, Chosen
<1>5. CASE OkSaved \/ Back \/ Relaunch
  <2>1. /\ UNCHANGED <<stored, chosen, toggled>> /\ cells' = Closed /\ alert' = "none"
        /\ tabs' = Categories
    BY <1>0, <1>5 DEF OkSaved, Back, Relaunch, Chosen
  <2>2. Categories' = Categories /\ ~Open'
    BY <2>1, NothingStored DEF Open
  <2> QED
    BY <1>0, <2>1, <2>2 DEF SettingsInv, Screen, Chosen
<1>6. CASE OkAgain \/ UNCHANGED vars
  <2>1. /\ UNCHANGED <<stored, tabs, cells, chosen, toggled>>
        /\ alert' = alert \/ alert' = "none"
    BY <1>6 DEF OkAgain, vars
  <2>2. Categories' = Categories /\ Enabled' = Enabled /\ (Open' <=> Open)
    BY <2>1, NothingStored DEF Enabled, Open
  <2> QED
    BY <1>0, <2>1, <2>2 DEF SettingsInv, Screen, Chosen
<1> QED
  BY <1>1, <1>2, <1>3, <1>4, <1>5, <1>6 DEF Next

LEMMA SettingsAlways == Spec => []SettingsInv
  BY InitSettings, SettingsStep, PTL DEF Spec

\* Nobody tells another choice than the settings, for any categories and any raw
\* values: not the News tab, not a screen just opened, and not the cells when
\* Save says that they were stored or are what was stored.
THEOREM SettingsAreTold == Spec => []AllTellSettings
<1>1. SettingsInv => AllTellSettings
  BY DEF SettingsInv, Chosen, AllTellSettings
<1> QED
  BY <1>1, SettingsAlways, PTL

\* The settings only ever change to another list of sub tabs that has the pinned
\* ones and keeps the order of allCases: what HomeFeed takes for granted.
THEOREM SettingsKeepSubTabs == Spec => ImplementsSubTabs
<1>1. Init => SubTabsOf!Init
  BY DEF Init, SubTabsOf!Init, Categories, Get, NoKey
<1>2. SettingsInv /\ [Next]_vars => [SubTabsOf!Save]_Categories
  <2> SUFFICES ASSUME SettingsInv, [Next]_vars, ~(Categories' = Categories)
               PROVE  SubTabsOf!Save
    OBVIOUS
  <2>1. SaveSettingSubTabs
    <3>1. ~UNCHANGED stored
      BY NothingStored
    <3> QED
      BY <3>1 DEF Next, OpenScreen, ChangeStatus, SaveDuplicated, OkSaved, OkAgain,
                  Back, Relaunch, vars
  <2>2. Categories' \in Selections
    BY <2>1, SaveStores
  <2>3. Selections = SubTabsOf!Selections
    BY DEF Selections, SubTabsOf!Selections, Category, SubTabsOf!Category
  <2> QED
    BY <2>2, <2>3 DEF SubTabsOf!Save
<1> QED
  BY <1>1, <1>2, SettingsAlways, PTL DEF Spec, ImplementsSubTabs, SubTabsOf!Spec
=============================================================================
