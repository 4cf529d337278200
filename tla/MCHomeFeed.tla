------------------------------ MODULE MCHomeFeed ------------------------------
(* Instances of HomeFeed for TLC.                                          *)
EXTENDS HomeFeed, TLC

CONSTANTS us, science, technology

\* One category, for the paging of a single list.
OneTab == <<us>>
\* A pinned category and two that can be switched off.
ThreeTabs == <<us, science, technology>>

TaskSymmetry == Permutations(Tasks)
=============================================================================
