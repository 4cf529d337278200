----------------------------- MODULE MCBookmarks ------------------------------
(* Symmetry for the runs of Bookmarks.                                     *)
EXTENDS Bookmarks, TLC

BookmarkSymmetry == Permutations(Articles) \cup Permutations(Categories)
=============================================================================
