----------------------------- MODULE MCSearchNews -----------------------------
(* Instances of SearchNews for TLC: two words, one of them also typed with *)
(* a blank after it, and a text of blanks.                                 *)
EXTENDS SearchNews, TLC

CONSTANTS empty, blank, swift, swiftBlank, kotlin

AllTexts == {empty, blank, swift, swiftBlank, kotlin}

TrimmedText ==
    [x \in Texts |-> CASE x = blank -> empty
                             [] x = swiftBlank -> swift
                             [] OTHER -> x]
=============================================================================
