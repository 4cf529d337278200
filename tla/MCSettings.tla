------------------------------- MODULE MCSettings -------------------------------
(* The categories of the app, in the order and with the raw values of      *)
(* CategoryType.                                                           *)
EXTENDS Settings, TLC

CONSTANTS us, business, technology, health, science, sports, entertainment

AppCases == <<us, health, science, technology, sports, entertainment, business>>
AppPinned == {us, health}
AppRawValue ==
    us :> 0 @@ business :> 1 @@ technology :> 2 @@ health :> 3
    @@ science :> 4 @@ sports :> 5 @@ entertainment :> 6
=============================================================================
