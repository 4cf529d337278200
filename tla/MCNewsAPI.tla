------------------------------- MODULE MCNewsAPI -------------------------------
(* One call of each kind, and a second image.                              *)
EXTENDS NewsAPI, TLC

CONSTANTS top, search, picture, logo

AppCallers == {top, search, picture, logo}
AppKind ==
    top :> "headlines" @@ search :> "everything"
    @@ picture :> "image" @@ logo :> "image"
=============================================================================
