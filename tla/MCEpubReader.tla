----------------------------- MODULE MCEpubReader -----------------------------
(* Two chapters of three units and one, laid out with one unit or two on a page. *)
EXTENDS EpubReader, TLC
MCLength == 0 :> 3 @@ 1 :> 1
MCPerPage == 1 :> 1 @@ 2 :> 2
=============================================================================
