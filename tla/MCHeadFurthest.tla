--------------------------- MODULE MCHeadFurthest ---------------------------
(***************************************************************************)
(* HeadFurthest over a history of which each child knows a part, and a     *)
(* fork of it that another client inserts while the children are asked.    *)
(***************************************************************************)
EXTENDS HeadFurthest

MCKnown == {[prev |-> "a", root |-> "b"], [prev |-> "b", root |-> "c"]}
MCLate == {[prev |-> "a", root |-> "d"]}
=============================================================================
