--------------------------- MODULE MCSettlement ---------------------------
(***************************************************************************)
(* The owner of the rows in the model-checked instances of Settlement.     *)
(***************************************************************************)
EXTENDS Settlement

OneOwner == [r \in Rows |-> "c1"]
===========================================================================
