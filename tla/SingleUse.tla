----------------------------- MODULE SingleUse -----------------------------
(***************************************************************************)
(* What an emailed code or a recovery session promises: it is issued once, *)
(* taken by at most one caller and only while it is open, and in the end   *)
(* nothing of it is left.  No component has this shape by itself: the      *)
(* comparison, the write and the sweep of each are separate steps, shown   *)
(* to implement this specification.                                        *)
(***************************************************************************)
CONSTANT Takers
VARIABLES phase, takers

suVars == <<phase, takers>>

SingleUseInit == phase = "none" /\ takers = {}

Issue   == phase = "none" /\ phase' = "open" /\ UNCHANGED takers
Take(t) == phase = "open" /\ phase' = "taken" /\ takers' = {t}
Shut    == phase = "open" /\ phase' = "shut" /\ UNCHANGED takers
Forget  == phase \in {"open", "taken", "shut"} /\ phase' = "gone" /\ UNCHANGED takers

SingleUseNext == Issue \/ (\E t \in Takers : Take(t)) \/ Shut \/ Forget

\* What may happen to it at all ...
SingleUseSafety == SingleUseInit /\ [][SingleUseNext]_suVars

\* ... and that nothing of it is left in the end.
SingleUseSpec ==
    /\ SingleUseSafety
    /\ (phase = "open") ~> (phase = "gone")
=============================================================================
