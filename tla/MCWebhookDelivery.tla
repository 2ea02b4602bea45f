------------------------- MODULE MCWebhookDelivery -------------------------
(***************************************************************************)
(* The symmetry of the model-checked instances of WebhookDelivery: the     *)
(* replicas are interchangeable.                                           *)
(***************************************************************************)
EXTENDS WebhookDelivery, TLC

Replicas == Permutations(Sweepers)
=============================================================================
