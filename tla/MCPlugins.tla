----------------------------- MODULE MCPlugins ------------------------------
(***************************************************************************)
(* The model-checked instance of two native plugins: protected payments,   *)
(* before and after the buyer's deposit, and BlindPay. They share no row   *)
(* and call none of each other's operations, so a behaviour of the server  *)
(* is an interleaving of one behaviour of each, and every property is      *)
(* about one of them: it is enough to let one, mover, take its steps while *)
(* the others stay where they start, with none of their fair actions       *)
(* enabled.                                                                *)
(***************************************************************************)
EXTENDS EscrowFunding, EscrowDelivery, BlindpayMirror

VARIABLE mover

pluginsVars == <<mover, efVars, edVars, bpVars>>

\* The others rest.
Rest ==
    /\ UNCHANGED mover
    /\ mover # "funding" => UNCHANGED efVars
    /\ mover # "delivery" => UNCHANGED edVars
    /\ mover # "blindpay" => UNCHANGED bpVars

PluginsInit ==
    /\ mover \in {"funding", "delivery", "blindpay"}
    /\ EscrowFundingInit /\ EscrowDeliveryInit /\ BlindpayInit

PluginsNext ==
    \/ mover = "funding" /\ EscrowFundingNext /\ Rest
    \/ mover = "delivery" /\ EscrowDeliveryNext /\ Rest
    \/ mover = "blindpay" /\ BlindpayNext /\ Rest

PluginsSpec ==
    /\ PluginsInit /\ [][PluginsNext]_pluginsVars
    /\ EscrowFundingFairness /\ EscrowDeliveryFairness /\ BlindpayFairness
=============================================================================
