------------------------- MODULE MCPaymentIntents -------------------------
(***************************************************************************)
(* The terms and payments of the model-checked instances of PaymentIntents. *)
(* Every intent pays the merchant account "M"; "F" is a merchant-fee wallet.*)
(***************************************************************************)
EXTENDS IntentsRefinement

Op(to, amount) == [to |-> to, amount |-> amount]

Ask(memo, amount) ==
    [memo |-> memo, dest |-> "M", amount |-> amount, leg |-> amount, fee |-> {}]

\* Two units, of which the recipient pays one to the fee wallet.
WithFee == [memo |-> "m", dest |-> "M", amount |-> 2, leg |-> 1, fee |-> {Op("F", 1)}]

OneTerms   == {Ask("m", 1)}
RivalTerms == {Ask("m", 1), Ask("m", 2), Ask("m", Open), WithFee}

BothPaid    == {[memo |-> "m", ops |-> {Op("M", 1), Op("F", 1)}]}
OnePayment  == {[memo |-> "m", ops |-> {Op("M", 1)}]}
===========================================================================
