---------------------------- MODULE MCTransfers -----------------------------
(***************************************************************************)
(* The model-checked instance of the components that follow money off      *)
(* Stellar's classic ledger. They share no row and call none of each       *)
(* other's operations, so a behaviour of the server is an interleaving of  *)
(* one behaviour of each, and every property is about one of them: it is   *)
(* enough to let one, mover, take its steps while the others stay where    *)
(* they start, with none of their fair actions enabled.                    *)
(***************************************************************************)
EXTENDS EvmDeposits, ChainSwaps, CrossChainSwaps, Usdt0Transfers

VARIABLE mover

transfersVars == <<mover, depVars, csVars, ccVars, u0Vars>>

\* The others rest.
Rest ==
    /\ UNCHANGED mover
    /\ mover # "deposits" => UNCHANGED depVars
    /\ mover # "swaps" => UNCHANGED csVars
    /\ mover # "cross" => UNCHANGED ccVars
    /\ mover # "usdt0" => UNCHANGED u0Vars

TransfersInit ==
    /\ mover \in {"deposits", "swaps", "cross", "usdt0"}
    /\ EvmDepositsInit /\ ChainSwapsInit /\ CrossChainSwapsInit
    /\ Usdt0TransfersInit

TransfersNext ==
    \/ mover = "deposits" /\ EvmDepositsNext /\ Rest
    \/ mover = "swaps" /\ ChainSwapsNext /\ Rest
    \/ mover = "cross" /\ CrossChainSwapsNext /\ Rest
    \/ mover = "usdt0" /\ Usdt0TransfersNext /\ Rest

TransfersSpec ==
    /\ TransfersInit /\ [][TransfersNext]_transfersVars
    /\ EvmDepositsFairness /\ ChainSwapsFairness /\ CrossChainSwapsFairness
    /\ Usdt0TransfersFairness

-----------------------------------------------------------------------------
\* No row says what its chain does not: an intent is settled by a forward only
\* if the merchant received its amount, a swap SUCCEEDED only if confirmed, a
\* transfer EXPIRED only if the ledger never applied it, or only before the RPC
\* forgot it.
VerdictsMatchChain == ForwardSettlesPaid /\ SucceededLanded /\ ExpiredNeverApplied

\* A final status is never left, by a writer that read the row before it: for
\* swaps on other chains, cross-chain swaps and USDT0 transfers.
FinalStaysFinal == VerdictFinal /\ CrossNeverGoesBack /\ TransferFinal

\* What the provider settles for good reaches the row, for cross-chain swaps
\* and USDT0 transfers.
TransfersSettle == CrossSettles /\ TransferSettles
=============================================================================
