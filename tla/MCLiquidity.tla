---------------------------- MODULE MCLiquidity ----------------------------
(***************************************************************************)
(* The model-checked instance of a liquidity pool operation's life: it is  *)
(* built (LiquidityBuilds), relayed and observed (Settlement), and what it *)
(* settled for decides later commissions (LpCommission).  Each module      *)
(* keeps of the other two what its properties need, so that one of them,   *)
(* mover, takes its steps while the others stay where they start.          *)
(***************************************************************************)
EXTENDS MCSettlement, LiquidityBuilds, LpCommission, TLC

VARIABLE mover

liquidityVars == <<mover, vars, lbVars, lpVars>>

LiquidityInit ==
    /\ mover \in {"settlement", "builds", "commission"}
    /\ Init /\ LiquidityBuildsInit /\ LpCommissionInit

LiquidityNext ==
    \/ mover = "settlement" /\ Next /\ UNCHANGED <<mover, lbVars, lpVars>>
    \/ mover = "builds" /\ LiquidityBuildsNext /\ UNCHANGED <<mover, vars, lpVars>>
    \/ mover = "commission" /\ LpCommissionNext /\ UNCHANGED <<mover, vars, lbVars>>

LiquiditySpec == LiquidityInit /\ [][LiquidityNext]_liquidityVars

\* Build requests are alike.
AlikeRequests == Permutations(LpRequests)
=============================================================================
