------------------------------ MODULE MCClaims ------------------------------
(***************************************************************************)
(* The model-checked instance of private payments, sign-in, gateway keys,  *)
(* aliases and the two ways to recover a wallet: what a request may claim  *)
(* once. They share no row and call none of each other's operations, so a  *)
(* behaviour of the server is an interleaving of one behaviour of each,    *)
(* and every property is about one of them: it is enough to let one,       *)
(* mover, take its steps while the others stay where they start, with none *)
(* of their fair actions enabled.                                          *)
(***************************************************************************)
EXTENDS ZkPayments, WalletSignIn, WalletKeys, Aliases, EasyRecovery, RecoveryCodes

\* A private payment to an address, and one to a wallet whose relayer takes a fee.
MCPays(x) == CASE x = "xa" -> "A" [] x = "xw" -> "W" [] OTHER -> "fee"
MCRecipient(p) == IF p = 1 THEN "A" ELSE "W"
MCWallet(p) == IF p = 1 THEN "W" ELSE "none"

MCAliasChain(a) == IF a = "sol1" THEN "solana" ELSE "stellar"

VARIABLE mover

claimsVars == <<mover, zkVars, siVars, wkVars, alVars, erVars, rcVars>>

\* The others rest.
Rest ==
    /\ UNCHANGED mover
    /\ mover # "zk" => UNCHANGED zkVars
    /\ mover # "signin" => UNCHANGED siVars
    /\ mover # "keys" => UNCHANGED wkVars
    /\ mover # "aliases" => UNCHANGED alVars
    /\ mover # "easy" => UNCHANGED erVars
    /\ mover # "codes" => UNCHANGED rcVars

ClaimsInit ==
    /\ mover \in {"zk", "signin", "keys", "aliases", "easy", "codes"}
    /\ ZkPaymentsInit /\ WalletSignInInit /\ WalletKeysInit
    /\ AliasesInit /\ EasyRecoveryInit /\ RecoveryCodesInit

ClaimsNext ==
    \/ mover = "zk" /\ ZkPaymentsNext /\ Rest
    \/ mover = "signin" /\ WalletSignInNext /\ Rest
    \/ mover = "keys" /\ WalletKeysNext /\ Rest
    \/ mover = "aliases" /\ AliasesNext /\ Rest
    \/ mover = "easy" /\ EasyRecoveryNext /\ Rest
    \/ mover = "codes" /\ RecoveryCodesNext /\ Rest

ClaimsSpec ==
    /\ ClaimsInit /\ [][ClaimsNext]_claimsVars
    /\ ZkPaymentsFairness /\ WalletSignInFairness /\ EasyRecoveryFairness
    /\ RecoveryCodesFairness

\* Both ways to recover a wallet implement SingleUse: a session's sealed wallet and
\* an emailed code are given out once, while they are open, and then are gone.
RecoverySingleUse == SessionSingleUse /\ RecoveryCodeSingleUse
=============================================================================
