--------------------------- MODULE PaymentPromise ---------------------------
(***************************************************************************)
(* What an integrator is promised about payment intents, without handlers, *)
(* statuses read earlier, guards or retries: an intent is open until one   *)
(* unused payment settles it or it is given up; a lapsed one may still be  *)
(* settled by a late payment; a settled one stays settled and keeps its    *)
(* payment; only what is settled is announced as settled.                  *)
(***************************************************************************)
CONSTANTS
    Promised,  \* intents
    Receipts,  \* payments that can be used
    Unspent    \* the use of a payment nobody used

VARIABLES
    fate,   \* intent -> "none", "open", "paid", "given up", "lapsed", "removed"
    spent,  \* payment -> the intent it settled
    told    \* intents announced as settled

promiseVars == <<fate, spent, told>>

PromiseInit ==
    /\ fate = [i \in Promised |-> "none"]
    /\ spent = [t \in Receipts |-> Unspent]
    /\ told = {}

Ask(i) == fate[i] = "none" /\ fate' = [fate EXCEPT ![i] = "open"] /\ UNCHANGED <<spent, told>>

Pay(i, t) ==
    /\ fate[i] \in {"open", "lapsed"} /\ spent[t] = Unspent
    /\ fate' = [fate EXCEPT ![i] = "paid"] /\ spent' = [spent EXCEPT ![t] = i]
    /\ UNCHANGED told

GiveUp(i) ==
    /\ fate[i] = "open" /\ \E f \in {"given up", "lapsed"} : fate' = [fate EXCEPT ![i] = f]
    /\ UNCHANGED <<spent, told>>

Withdraw(i) ==
    /\ fate[i] \in {"open", "given up", "lapsed"} /\ fate' = [fate EXCEPT ![i] = "removed"]
    /\ UNCHANGED <<spent, told>>

Tell(i) == fate[i] = "paid" /\ told' = told \cup {i} /\ UNCHANGED <<fate, spent>>

PromiseNext ==
    \E i \in Promised :
        Ask(i) \/ GiveUp(i) \/ Withdraw(i) \/ Tell(i) \/ \E t \in Receipts : Pay(i, t)

PromiseSpec == PromiseInit /\ [][PromiseNext]_promiseVars
=============================================================================
