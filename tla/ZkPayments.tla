----------------------------- MODULE ZkPayments -----------------------------
(***************************************************************************)
(* Private payments on the confidential token.  The payer makes one        *)
(* transfer per leg (payment, fee and, if the payment has one, the         *)
(* merchant fee) and an anonymous confirm settles the payment with them.   *)
(* Confirms of several payments race; the process may die before it has    *)
(* notified.  Amounts are left out: every leg pays an account, and a       *)
(* transfer to the right account is of the right amount.                   *)
(***************************************************************************)
EXTENDS Integers, FiniteSets

CONSTANTS
    ZkTxs,        \* bound: transfers, as transaction hashes
    ZkPays(_),    \* the account a transfer goes to
    ZkRecipient(_), \* payment -> its recipient
    ZkWallet(_),  \* payment -> merchantFee.wallet, or "none"
    ZkIds,        \* bound: payments
    ZkClients,    \* callers of confirm
    ZkFaults      \* bound: processes that die

ASSUME ZkBounds == ZkFaults \in Nat /\ \A p \in ZkIds : ZkRecipient(p) # "fee" /\ ZkWallet(p) # ZkRecipient(p)

Legs == {"payment", "fee", "merchantFee"}
NoTx == "none"
NoHashes == [leg \in Legs |-> NoTx]

VARIABLES
    zkStatus,   \* zk_payment.status, "ABSENT" before the insert
    zkHashes,   \* the hashes it settled with
    zkLapsed,   \* payments past expiresAt
    zkClosed,   \* transfer -> the payments that were open when it closed
    zkMade,     \* transfers that closed
    zkNotified, \* payments whose ZK_PAYMENT_SUCCEEDED was emitted
    zkFaults,   \* faults so far
    zkClient    \* local state of a confirm

zkVars == <<zkStatus, zkHashes, zkLapsed, zkClosed, zkMade, zkNotified, zkFaults, zkClient>>

NoConfirm == [pc |-> "idle", p |-> 0, h |-> NoHashes]

ZkPaymentsInit ==
    /\ zkStatus = [p \in ZkIds |-> "ABSENT"]
    /\ zkHashes = [p \in ZkIds |-> NoHashes]
    /\ zkLapsed = {} /\ zkMade = {} /\ zkNotified = {} /\ zkFaults = 0
    /\ zkClosed = [x \in ZkTxs |-> {}]
    /\ zkClient = [c \in ZkClients |-> NoConfirm]

CreateZk(p) ==
    /\ zkStatus[p] = "ABSENT"
    /\ zkStatus' = [zkStatus EXCEPT ![p] = "PENDING"]
    /\ UNCHANGED <<zkHashes, zkLapsed, zkClosed, zkMade, zkNotified, zkFaults, zkClient>>

\* Nothing stores EXPIRED: a payment past expiresAt only reads as expired.
LapseZk(p) ==
    /\ zkStatus[p] # "ABSENT" /\ p \notin zkLapsed
    /\ zkLapsed' = zkLapsed \cup {p}
    /\ UNCHANGED <<zkStatus, zkHashes, zkClosed, zkMade, zkNotified, zkFaults, zkClient>>

CloseTransfer(x) ==
    /\ x \notin zkMade /\ zkMade' = zkMade \cup {x}
    /\ zkClosed' = [zkClosed EXCEPT ![x] = {p \in ZkIds : zkStatus[p] # "ABSENT" /\ p \notin zkLapsed}]
    /\ UNCHANGED <<zkStatus, zkHashes, zkLapsed, zkNotified, zkFaults, zkClient>>

-----------------------------------------------------------------------------
(* confirm                                                                   *)

\* The locals of an answered confirm are gone.
At(c, pc) ==
    zkClient' = [zkClient EXCEPT ![c] =
        IF pc = "done" THEN [NoConfirm EXCEPT !.pc = "done"] ELSE [@ EXCEPT !.pc = pc]]

Named(h) == {h[l] : l \in Legs} \ {NoTx}

\* The transactions a confirm names are different, and one per leg.
WellFormed(p, h) ==
    /\ (h["merchantFee"] # NoTx <=> ZkWallet(p) # "none")
    /\ \A l, m \in Legs : l # m /\ h[l] # NoTx => h[l] # h[m]

\* POST /confirm, for any payment and any transfers that closed.  Clients are alike:
\* which one is next does not matter.
StartConfirm(c) ==
    /\ zkClient[c].pc = "idle" /\ c = CHOOSE d \in ZkClients : zkClient[d].pc = "idle"
    /\ \E p \in ZkIds, x, y \in zkMade, z \in zkMade \cup {NoTx} :
         LET h == [payment |-> x, fee |-> y, merchantFee |-> z] IN
         /\ zkStatus[p] # "ABSENT" /\ WellFormed(p, h)
         /\ zkClient' = [zkClient EXCEPT ![c] = [pc |-> "load", p |-> p, h |-> h]]
    /\ UNCHANGED <<zkStatus, zkHashes, zkLapsed, zkClosed, zkMade, zkNotified, zkFaults>>

\* assertUnused: no hash may have settled another payment, in any role.
Unused(p, h) == \A q \in ZkIds \ {p} : Named(zkHashes[q]) \cap Named(h) = {}

Target(p, leg) == CASE leg = "payment" -> ZkRecipient(p) [] leg = "fee" -> "fee" [] OTHER -> ZkWallet(p)

PaysAny(p, leg, x) == ZkPays(x) = Target(p, leg)
\* verifyZkSettlement for one leg: it closed while the payment was open, and pays it.
PaysLeg(p, leg, x) == p \in zkClosed[x] /\ ZkPays(x) = Target(p, leg)

Verified(p, h) == \A leg \in Legs : h[leg] # NoTx => PaysLeg(p, leg, h[leg])

\* The row is loaded: a settled one is replayed, for the hashes it settled with.
\* Otherwise the hashes are looked up and the transfers, which do not change any
\* more, read back from the chain.
CheckZk(c) ==
    /\ zkClient[c].pc = "load"
    /\ LET p == zkClient[c].p  h == zkClient[c].h IN
       At(c, IF zkStatus[p] = "SUCCEEDED" THEN IF zkHashes[p] = h THEN "replay" ELSE "done"
             ELSE IF Unused(p, h) /\ Verified(p, h) THEN "claim" ELSE "done")
    /\ UNCHANGED <<zkStatus, zkHashes, zkLapsed, zkClosed, zkMade, zkNotified, zkFaults>>

NeverTaken(p, h) == FALSE
\* The unique indexes, one per column.
HashTaken(p, h) ==
    \E q \in ZkIds \ {p}, leg \in Legs : h[leg] # NoTx /\ zkHashes[q][leg] = h[leg]

\* The compare-and-swap on PENDING; its loser replays, a taken hash is refused.
ClaimZk(c) ==
    /\ zkClient[c].pc = "claim"
    /\ LET p == zkClient[c].p  h == zkClient[c].h IN
       IF zkStatus[p] = "PENDING" /\ ~HashTaken(p, h)
       THEN /\ zkStatus' = [zkStatus EXCEPT ![p] = "SUCCEEDED"]
            /\ zkHashes' = [zkHashes EXCEPT ![p] = h]
            /\ At(c, "notify")
       ELSE /\ At(c, IF zkStatus[p] = "PENDING" \/ zkHashes[p] # h THEN "done" ELSE "replay")
            /\ UNCHANGED <<zkStatus, zkHashes>>
    /\ UNCHANGED <<zkLapsed, zkClosed, zkMade, zkNotified, zkFaults>>

NotifyFirst(c) == zkClient[c].pc = "notify"
\* notifySettled, after the claim and on every replay.
Notifies(c) == zkClient[c].pc \in {"notify", "replay"}

NotifyZk(c) ==
    /\ zkClient[c].pc \in {"notify", "replay"}
    /\ zkNotified' = IF Notifies(c) THEN zkNotified \cup {zkClient[c].p} ELSE zkNotified
    /\ At(c, "done")
    /\ UNCHANGED <<zkStatus, zkHashes, zkLapsed, zkClosed, zkMade, zkFaults>>

\* The process dies; the payer got no answer and asks again.
DieConfirm(c) ==
    /\ zkClient[c].pc \notin {"idle", "load", "done"} /\ zkFaults < ZkFaults
    /\ zkFaults' = zkFaults + 1
    /\ At(c, "load")
    /\ UNCHANGED <<zkStatus, zkHashes, zkLapsed, zkClosed, zkMade, zkNotified>>

ConfirmStep(c) == CheckZk(c) \/ ClaimZk(c) \/ NotifyZk(c)

ZkPaymentsNext ==
    \/ \E p \in ZkIds : CreateZk(p) \/ LapseZk(p)
    \/ \E x \in ZkTxs : CloseTransfer(x)
    \/ \E c \in ZkClients : StartConfirm(c) \/ ConfirmStep(c) \/ DieConfirm(c)

\* A payer without an answer keeps asking.
ZkPaymentsFairness == \A c \in ZkClients : WF_zkVars(ConfirmStep(c))

-----------------------------------------------------------------------------
\* A settled payment was paid while it was open, every leg of it, by transfers no
\* other payment settled with in the same role, however the confirms interleave.
ZkPaidOnce ==
    \A p \in ZkIds : zkStatus[p] = "SUCCEEDED" =>
        /\ \A leg \in Legs : zkHashes[p][leg] # NoTx =>
              p \in zkClosed[zkHashes[p][leg]] /\ ZkPays(zkHashes[p][leg]) = Target(p, leg)
        /\ \A q \in ZkIds \ {p}, leg \in Legs :
              zkHashes[p][leg] # NoTx => zkHashes[q][leg] # zkHashes[p][leg]

\* "heal the one gap the settle path has": a settled payment is notified, through
\* a death between the compare-and-swap and the emit.
ZkNotified ==
    \A p \in ZkIds : zkStatus[p] = "SUCCEEDED" ~> p \in zkNotified

\* "one transaction settles one private payment, of any consumer", in any role.
OneTxOnePayment ==
    \A p, q \in ZkIds : p # q => Named(zkHashes[p]) \cap Named(zkHashes[q]) = {}
=============================================================================
