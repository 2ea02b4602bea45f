---------------------------- MODULE EscrowFunding ----------------------------
(***************************************************************************)
(* A protected payment (Trustless Work escrow) until it is funded.  The    *)
(* buyer's first `fund` deploys the contract under a lease, then builds a  *)
(* deposit for the buyer to sign; the deposit is relayed later, and the    *)
(* sync job reads the contract back.  Meanwhile the merchant may cancel    *)
(* and the expiry job may end the payment.  Every provider call may land   *)
(* on the chain and still end in an error.                                 *)
(***************************************************************************)
EXTENDS Integers, FiniteSets

CONSTANTS
    Funders,      \* fund requests of the buyer
    Cancellers,   \* cancel requests of the merchant
    MaxContracts, \* bound: deploys built
    EscrowFaults  \* bound: failed calls, lapsed leases

ASSUME EscrowBounds == MaxContracts \in Nat /\ EscrowFaults \in Nat

Contracts == 1..MaxContracts

VARIABLES
    pp,          \* the protected_payment row: status, contractId, deploy lease
    ppAge,       \* 0, 1: past fundingExpiresAt, 2: and a build's life later
    deploys,     \* DEPLOY rows: contract -> status
    onChain,     \* contracts deployed
    deposits,    \* FUND rows: request -> status, contract
    lapsed,      \* deposits past their time bounds
    holding,     \* contracts holding a deposit
    funder,      \* local state of a fund request
    canceller,   \* local state of a cancel request
    expiry,      \* local state of the expiry job
    escrowFaults \* faults so far

efVars == <<pp, ppAge, deploys, onChain, deposits, lapsed, holding, funder, canceller, expiry, escrowFaults>>

NoDeposit == [status |-> "none", c |-> 0]

EscrowFundingInit ==
    /\ pp = [status |-> "ABSENT", c |-> 0, lease |-> "free"] /\ ppAge = 0
    /\ deploys = [k \in Contracts |-> "none"] /\ onChain = {}
    /\ deposits = [f \in Funders |-> NoDeposit] /\ lapsed = {} /\ holding = {}
    /\ funder = [f \in Funders |-> [pc |-> "idle", c |-> 0]]
    /\ canceller = [m \in Cancellers |-> "idle"]
    /\ expiry = "idle" /\ escrowFaults = 0

Unfunded == {"CREATED", "AWAITING_FUNDING"}
EscrowFault == escrowFaults < EscrowFaults /\ escrowFaults' = escrowFaults + 1

CreateProtected ==
    /\ pp.status = "ABSENT" /\ pp' = [pp EXCEPT !.status = "CREATED"]
    /\ UNCHANGED <<ppAge, deploys, onChain, deposits, lapsed, holding, funder, canceller, expiry, escrowFaults>>

-----------------------------------------------------------------------------
(* fund: recoverDeploy, claimDeploy, deploy, finishDeploy                    *)

FundAt(f, pc) == funder' = [funder EXCEPT ![f].pc = pc]
FundGoes(f, pc, c) == funder' = [funder EXCEPT ![f] = [pc |-> pc, c |-> c]]

\* The checks of fund, on the row the request read.
FundReads(f) ==
    /\ funder[f].pc = "idle" /\ pp.status \in Unfunded /\ ppAge = 0
    /\ FundGoes(f, IF pp.c = 0 THEN "recover" ELSE "build", pp.c)
    /\ UNCHANGED <<pp, ppAge, deploys, onChain, deposits, lapsed, holding, canceller, expiry, escrowFaults>>

Latest(k) == deploys[k] # "none" /\ \A j \in Contracts : j > k => deploys[j] = "none"
AnyDeploy == \E k \in Contracts : deploys[k] # "none"

\* lifecycle.deployed: the first contract recorded stands, and is read back.
Deployed(k) ==
    pp' = IF pp.c = 0 /\ pp.status = "CREATED" THEN [status |-> "AWAITING_FUNDING", c |-> k, lease |-> "free"] ELSE pp

OwnContract(k) == k
\* What deploy hands to fund: the contract of the row as it is now.
BoundContract(k) == pp'.c

\* recoverDeploy: a deploy that landed is recorded, an unsent one is sent again, a
\* failed one is looked up on the chain.
RecoverDeploy(f) ==
    /\ funder[f].pc = "recover"
    /\ \/ ~AnyDeploy /\ FundGoes(f, "claim", 0) /\ UNCHANGED pp
       \/ \E k \in Contracts :
            /\ Latest(k)
            /\ IF deploys[k] \in {"BUILT", "SUBMITTING"} THEN FundGoes(f, "relay", k) /\ UNCHANGED pp
               ELSE IF k \in onChain THEN Deployed(k) /\ FundGoes(f, "build", BoundContract(k))
               ELSE FundGoes(f, "claim", 0) /\ UNCHANGED pp
    /\ UNCHANGED <<ppAge, deploys, onChain, deposits, lapsed, holding, canceller, expiry, escrowFaults>>

ClaimDeploy(f) ==
    /\ funder[f].pc = "claim"
    /\ IF pp.status = "CREATED" /\ pp.c = 0 /\ pp.lease = "free"
       THEN pp' = [pp EXCEPT !.lease = f] /\ FundAt(f, "deploy")
       ELSE /\ FundGoes(f, IF pp.c # 0 THEN "build" ELSE "idle", pp.c) /\ UNCHANGED pp
    /\ UNCHANGED <<ppAge, deploys, onChain, deposits, lapsed, holding, canceller, expiry, escrowFaults>>

\* The lease is over: its holder died, or still works.
LeaseLapses ==
    /\ pp.lease \in Funders /\ pp.status = "CREATED"
    /\ IF funder[pp.lease].pc = "idle" THEN UNCHANGED escrowFaults ELSE EscrowFault
    /\ pp' = [pp EXCEPT !.lease = "free"]
    /\ UNCHANGED <<ppAge, deploys, onChain, deposits, lapsed, holding, funder, canceller, expiry>>

\* The `finally` of deploy, if the lease is still this request's.
Freed(f, row) == IF row.lease = f THEN [row EXCEPT !.lease = "free"] ELSE row

\* Trustless Work builds the deploy and it is recorded, or the call fails.
BuildDeploy(f) ==
    /\ funder[f].pc = "deploy"
    /\ \/ \E k \in Contracts :
            /\ deploys[k] = "none" /\ \A j \in Contracts : j < k => deploys[j] # "none"
            /\ deploys' = [deploys EXCEPT ![k] = "BUILT"] /\ FundGoes(f, "relay", k)
            /\ UNCHANGED pp
       \/ FundGoes(f, "idle", 0) /\ pp' = Freed(f, pp) /\ UNCHANGED deploys
    /\ UNCHANGED <<ppAge, onChain, deposits, lapsed, holding, canceller, expiry, escrowFaults>>

\* A claim whose holder died may be taken over once its lease is over.
Claimable(k) ==
    \/ deploys[k] = "BUILT"
    \/ deploys[k] = "SUBMITTING" /\ \A g \in Funders : ~(funder[g].pc = "send" /\ funder[g].c = k)

\* relay of the deploy: one submit at a time, then the call and its answer.  The
\* loser of the claim answers 409 or, if it was sent meanwhile, that answer.
ClaimRelay(f) ==
    /\ funder[f].pc = "relay"
    /\ LET k == funder[f].c IN
       IF Claimable(k) THEN /\ deploys' = [deploys EXCEPT ![k] = "SUBMITTING"]
                            /\ FundAt(f, "send") /\ UNCHANGED pp
       ELSE IF deploys[k] = "SUBMITTED" THEN FundAt(f, "finish") /\ UNCHANGED <<deploys, pp>>
       ELSE FundGoes(f, "idle", 0) /\ pp' = Freed(f, pp) /\ UNCHANGED deploys
    /\ UNCHANGED <<ppAge, onChain, deposits, lapsed, holding, canceller, expiry, escrowFaults>>

\* Trustless Work answers SUCCESS, or FAILED; or it errs, having landed it or not,
\* the claim is released and the request fails.
SendDeploy(f) ==
    /\ funder[f].pc = "send"
    /\ LET k == funder[f].c IN
       \/ /\ onChain' = onChain \cup {k} /\ deploys' = [deploys EXCEPT ![k] = "SUBMITTED"]
          /\ FundAt(f, "finish") /\ UNCHANGED <<pp, escrowFaults>>
       \/ /\ EscrowFault /\ k \notin onChain /\ deploys' = [deploys EXCEPT ![k] = "SUBMITTED"]
          /\ FundAt(f, "finish") /\ UNCHANGED <<pp, onChain>>
       \/ /\ EscrowFault /\ onChain' \in {onChain, onChain \cup {k}}
          /\ deploys' = [deploys EXCEPT ![k] = "BUILT"]
          /\ FundGoes(f, "idle", 0) /\ pp' = Freed(f, pp)
    /\ UNCHANGED <<ppAge, deposits, lapsed, holding, canceller, expiry>>

\* A deploy that was not answered is past its time bounds, and so is its request.
LapseDeploy(k) ==
    /\ deploys[k] = "BUILT" /\ \A f \in Funders : funder[f].c # k
    /\ deploys' = [deploys EXCEPT ![k] = "LAPSED"]
    /\ UNCHANGED <<pp, ppAge, onChain, deposits, lapsed, holding, funder, canceller, expiry, escrowFaults>>

\* The process dies: the lease and the claim stay.
DieFund(f) ==
    /\ funder[f].pc \notin {"idle", "done"} /\ EscrowFault /\ FundGoes(f, "idle", 0)
    /\ UNCHANGED <<pp, ppAge, deploys, onChain, deposits, lapsed, holding, canceller, expiry>>

FinishDeploy(f) ==
    /\ funder[f].pc = "finish"
    /\ LET k == funder[f].c IN
       IF k \in onChain THEN Deployed(k) /\ FundGoes(f, "build", BoundContract(k))
       ELSE pp' = Freed(f, pp) /\ FundGoes(f, "idle", 0)
    /\ UNCHANGED <<ppAge, deploys, onChain, deposits, lapsed, holding, canceller, expiry, escrowFaults>>

\* Trustless Work builds the deposit and it is recorded, for the contract the
\* request holds; the payment is not read again.
RecordFund(f) ==
    /\ funder[f].pc = "build"
    /\ deposits' = IF funder[f].c = 0 THEN deposits
                   ELSE [deposits EXCEPT ![f] = [status |-> "BUILT", c |-> funder[f].c]]
    /\ FundGoes(f, "done", 0)
    /\ UNCHANGED <<pp, ppAge, deploys, onChain, lapsed, holding, canceller, expiry, escrowFaults>>

-----------------------------------------------------------------------------
(* The deposit: signed by the buyer, relayed, applied; the sync job          *)

\* A step of the lifecycle is a compare-and-swap on the statuses it may leave.
Funded(row) == IF row.status = "AWAITING_FUNDING" THEN [row EXCEPT !.status = "FUNDED"] ELSE row

\* The signed deposit reaches the ledger: relayed and answered SUCCESS, or without
\* an answer (a failed call releases the claim), or not through this service.
LandDeposit(f) ==
    /\ deposits[f].status = "BUILT" /\ f \notin lapsed
    /\ holding' = holding \cup {deposits[f].c}
    /\ \/ /\ deposits' = [deposits EXCEPT ![f].status = "SUBMITTED"]
          /\ pp' = Funded(pp)
       \/ UNCHANGED <<deposits, pp>>
    /\ UNCHANGED <<ppAge, deploys, onChain, lapsed, funder, canceller, expiry, escrowFaults>>

LapseDeposit(f) ==
    /\ deposits[f].status = "BUILT" /\ f \notin lapsed /\ lapsed' = lapsed \cup {f}
    /\ UNCHANGED <<pp, ppAge, deploys, onChain, deposits, holding, funder, canceller, expiry, escrowFaults>>

SyncsInWindow == pp.status = "AWAITING_FUNDING" /\ ppAge = 0
\* The sync job reads the open payments back from their contracts.
Syncs == pp.status = "AWAITING_FUNDING"

SyncFunding ==
    /\ Syncs /\ pp.c \in holding /\ pp' = Funded(pp)
    /\ UNCHANGED <<ppAge, deploys, onChain, deposits, lapsed, holding, funder, canceller, expiry, escrowFaults>>

-----------------------------------------------------------------------------
(* cancel, and the expiry job                                                *)

\* A deposit handed out that could still land.
Outstanding == \E f \in Funders : deposits[f].status = "BUILT" /\ f \notin lapsed

\* What both check: no deposit can land, and the contract is empty.
CancelChecks(m) ==
    /\ canceller[m] = "idle" /\ pp.status \in Unfunded /\ ~Outstanding
    /\ canceller' = [canceller EXCEPT ![m] = "balance"]
    /\ UNCHANGED <<pp, ppAge, deploys, onChain, deposits, lapsed, holding, funder, expiry, escrowFaults>>

CancelReadsBalance(m) ==
    /\ canceller[m] = "balance"
    /\ canceller' = [canceller EXCEPT ![m] = IF pp.c \in holding THEN "done" ELSE "cancel"]
    /\ UNCHANGED <<pp, ppAge, deploys, onChain, deposits, lapsed, holding, funder, expiry, escrowFaults>>

Ended(status) == IF pp.status \in Unfunded THEN [pp EXCEPT !.status = status] ELSE pp

Cancel(m) ==
    /\ canceller[m] = "cancel" /\ pp' = Ended("CANCELLED")
    /\ canceller' = [canceller EXCEPT ![m] = "done"]
    /\ UNCHANGED <<ppAge, deploys, onChain, deposits, lapsed, holding, funder, expiry, escrowFaults>>

AtExpiry == ppAge >= 1
\* fundingExpiresAt and TRUSTLESS_WORK_BUILD_TTL_MS are past.
MayLook == ppAge = 2

ExpiryChecks ==
    /\ expiry = "idle" /\ pp.status \in Unfunded /\ MayLook /\ ~Outstanding
    /\ expiry' = IF pp.c = 0 THEN "expire" ELSE "balance"
    /\ UNCHANGED <<pp, ppAge, deploys, onChain, deposits, lapsed, holding, funder, canceller, escrowFaults>>

ExpiryReadsBalance ==
    /\ expiry = "balance" /\ expiry' = IF pp.c \in holding THEN "idle" ELSE "expire"
    /\ UNCHANGED <<pp, ppAge, deploys, onChain, deposits, lapsed, holding, funder, canceller, escrowFaults>>

Expire ==
    /\ expiry = "expire" /\ expiry' = "idle" /\ pp' = Ended("EXPIRED")
    /\ UNCHANGED <<ppAge, deploys, onChain, deposits, lapsed, holding, funder, canceller, escrowFaults>>

\* Time: a request is over long before a build's life has passed.
AgeFunding ==
    /\ pp.status # "ABSENT" /\ ppAge < 2 /\ ppAge' = ppAge + 1
    /\ ppAge = 1 => \A f \in Funders : funder[f].pc \in {"idle", "done"}
    /\ UNCHANGED <<pp, deploys, onChain, deposits, lapsed, holding, funder, canceller, expiry, escrowFaults>>

FundStep(f) ==
    \/ RecoverDeploy(f) \/ ClaimDeploy(f) \/ BuildDeploy(f) \/ ClaimRelay(f)
    \/ SendDeploy(f) \/ FinishDeploy(f) \/ RecordFund(f)

ExpiryStep == ExpiryChecks \/ ExpiryReadsBalance \/ Expire

EscrowFundingNext ==
    \/ CreateProtected \/ LeaseLapses \/ SyncFunding \/ ExpiryStep \/ AgeFunding
    \/ \E f \in Funders : FundReads(f) \/ FundStep(f) \/ LandDeposit(f) \/ LapseDeposit(f) \/ DieFund(f)
    \/ \E k \in Contracts : LapseDeploy(k)
    \/ \E m \in Cancellers : CancelChecks(m) \/ CancelReadsBalance(m) \/ Cancel(m)

\* The jobs are scheduled, time passes and a request that started ends.
EscrowFundingFairness ==
    /\ WF_efVars(SyncFunding) /\ WF_efVars(AgeFunding) /\ WF_efVars(ExpiryStep)
    /\ \A f \in Funders : WF_efVars(FundStep(f)) /\ WF_efVars(LapseDeposit(f))

-----------------------------------------------------------------------------
\* Through two requests that both deploy, a lapsed lease, lost answers and
\* recovered deploys, a deposit is only ever built for the contract the row keeps.
DepositToBoundContract ==
    \A f \in Funders : deposits[f].status # "none" => deposits[f].c = pp.c

\* "Three things keep a deposit from landing in an expired payment".
ExpiredHoldsNothing == pp.status = "EXPIRED" => holding = {}

\* No deposit is lost sight of: it is in the contract the row keeps, and no row with
\* one expires.
FundsAccountedFor == DepositToBoundContract /\ ExpiredHoldsNothing

\* A deposit moves the payment to FUNDED, also when its answer was lost, and a
\* payment nobody funds ends.
FundingEnds ==
    /\ holding # {} ~> pp.status \in {"FUNDED", "CANCELLED"}
    /\ pp.status = "CREATED" ~> pp.status \notin Unfunded

\* "so no deposit lands in a payment that already ended".
CancelledHoldsNothing == pp.status = "CANCELLED" => holding = {}
=============================================================================
