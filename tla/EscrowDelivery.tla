--------------------------- MODULE EscrowDelivery ---------------------------
(***************************************************************************)
(* A funded protected payment until its contract pays out.  The parties    *)
(* ship, approve, release and dispute with transactions this service       *)
(* builds, records and relays; the platform opens a dispute for a buyer    *)
(* without a role or when the delivery deadline has passed, and the        *)
(* resolver splits the balance.  The row is moved by the relays, which     *)
(* apply what Trustless Work answered, and by the sync job, which reads    *)
(* the contract.  A relayed call may land and still end in an error.       *)
(***************************************************************************)
EXTENDS Integers, FiniteSets

CONSTANTS
    AutoPolicy,     \* the deadline policy is one the server settles itself
    BuyerHoldsRole, \* the release model gives the buyer a role
    PartyActs,      \* bound: the steps the parties take through this service
    MaxServerRows,  \* bound: rows the server builds and signs, per action
    DeliveryFaults  \* bound: lost answers, dead processes, acts elsewhere

ASSUME DeliveryBounds ==
    /\ AutoPolicy \in BOOLEAN /\ BuyerHoldsRole \in BOOLEAN
    /\ PartyActs \subseteq {"SHIPPED", "APPROVED", "RELEASED", "DISPUTED"}
    /\ MaxServerRows \in Nat /\ DeliveryFaults \in Nat

VARIABLES
    escrow,     \* the protected_payment row: status, timestamps set, disputedBy
    contract,   \* what happened in the contract, as a set of steps
    opener,     \* whose request opened the dispute of the contract
    edTx,       \* the recorded transactions: status, result and context of each
    toApply,    \* relays answered whose step is not yet taken
    relayers,   \* transactions a request or a job is about to relay, and for whom
    sync,       \* local state of the sync job
    overdue,    \* the delivery deadline has passed
    edFaults    \* faults so far

edVars == <<escrow, contract, opener, edTx, toApply, relayers, sync, overdue, edFaults>>

PartyRows == PartyActs \X {0}
ServerRows(a) == {a} \X (1..MaxServerRows)
TxRows == PartyRows \cup ServerRows("DISPUTED") \cup ServerRows("RESOLVED")
Nobody == "nobody"
NoTxRow == [status |-> "none", ok |-> FALSE, by |-> Nobody]

EscrowDeliveryInit ==
    /\ escrow = [status |-> "ABSENT", stamps |-> {}, by |-> Nobody]
    /\ contract = {} /\ opener = Nobody /\ overdue = FALSE /\ edFaults = 0
    /\ edTx = [x \in TxRows |-> NoTxRow]
    /\ toApply = {} /\ relayers = {} /\ sync = [pc |-> "idle", todo |-> {}]

DeliveryFault == edFaults < DeliveryFaults /\ edFaults' = edFaults + 1

FundsArrive ==
    /\ escrow.status = "ABSENT" /\ escrow' = [escrow EXCEPT !.status = "FUNDED"]
    /\ UNCHANGED <<contract, opener, edTx, toApply, relayers, sync, overdue, edFaults>>

-----------------------------------------------------------------------------
(* The lifecycle's table, and its compare-and-swap                           *)

InDelivery == {"FUNDED", "SHIPPED", "APPROVED"}

\* stepFrom, of the statuses a funded payment can have.
StepFrom(step) ==
    CASE step = "SHIPPED" -> {"FUNDED"}
      [] step = "APPROVED" -> {"FUNDED", "SHIPPED"}
      [] step \in {"RELEASED", "DISPUTED"} -> InDelivery
      [] step = "RESOLVED" -> InDelivery \cup {"DISPUTED"}

BuildableFrom(step) ==
    CASE step = "RELEASED" -> {"APPROVED"} [] step = "RESOLVED" -> {"DISPUTED"} [] OTHER -> StepFrom(step)

Stepped(step, by) ==
    IF escrow.status \in StepFrom(step) /\ step \notin escrow.stamps
    THEN [status |-> step, stamps |-> escrow.stamps \cup {step},
          by |-> IF step = "DISPUTED" THEN by ELSE escrow.by]
    ELSE escrow

-----------------------------------------------------------------------------
(* Building, relaying and applying a transaction                             *)

\* ship, approve, release, dispute: a party is handed a transaction to sign, and
\* submits it in a request of its own.
PartyBuilds(x, by) ==
    /\ x \in PartyRows /\ edTx[x].status = "none" /\ escrow.status \in BuildableFrom(x[1])
    /\ x[1] = "DISPUTED" \/ by = "MERCHANT"
    /\ by = "BUYER" => BuyerHoldsRole
    /\ edTx' = [edTx EXCEPT ![x] = [status |-> "BUILT", ok |-> FALSE, by |-> by]]
    /\ UNCHANGED <<escrow, contract, opener, toApply, relayers, sync, overdue, edFaults>>

PartySubmits(x) ==
    /\ x \in PartyRows /\ edTx[x].status # "none" /\ relayers' = relayers \cup {<<x, edTx[x].by>>}
    /\ UNCHANGED <<escrow, contract, opener, edTx, toApply, sync, overdue, edFaults>>

\* What the contract accepts (external).
ContractTakes(step) ==
    /\ step \notin contract /\ contract \cap {"RELEASED", "RESOLVED"} = {}
    /\ step = "RESOLVED" <=> "DISPUTED" \in contract
    /\ step = "RELEASED" => "APPROVED" \in contract

Lands(step, by) ==
    /\ contract' = contract \cup {step}
    /\ opener' = IF step = "DISPUTED" THEN by ELSE opener

\* relay: an answered row is answered again; an unanswered one is sent.  The answer
\* is stored, or lost with the claim released, whether it landed or not.
Relay(x, by) ==
    /\ <<x, by>> \in relayers /\ relayers' = relayers \ {<<x, by>>}
    /\ \/ /\ edTx[x].status = "SUBMITTED" /\ toApply' = toApply \cup {x}
          /\ UNCHANGED <<contract, opener, edTx, edFaults>>
       \/ /\ edTx[x].status = "BUILT" /\ ContractTakes(x[1]) /\ Lands(x[1], by)
          /\ edTx' = [edTx EXCEPT ![x].status = "SUBMITTED", ![x].ok = TRUE]
          /\ toApply' = toApply \cup {x} /\ UNCHANGED edFaults
       \/ /\ edTx[x].status = "BUILT" /\ ~ContractTakes(x[1])
          /\ edTx' = [edTx EXCEPT ![x].status = "SUBMITTED"]
          /\ toApply' = toApply \cup {x} /\ UNCHANGED <<contract, opener, edFaults>>
       \/ /\ edTx[x].status = "BUILT" /\ DeliveryFault /\ UNCHANGED <<edTx, toApply>>
          /\ \/ ContractTakes(x[1]) /\ Lands(x[1], by)
             \/ UNCHANGED <<contract, opener>>
    /\ UNCHANGED <<escrow, sync, overdue>>

Answered(x) == TRUE
\* apply moves the row only for an answer SUCCESS.
Succeeded(x) == edTx[x].ok

Apply(x) ==
    /\ x \in toApply /\ toApply' = toApply \ {x}
    /\ \/ escrow' = (IF Succeeded(x) THEN Stepped(x[1], edTx[x].by) ELSE escrow) /\ UNCHANGED edFaults
       \/ DeliveryFault /\ UNCHANGED escrow
    /\ UNCHANGED <<contract, opener, edTx, relayers, sync, overdue>>

\* A party acts through Trustless Work's own tools.
ActElsewhere(step) ==
    /\ escrow.status # "ABSENT" /\ step # "RESOLVED" /\ ContractTakes(step) /\ DeliveryFault
    /\ Lands(step, "MERCHANT")
    /\ UNCHANGED <<escrow, edTx, toApply, relayers, sync, overdue>>

-----------------------------------------------------------------------------
(* What the server signs: the platform's disputes, the resolver's splits     *)

Newest(x) ==
    edTx[x].status # "none" /\ \A y \in ServerRows(x[1]) : edTx[y].status # "none" => y[2] <= x[2]

\* pendingServerRow, or a new row: whoever it was built for, an unsent one is reused.
ServerSends(a, by) ==
    \/ \E x \in ServerRows(a) :
         /\ Newest(x) /\ edTx[x].status = "BUILT"
         /\ relayers' = relayers \cup {<<x, by>>} /\ UNCHANGED edTx
    \/ /\ \A x \in ServerRows(a) : Newest(x) => edTx[x].status = "SUBMITTED"
       /\ \E x \in ServerRows(a) :
            /\ edTx[x].status = "none" /\ \A y \in ServerRows(a) : y[2] < x[2] => edTx[y].status # "none"
            /\ edTx' = [edTx EXCEPT ![x] = [status |-> "BUILT", ok |-> FALSE, by |-> by]]
            /\ relayers' = relayers \cup {<<x, by>>}

\* The deadline job waits for its own relay.
Waiting(a) == \E r \in relayers : r[1][1] = a /\ r[2] = "DEADLINE"

\* A buyer without a role proves its key, and the platform opens the dispute.
BuyerDisputes ==
    /\ ~BuyerHoldsRole /\ escrow.status \in BuildableFrom("DISPUTED") /\ ServerSends("DISPUTED", "BUYER")
    /\ UNCHANGED <<escrow, contract, opener, toApply, sync, overdue, edFaults>>

\* ops decides through the admin route; the resolver signs, and it is relayed.
OpsResolves ==
    /\ escrow.status = "DISPUTED" /\ ServerSends("RESOLVED", "OPS")
    /\ UNCHANGED <<escrow, contract, opener, toApply, sync, overdue, edFaults>>

DeadlinePasses ==
    /\ escrow.status # "ABSENT" /\ ~overdue /\ overdue' = TRUE
    /\ UNCHANGED <<escrow, contract, opener, edTx, toApply, relayers, sync, edFaults>>

MarkPassed ==
    /\ overdue /\ escrow.status \in InDelivery /\ "DEADLINE_PASSED" \notin escrow.stamps
    /\ escrow' = [escrow EXCEPT !.stamps = @ \cup {"DEADLINE_PASSED"}]
    /\ UNCHANGED <<contract, opener, edTx, toApply, relayers, sync, overdue, edFaults>>

DisputesShipped == escrow.status \in {"FUNDED", "SHIPPED"}
Disputable == escrow.status \in InDelivery

DisputeAuto ==
    /\ AutoPolicy /\ Disputable /\ "DEADLINE_PASSED" \in escrow.stamps
    /\ ~Waiting("DISPUTED") /\ ServerSends("DISPUTED", "DEADLINE")
    /\ UNCHANGED <<escrow, contract, opener, toApply, sync, overdue, edFaults>>

ResolveAuto ==
    /\ AutoPolicy /\ escrow.status = "DISPUTED" /\ escrow.by = "DEADLINE"
    /\ ~Waiting("RESOLVED") /\ ServerSends("RESOLVED", "DEADLINE")
    /\ UNCHANGED <<escrow, contract, opener, toApply, sync, overdue, edFaults>>

-----------------------------------------------------------------------------
(* The sync job                                                              *)

\* chainSteps: what the contract shows and the row read has not.
SyncReads ==
    /\ sync.pc = "idle" /\ escrow.status \in InDelivery \cup {"DISPUTED"}
    /\ contract \ escrow.stamps # {}
    /\ sync' = [pc |-> "apply", todo |-> contract \ escrow.stamps]
    /\ UNCHANGED <<escrow, contract, opener, edTx, toApply, relayers, overdue, edFaults>>

Order == [SHIPPED |-> 1, APPROVED |-> 2, DISPUTED |-> 3, RELEASED |-> 4, RESOLVED |-> 5]

Disputes == {x \in TxRows : x[1] = "DISPUTED" /\ edTx[x].status # "none"}
\* dataFor: the newest dispute recorded names who opened it, unless it was not sent.
DisputedBy(x) == IF edTx[x].status = "BUILT" THEN Nobody ELSE edTx[x].by

\* Which of a party's row and the server's newest is the newest of all is left open.
SyncStep ==
    /\ sync.pc = "apply"
    /\ \E step \in sync.todo :
         /\ \A other \in sync.todo : Order[step] <= Order[other]
         /\ \/ Disputes = {} /\ escrow' = Stepped(step, Nobody)
            \/ \E x \in Disputes :
                 /\ x[2] = 0 \/ \A y \in Disputes : y[2] <= x[2]
                 /\ escrow' = Stepped(step, DisputedBy(x))
         /\ sync' = IF sync.todo = {step} THEN [pc |-> "idle", todo |-> {}]
                    ELSE [sync EXCEPT !.todo = @ \ {step}]
    /\ UNCHANGED <<contract, opener, edTx, toApply, relayers, overdue, edFaults>>

DeadlineStep == MarkPassed \/ DisputeAuto \/ ResolveAuto \/ \E x \in TxRows : Relay(x, "DEADLINE")

EscrowDeliveryNext ==
    \/ FundsArrive \/ BuyerDisputes \/ OpsResolves \/ DeadlinePasses
    \/ DeadlineStep \/ SyncReads \/ SyncStep
    \/ \E x \in PartyRows : PartySubmits(x) \/ \E by \in {"BUYER", "MERCHANT"} : PartyBuilds(x, by)
    \/ \E r \in relayers : r[2] # "DEADLINE" /\ Relay(r[1], r[2])
    \/ \E x \in toApply : Apply(x)
    \/ \E step \in DOMAIN Order : ActElsewhere(step)

\* The jobs are scheduled, and what was answered is applied; no party has to act.
EscrowDeliveryFairness ==
    /\ WF_edVars(SyncReads \/ SyncStep) /\ WF_edVars(DeadlineStep)
    /\ WF_edVars(\E x \in toApply : Apply(x))

-----------------------------------------------------------------------------
\* The row never says more than the contract: every step it took happened there,
\* through optimistic answers, replays, lost answers and the sync's stale reads.
NeverAheadOfContract ==
    escrow.stamps \ {"DEADLINE_PASSED"} \subseteq contract

\* "The chain is authoritative": what the contract ended in reaches the row, also
\* when the answer was lost or the party acted elsewhere; and a payment of an
\* automatic policy past its deadline is not left in delivery.
ContractReachesRow ==
    /\ \A end \in {"RELEASED", "RESOLVED"} : end \in contract ~> escrow.status = end
    /\ AutoPolicy /\ overdue ~> escrow.status \notin InDelivery

\* "A dispute a party opened is never resolved here: ops decides it".
PartyDisputeLeftToOps ==
    opener \in {"BUYER", "MERCHANT"} => \A x \in ServerRows("RESOLVED") : edTx[x].by # "DEADLINE"
=============================================================================
