----------------------------- MODULE Settlement -----------------------------
(***************************************************************************)
(* Swaps and liquidity-pool operations: the server builds a transaction,   *)
(* the customer signs it, and either hands it back to `submit`             *)
(* (SignedTransactionRelay) or broadcasts it from the wallet.  The relay   *)
(* and the settlement observer write the same rows through the compare-    *)
(* and-swap of SettlementRepository, and look the transaction up on a      *)
(* Horizon that may lag the ledger or not answer.                          *)
(*                                                                         *)
(* (network, txHash) is unique, so a row stands for its transaction too.   *)
(* Rows are numbered in the order they were created.                       *)
(***************************************************************************)
EXTENDS Integers, FiniteSets

CONSTANTS
    MaxRows,       \* bound: rows created
    Owner,         \* the consumer of each row
    Deposits,      \* the rows that are liquidity-pool deposits
    Relays,        \* task slots of `submit`
    Sweepers,      \* task slots of the settlement observer
    MaxResubmits,  \* SETTLEMENT_MAX_RESUBMITS
    BatchSize,     \* OBSERVER_BATCH_SIZE
    PerConsumer,   \* SETTLEMENT_MAX_ROWS_PER_CONSUMER
    RecheckMax     \* SETTLEMENT_FAILED_RECHECK_MAX_ROWS

Rows == 1..MaxRows

ASSUME SettlementBounds ==
    /\ MaxRows \in Nat \ {0}
    /\ MaxResubmits \in Nat
    /\ BatchSize \in Nat \ {0}
    /\ PerConsumer \in Nat \ {0}
    /\ RecheckMax \in Nat \ {0}
ASSUME SettlementInputs ==
    /\ DOMAIN Owner = Rows
    /\ Deposits \subseteq Rows
    /\ Relays \cap Sweepers = {}

-----------------------------------------------------------------------------
\* swap-transitions.ts and lp-operation-transitions.ts

Statuses == {"PENDING", "SUBMITTED", "SUCCEEDED", "FAILED", "EXPIRED"}

InFlight   == {"PENDING", "SUBMITTED"}
CanSucceed == {"PENDING", "SUBMITTED", "FAILED", "EXPIRED"}
Relayable  == {"PENDING", "SUBMITTED", "FAILED"}

\* LP_OPERATION_TRANSITIONS, the graph declared for both tables' statuses.
DeclaredGraph ==
    [s \in Statuses |->
        CASE s = "PENDING"   -> {"SUBMITTED", "SUCCEEDED", "FAILED", "EXPIRED"}
          [] s = "SUBMITTED" -> {"SUCCEEDED", "FAILED", "EXPIRED"}
          [] s = "FAILED"    -> {"SUBMITTED", "SUCCEEDED"}
          [] s = "EXPIRED"   -> {"SUCCEEDED", "FAILED"}
          [] OTHER           -> {}]

-----------------------------------------------------------------------------
VARIABLES
    status,    \* swap.status, "ABSENT" before the insert
    epoch,     \* settlementEpoch
    lapsed,    \* rows whose expiresAt (and maxTime) has passed
    basis,     \* deposits whose sharesReceived is captured
    chain,     \* what the ledger holds of the row's transaction
    ingested,  \* rows whose transaction Horizon can show
    notified,  \* webhook_emitted_event: <<outcome, epoch>> keys per row
    task,      \* the local state of each handler
    lagged     \* history: rows that lapsed while Horizon lagged their transaction

row   == <<status, epoch, lapsed, basis>>
world == <<chain, ingested>>
vars  == <<row, world, notified, task, lagged>>

Workers == Relays \cup Sweepers

\* `flag` is what the next step branches on: the verdict of a compare-and-swap,
\* a rejection code that proves the transaction never applied, or whether the
\* row had lapsed when the batch was read.
Idle == [pc |-> "idle", op |-> "none", id |-> 0, flag |-> FALSE, to |-> "none", ep |-> 0]

At(w, pc) == task[w].pc = pc
Step(w, r) == task' = [task EXCEPT ![w] = r]
Goto(w, pc) == Step(w, [task[w] EXCEPT !.pc = pc])
Done(w) == Step(w, Idle)

Init ==
    /\ status   = [r \in Rows |-> "ABSENT"]
    /\ epoch    = [r \in Rows |-> 0]
    /\ lapsed   = {}
    /\ basis    = {}
    /\ chain    = [r \in Rows |-> "none"]
    /\ ingested = {}
    /\ notified = [r \in Rows |-> {}]
    /\ task     = [w \in Workers |-> Idle]
    /\ lagged   = {}

-----------------------------------------------------------------------------
\* The world: the customer, the network, the clock.

Create(r) ==
    /\ status[r] = "ABSENT"
    /\ \A q \in Rows : q < r => status[q] # "ABSENT"
    /\ status' = [status EXCEPT ![r] = "PENDING"]
    /\ UNCHANGED <<epoch, lapsed, basis, world, notified, task, lagged>>

\* The network includes the transaction - broadcast by the wallet, or by a relay
\* that never heard the answer - within its time bounds.
CanLand(r) == status[r] # "ABSENT" /\ r \notin lapsed /\ chain[r] = "none"

Land(r, result) ==
    /\ CanLand(r)
    /\ chain' = [chain EXCEPT ![r] = result]
    /\ UNCHANGED <<row, ingested, notified, task, lagged>>

\* Horizon catches up with the ledger.
Ingest(r) ==
    /\ chain[r] # "none" /\ r \notin ingested
    /\ ingested' = ingested \cup {r}
    /\ UNCHANGED <<row, chain, notified, task, lagged>>

Lapse(r) ==
    /\ status[r] # "ABSENT" /\ r \notin lapsed
    /\ lapsed' = lapsed \cup {r}
    /\ lagged' = IF chain[r] # "none" /\ r \notin ingested THEN lagged \cup {r} ELSE lagged
    /\ UNCHANGED <<status, epoch, basis, world, notified, task>>

\* transactionSettlement: Horizon's answer, a 404, or no answer at all.
Lookups == {"succeeded", "failed", "absent", "unknown"}
OutageIsAbsent(r) == {IF r \in ingested THEN chain[r] ELSE "absent", "absent"}
Verdicts(r) == {IF r \in ingested THEN chain[r] ELSE "absent", "unknown"}

-----------------------------------------------------------------------------
\* SignedTransactionRelay.submit

\* A FAILED row that has spent its resubmits.
Exhausted(r) == status[r] = "FAILED" /\ epoch[r] >= MaxResubmits

\* The row is read; the envelope is the row's own (verifiedEnvelope), and what
\* can no longer succeed is refused.
Submit(w, r) ==
    /\ At(w, "idle")
    /\ status[r] \in Relayable /\ ~Exhausted(r) /\ r \notin lapsed
    /\ Step(w, [Idle EXCEPT !.pc = "resend", !.op = "relay", !.id = r])
    /\ UNCHANGED <<row, world, notified, lagged>>

\* markSubmitted's first statement: FAILED -> SUBMITTED in a new epoch.
UncappedResend(r) == status[r] = "FAILED"
CanResend(r) == status[r] = "FAILED" /\ epoch[r] < MaxResubmits

Resend(w) ==
    LET r == task[w].id
    IN  /\ At(w, "resend")
        /\ status' = IF CanResend(r) THEN [status EXCEPT ![r] = "SUBMITTED"] ELSE status
        /\ epoch'  = IF CanResend(r) THEN [epoch EXCEPT ![r] = @ + 1] ELSE epoch
        /\ Goto(w, IF CanResend(r) THEN "marked" ELSE "mark")
        /\ UNCHANGED <<lapsed, basis, world, notified, lagged>>

\* Its second statement: PENDING -> SUBMITTED.
Mark(w) ==
    LET r == task[w].id
    IN  /\ At(w, "mark")
        /\ status' = IF status[r] = "PENDING" THEN [status EXCEPT ![r] = "SUBMITTED"] ELSE status
        /\ Goto(w, "marked")
        /\ UNCHANGED <<epoch, lapsed, basis, world, notified, lagged>>

\* The row as it is read back decides whether to broadcast.
Marked(w) ==
    /\ At(w, "marked")
    /\ IF status[task[w].id] = "SUBMITTED" THEN Goto(w, "broadcast") ELSE Done(w)
    /\ UNCHANGED <<row, world, notified, lagged>>

\* submitTransaction.  Confirmed: on the ledger and ingested.
Confirmed(w) ==
    LET r == task[w].id
    IN  /\ At(w, "broadcast")
        /\ CanLand(r) \/ chain[r] = "succeeded"
        /\ chain' = [chain EXCEPT ![r] = "succeeded"]
        /\ ingested' = ingested \cup {r}
        /\ Goto(w, "succeed")
        /\ UNCHANGED <<row, notified, lagged>>

\* Rejected with result codes: applied and failed, refused before it was applied
\* (NOT_APPLIED_REJECTION_CODES), or refused as a duplicate, a bad sequence
\* number or too late.
Rejected(w) ==
    LET r == task[w].id
    IN  /\ At(w, "broadcast")
        /\ \/ /\ CanLand(r)
              /\ chain' = [chain EXCEPT ![r] = "failed"]
              /\ ingested' = ingested \cup {r}
              /\ Step(w, [task[w] EXCEPT !.pc = "rejected", !.flag = FALSE])
           \/ /\ chain[r] = "none"
              /\ Step(w, [task[w] EXCEPT !.pc = "rejected", !.flag = TRUE])
              /\ UNCHANGED world
           \/ /\ Step(w, [task[w] EXCEPT !.pc = "rejected", !.flag = FALSE])
              /\ UNCHANGED world
        /\ UNCHANGED <<row, notified, lagged>>

\* settleRejected: what the rejection comes to, decided by the ledger.
DuplicateIsSettled(verdict, neverApplied) ==
    IF verdict = "succeeded" \/ (verdict = "absent" /\ ~neverApplied) THEN "succeed"
    ELSE IF verdict = "unknown" THEN "idle"
    ELSE "fail"
AfterRejection(verdict, neverApplied) ==
    IF verdict = "succeeded" THEN "succeed"
    ELSE IF verdict = "unknown" \/ (verdict = "absent" /\ ~neverApplied) THEN "idle"
    ELSE "fail"

SettleRejected(w) ==
    /\ At(w, "rejected")
    /\ \E v \in Verdicts(task[w].id) :
          LET pc == AfterRejection(v, task[w].flag)
          IN  IF pc = "idle" THEN Done(w) ELSE Goto(w, pc)
    /\ UNCHANGED <<row, world, notified, lagged>>

\* A Horizon that cannot be reached (503), any other error, or the death of the
\* pod: what was committed stays.
Abort(w) ==
    /\ ~At(w, "idle")
    /\ Done(w)
    /\ UNCHANGED <<row, world, notified, lagged>>

-----------------------------------------------------------------------------
\* SettlementRepository: one compare-and-swap each.

\* Only the winner goes on to announce it.  A caller that lost to another
\* success still captures the basis (withDepositBasis).
FinalizeSucceeded(w) ==
    LET r == task[w].id
    IN  /\ At(w, "succeed")
        /\ IF status[r] \in CanSucceed
             THEN /\ status' = [status EXCEPT ![r] = "SUCCEEDED"]
                  /\ Step(w, [task[w] EXCEPT !.pc = "reread", !.to = "SUCCEEDED"])
             ELSE Goto(w, "basis") /\ UNCHANGED status
        /\ UNCHANGED <<epoch, lapsed, basis, world, notified, lagged>>

FinalizeFailed(w) ==
    LET r == task[w].id
    IN  /\ At(w, "fail")
        /\ IF status[r] \in InFlight
             THEN /\ status' = [status EXCEPT ![r] = "FAILED"]
                  /\ Step(w, [task[w] EXCEPT !.pc = "reread", !.to = "FAILED"])
             ELSE Done(w) /\ UNCHANGED status
        /\ UNCHANGED <<epoch, lapsed, basis, world, notified, lagged>>

FinalizeExpired(w) ==
    LET r == task[w].id
    IN  /\ At(w, "expire")
        /\ status' = IF status[r] \in InFlight THEN [status EXCEPT ![r] = "EXPIRED"] ELSE status
        /\ Done(w)
        /\ UNCHANGED <<epoch, lapsed, basis, world, notified, lagged>>

\* guardedUpdate's second statement: the row "a moment after the write".
Reread(w) ==
    /\ At(w, "reread")
    /\ Step(w, [task[w] EXCEPT !.pc = "emit", !.ep = epoch[task[w].id]])
    /\ UNCHANGED <<row, world, notified, lagged>>

\* WebhookTerminalEmitter.emit: the claim and the deliveries under type:id:epoch;
\* a key already claimed is a suppressed duplicate.
Emit(w) ==
    LET r == task[w].id
    IN  /\ At(w, "emit")
        /\ notified' = [notified EXCEPT ![r] = @ \cup {<<task[w].to, task[w].ep>>}]
        /\ IF task[w].to = "SUCCEEDED" THEN Goto(w, "basis") ELSE Done(w)
        /\ UNCHANGED <<row, world, lagged>>

\* captureDepositBasis: a settled deposit without one gets its basis.  The
\* Horizon call may fail, which is Abort.
CaptureDepositBasis(w) ==
    LET r == task[w].id
    IN  /\ At(w, "basis")
        /\ basis' = IF r \in Deposits /\ status[r] = "SUCCEEDED" THEN basis \cup {r} ELSE basis
        /\ Done(w)
        /\ UNCHANGED <<status, epoch, lapsed, world, notified, lagged>>

-----------------------------------------------------------------------------
\* SettlementObserverService: reconcile, heal, backfillDepositBasis.

\* Rows S dealt round-robin: every consumer's first row before anyone's second,
\* at most PerConsumer each and n in all.  `age` orders the rows of one consumer:
\* oldest first or newest first.
Oldest == 1
Newest == -1

Deal(S, n, age) ==
    LET rank(r) == Cardinality({q \in S : Owner[q] = Owner[r] /\ age * q < age * r})
        first(q, r) == rank(q) < rank(r) \/ (rank(q) = rank(r) /\ age * q < age * r)
    IN  {r \in S : /\ rank(r) < PerConsumer
                   /\ Cardinality({q \in S : first(q, r)}) < n}

PendingOnly == Deal({r \in Rows : status[r] = "PENDING"}, BatchSize, Oldest)
SelectInFlight == Deal({r \in Rows : status[r] \in InFlight}, BatchSize, Oldest)

SelectRecentlyFailed == Deal({r \in Rows : status[r] = "FAILED"}, RecheckMax, Newest)

\* reconcile reads its batch, and the clock, before any lookup.
Reconcile(w, r) ==
    /\ At(w, "idle")
    /\ r \in SelectInFlight
    /\ Step(w, [Idle EXCEPT !.pc = "look", !.op = "reconcile", !.id = r, !.flag = r \in lapsed])
    /\ UNCHANGED <<row, world, notified, lagged>>

Heal(w, r) ==
    /\ At(w, "idle")
    /\ r \in SelectRecentlyFailed
    /\ Step(w, [Idle EXCEPT !.pc = "look", !.op = "heal", !.id = r])
    /\ UNCHANGED <<row, world, notified, lagged>>

\* The lookup.  Only a success heals; only a positive 404 expires.
NeverHeals(op, verdict, late) ==
    IF op = "heal" THEN "idle"
    ELSE IF verdict = "succeeded" THEN "succeed"
    ELSE IF verdict = "failed" THEN "fail"
    ELSE IF verdict = "absent" /\ late THEN "expire"
    ELSE "idle"
Outcome(op, verdict, late) ==
    IF verdict = "succeeded" THEN "succeed"
    ELSE IF verdict = "failed" /\ op = "reconcile" THEN "fail"
    ELSE IF verdict = "absent" /\ op = "reconcile" /\ late THEN "expire"
    ELSE "idle"

Look(w, v) ==
    LET pc == Outcome(task[w].op, v, task[w].flag)
    IN  /\ At(w, "look")
        /\ v \in Verdicts(task[w].id)
        /\ IF pc = "idle" THEN Done(w) ELSE Goto(w, pc)
        /\ UNCHANGED <<row, world, notified, lagged>>

BasisMissing == {r \in Deposits : status[r] = "SUCCEEDED" /\ r \notin basis}

NoBackfill(w, r) == FALSE /\ UNCHANGED vars
BackfillDepositBasis(w, r) ==
    /\ At(w, "idle")
    /\ r \in BasisMissing
    /\ Cardinality({q \in BasisMissing : q < r}) < BatchSize
    /\ Step(w, [Idle EXCEPT !.pc = "basis", !.op = "backfill", !.id = r])
    /\ UNCHANGED <<row, world, notified, lagged>>

-----------------------------------------------------------------------------
Continue(w) ==
    \/ Resend(w) \/ Mark(w) \/ Marked(w) \/ Confirmed(w) \/ Rejected(w) \/ SettleRejected(w)
    \/ \E v \in Lookups : Look(w, v)
    \/ FinalizeSucceeded(w) \/ FinalizeFailed(w) \/ FinalizeExpired(w)
    \/ Reread(w) \/ Emit(w) \/ CaptureDepositBasis(w)

Next ==
    \/ \E r \in Rows :
          \/ Create(r) \/ Ingest(r) \/ Lapse(r)
          \/ \E result \in {"succeeded", "failed"} : Land(r, result)
          \/ \E w \in Relays : Submit(w, r)
          \/ \E w \in Sweepers : Reconcile(w, r) \/ Heal(w, r) \/ BackfillDepositBasis(w, r)
    \/ \E w \in Workers : Continue(w) \/ Abort(w)

Spec == Init /\ [][Next]_vars

\* Time passes and Horizon catches up.  A sweeper serves every row it keeps being
\* dealt, and Horizon, the database and the pod do not fail the same step of the
\* same row for ever: a lookup that is retried is answered in the end.  Nothing
\* is assumed of the customer and of the relay.
Fairness ==
    /\ WF_vars(\E r \in Rows : Lapse(r))
    /\ WF_vars(\E r \in Rows : Ingest(r))
    /\ \A w \in Sweepers :
        /\ WF_vars(Reread(w) \/ Emit(w))
        /\ \A r \in Rows :
            /\ SF_vars(Reconcile(w, r))
            /\ SF_vars(Heal(w, r))
            /\ SF_vars(BackfillDepositBasis(w, r))
            /\ SF_vars(task[w].id = r /\ \E v \in Lookups \ {"unknown"} : Look(w, v))
            /\ SF_vars(/\ task[w].id = r
                       /\ FinalizeSucceeded(w) \/ FinalizeFailed(w) \/ FinalizeExpired(w))
            /\ SF_vars(task[w].id = r /\ CaptureDepositBasis(w))

FairSpec == Spec /\ Fairness

-----------------------------------------------------------------------------
\* Properties.

Task ==
    [pc : {"idle", "resend", "mark", "marked", "broadcast", "rejected", "look",
           "succeed", "fail", "expire", "reread", "emit", "basis"},
     op : {"none", "relay", "reconcile", "heal", "backfill"},
     id : Rows \cup {0}, flag : BOOLEAN,
     to : {"none", "SUCCEEDED", "FAILED"}, ep : Nat]

\* Every variable keeps its type, and a running handler has the row it works on
\* and, when it announces, one of the two outcomes that are announced.
TypeOK ==
    /\ status \in [Rows -> Statuses \cup {"ABSENT"}]
    /\ epoch \in [Rows -> Nat]
    /\ lapsed \in SUBSET Rows
    /\ basis \in SUBSET Deposits
    /\ chain \in [Rows -> {"none", "succeeded", "failed"}]
    /\ ingested \in SUBSET Rows
    /\ notified \in [Rows -> SUBSET ({"SUCCEEDED", "FAILED"} \X Nat)]
    /\ task \in [Workers -> Task]
    /\ \A w \in Workers :
          /\ ~At(w, "idle") => task[w].id \in Rows
          /\ task[w].pc \in {"reread", "emit"} => task[w].to # "none"
    /\ lagged \in SUBSET Rows

\* A row is recorded as settled, announced as settled, or given a cost basis only
\* if its transaction succeeded on the ledger, whichever of the relay, the
\* observer and the healing pass got there first; and one settlement is
\* announced under one key, that of the attempt the row ended with.
SettledOnLedger ==
    \A r \in Rows :
        /\ status[r] = "SUCCEEDED" => chain[r] = "succeeded"
        /\ r \in basis => status[r] = "SUCCEEDED"
        /\ \A k \in notified[r] : k[1] = "SUCCEEDED" =>
              status[r] = "SUCCEEDED" /\ k[2] = epoch[r]

\* A row is expired only on a positive 404 read after its deadline: unless
\* Horizon still lagged the ledger when the deadline passed, the transaction of
\* an EXPIRED row never landed, through outages and late broadcasts.
ExpiredNeverLanded ==
    \A r \in Rows : status[r] = "EXPIRED" /\ r \notin lagged => chain[r] = "none"

\* "Concurrent resubmits cannot all bump past" the cap, and no event is ever
\* announced for an attempt that has not begun: with the dedup key this is what
\* holds a row to MaxResubmits + 1 FAILED events.
ResubmitsCapped ==
    \A r \in Rows :
        /\ epoch[r] <= MaxResubmits
        /\ \A k \in notified[r] : k[2] <= epoch[r]

\* Every status change is an edge of the declared graph at the moment it is
\* written, although the writers decided on it before: a settled row is never
\* degraded and an expired one never resubmitted.
StatusFollowsDeclaredGraph ==
    [][\A r \in Rows : status'[r] # status[r] =>
          \/ status[r] = "ABSENT" /\ status'[r] = "PENDING"
          \/ status[r] \in Statuses /\ status'[r] \in DeclaredGraph[status[r]]]_vars

\* "A quiet tenant is served on the next tick however large the backlog in front
\* of it": while no more consumers than the batch holds have rows in flight, the
\* oldest of each is in the batch, whatever has settled so far.
QuietTenantServed ==
    LET open == {r \in Rows : status[r] \in InFlight}
    IN  Cardinality({Owner[r] : r \in open}) <= BatchSize =>
            \A r \in open :
                (\A q \in open : Owner[q] = Owner[r] => r <= q) => r \in SelectInFlight

\* Every row leaves the in-flight statuses in the end: through relays that die
\* after marking it SUBMITTED, lookups that are not answered and resubmissions.
EveryRowCloses ==
    \A r \in Rows : status[r] \in InFlight ~> status[r] \notin InFlight

\* On-chain success wins over a rejection recorded in between: a transaction that
\* succeeded settles its row, unless Horizon lagged past the deadline or newer
\* failures keep the row out of the healing pass.
OnChainSuccessWins ==
    \A r \in Rows : chain[r] = "succeeded" ~>
        \/ status[r] = "SUCCEEDED"
        \/ r \in lagged
        \/ status[r] = "FAILED" /\ r \notin SelectRecentlyFailed

\* Under a fair observer a row ends, and ends where the ledger says.
EveryRowEnds == EveryRowCloses /\ OnChainSuccessWins

\* swap-transitions.ts: "a Horizon rejection / false expiry cannot beat on-chain
\* inclusion (observer/submit success heals a false terminal)".
FalseExpiryHeals ==
    \A r \in Rows : chain[r] = "succeeded" ~> status[r] = "SUCCEEDED"

\* A deposit that settled has its cost basis captured in the end, although the
\* capture that follows the settlement is best-effort and dies with the pod.
DepositGetsBasis ==
    \A r \in Deposits : status[r] = "SUCCEEDED" ~> r \in basis

=============================================================================
