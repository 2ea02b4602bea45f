--------------------------- MODULE PaymentIntents ---------------------------
(***************************************************************************)
(* The life of payment intents: the API handlers (create, PATCH, validate, *)
(* DELETE) and the on-chain observer run concurrently over rows of one     *)
(* database and a ledger neither controls.                                 *)
(*                                                                         *)
(* A handler is a task that alternates database statements and Horizon     *)
(* calls; every await is a step of its own, so two tasks interleave        *)
(* between any read and the write it leads to.  Steps that only answer the *)
(* caller change nothing and end the task.                                 *)
(*                                                                         *)
(* Intents are numbered in the order they were inserted, so "older" is <.  *)
(* Transactions are numbered in the order they closed; a hash can be       *)
(* reported before its transaction lands, or never land at all.            *)
(***************************************************************************)
EXTENDS Integers, Sequences, FiniteSets

CONSTANTS
    Consumers,   \* tenants (the shared public key is one of them)
    Terms,       \* what an intent may ask for, see TermsOK
    Payments,    \* what a transaction may contain, see PaymentOK
    MaxIntents,  \* bound: intents ever created
    MaxTxs,      \* bound: transactions ever closed
    Api,         \* task slots serving API requests
    Observers,   \* task slots of the observer (mapLimited's workers)
    Calls,       \* the API calls the callers of this instance make
    PatchTo,     \* the statuses they ask PATCH for
    RivalsMax,   \* SETTLEMENT_RIVALS_MAX
    ScanMax      \* PAYMENT_SCAN_MAX_PAGES * PAYMENT_SCAN_PAGE_SIZE

Ids  == 1..MaxIntents
Txs  == 1..MaxTxs
NoTx == 0
Open == 0                      \* an intent without a fixed amount

\* PAYMENT_INTENT_STATUSES
Statuses == {"PENDING", "SUBMITTED", "SUCCEEDED", "FAILED", "CANCELLED", "EXPIRED"}

AllCalls == {"validate", "settle", "patchHash", "patchStatus", "remove"}

\* An intent's terms.  `leg` is what the destination receives: `amount`, less a
\* merchant fee the recipient pays; `fee` is the fee's own operation, if any.
TermsOK(tm) ==
    /\ DOMAIN tm = {"memo", "dest", "amount", "leg", "fee"}
    /\ tm.fee = {} => tm.leg = tm.amount

\* A transaction: its memo and its payment operations.
PaymentOK(p) == DOMAIN p = {"memo", "ops"}

ASSUME BoundsAssumption ==
    /\ MaxIntents \in Nat \ {0}
    /\ MaxTxs \in Nat \ {0}
    /\ RivalsMax \in Nat \ {0}
    /\ ScanMax \in Nat \ {0}
ASSUME InputsAssumption ==
    /\ Consumers # {}
    /\ Terms # {} /\ \A tm \in Terms : TermsOK(tm)
    /\ Payments # {} /\ \A p \in Payments : PaymentOK(p)
    /\ Calls \subseteq AllCalls /\ PatchTo \subseteq Statuses \ {"SUCCEEDED"}
ASSUME TasksAssumption == Api \cap Observers = {}

-----------------------------------------------------------------------------
\* payment-intent-transitions.ts

Terminal == {"SUCCEEDED", "FAILED", "CANCELLED", "EXPIRED"}
OpenFor  == {"PENDING", "SUBMITTED"}          \* the observer still looks at it

Transitions ==
    [s \in Statuses |->
        CASE s = "PENDING"   -> Statuses \ {"PENDING"}
          [] s = "SUBMITTED" -> Statuses \ {"PENDING", "SUBMITTED"}
          [] s = "EXPIRED"   -> {"SUCCEEDED"}
          [] OTHER           -> {}]

CanTransition(from, to) == from \in Statuses /\ to \in Transitions[from]

\* assertTransition: the graph, a hash for SUCCEEDED, and proof out of EXPIRED.
AssertTransition(from, to, tx, verified) ==
    /\ CanTransition(from, to)
    /\ to = "SUCCEEDED" => tx # NoTx
    /\ to = "SUCCEEDED" /\ from = "EXPIRED" => verified

\* The events the emitter makes durable; the others only reach the bus.
TerminalEvents == {"SUCCEEDED", "FAILED"}

-----------------------------------------------------------------------------
VARIABLES
    status,     \* payment_intent.status; "ABSENT" before the insert, "DELETED" after
    txHash,     \* payment_intent.txHash, unique per consumer
    made,       \* what the insert fixed: consumer, terms, and how many
                \* transactions had closed too early to pay it
    due,        \* how many transactions closed within its lifetime so far
                \* (MaxTxs + 1 while expiresAt is in the future)
    audit,      \* actor of the intent's last payment_intent_transition row
    claim,      \* payment_settlement: the intent each transaction settled
    notified,   \* webhook_emitted_event: terminal events claimed per intent
    ledger,     \* closed transactions, in order
    task,       \* the local state of each running handler
    refused,    \* history: settlements of the intent refused with a 409
    reported    \* history: the hashes PATCH recorded on the intent

row  == <<status, txHash, made, due, audit>>
hist == <<refused, reported>>
vars == <<row, claim, notified, ledger, task, hist>>

Workers == Api \cup Observers
NoIntent == 0
NotDue == MaxTxs + 1

Idle == [pc |-> "idle", op |-> "none", id |-> NoIntent, tx |-> NoTx,
         st |-> "none", to |-> "none"]

Exists(i) == status[i] \in Statuses

-----------------------------------------------------------------------------
\* The chain, as stellar-verifier.service.ts reads it.

Closed == 1..Len(ledger)

\* memoMatches, paymentMatches and paysMerchantFee.
Matches(tm, p) ==
    /\ p.memo = tm.memo
    /\ \E op \in p.ops : op.to = tm.dest /\ tm.leg \in {Open, op.amount}
    /\ tm.fee \subseteq p.ops

\* The transaction is on the ledger, does not predate the intent, and matches.
PaymentOf(i, t) ==
    /\ t \in Closed
    /\ t > made[i].born
    /\ Matches(made[i].terms, ledger[t].payment)

\* verifyByHash(...).valid and .failedOnChain
Pays(i, t)         == PaymentOf(i, t) /\ ledger[t].successful
FailedOnChain(i, t) == PaymentOf(i, t) /\ ~ledger[t].successful

\* Transactions that paid the destination of intent i after t.
Buries(i, t) ==
    {u \in Closed : u > t /\ \E op \in ledger[u].payment.ops : op.to = made[i].terms.dest}

\* findMatchingPayment: the newest match among the ScanMax newest payments.
Found(i) == {t \in Closed : Pays(i, t) /\ Cardinality(Buries(i, t)) < ScanMax}
FindMatchingPayment(i, t) == t \in Found(i) /\ \A u \in Found(i) : u <= t

-----------------------------------------------------------------------------
\* settlement-rivals.ts

\* SETTLEMENT_RIVAL_FILTERS.stellar
SameAmount(tm, older) ==
    /\ older.memo = tm.memo
    /\ older.dest = tm.dest
    /\ tm.leg = Open \/ older.amount \in {Open, tm.leg}
SamePayment(tm, older) ==
    /\ older.memo = tm.memo
    /\ older.dest = tm.dest
    /\ tm.leg = Open \/ older.amount \in {Open, tm.leg} \/ older.fee # {}

\* Older intents of other consumers that describe the same payment.
Elders(i) ==
    {j \in Ids : /\ j < i
                 /\ status[j] # "ABSENT"
                 /\ made[j].consumer # made[i].consumer
                 /\ SamePayment(made[i].terms, made[j].terms)}

\* settlementRivalsQuery: those still in the running, the oldest RivalsMax.
Oldest(S, n) == {j \in S : Cardinality({k \in S : k < j}) < n}
Rivals(i) ==
    Oldest({j \in Elders(i) : status[j] \in OpenFor \cup {"SUCCEEDED"}}, RivalsMax)

-----------------------------------------------------------------------------
Init ==
    /\ status   = [i \in Ids |-> "ABSENT"]
    /\ txHash   = [i \in Ids |-> NoTx]
    /\ made     = [i \in Ids |-> [consumer |-> CHOOSE c \in Consumers : TRUE,
                                  terms    |-> CHOOSE tm \in Terms : TRUE,
                                  born     |-> 0]]
    /\ due      = [i \in Ids |-> NotDue]
    /\ audit    = [i \in Ids |-> "none"]
    /\ claim    = [t \in Txs |-> NoIntent]
    /\ notified = [i \in Ids |-> {}]
    /\ ledger   = <<>>
    /\ task     = [w \in Workers |-> Idle]
    /\ refused  = {}
    /\ reported = [i \in Ids |-> {}]

-----------------------------------------------------------------------------
\* The world outside the server.

\* A transaction closes, successful or failed.
Close(p, ok) ==
    /\ Len(ledger) < MaxTxs
    /\ ledger' = Append(ledger, [payment |-> p, successful |-> ok])
    /\ UNCHANGED <<row, claim, notified, task, hist>>

\* The clock passes the intent's expiresAt.
Lapse(i) ==
    /\ Exists(i)
    /\ due[i] = NotDue
    /\ due' = [due EXCEPT ![i] = Len(ledger)]
    /\ UNCHANGED <<status, txHash, made, audit, claim, notified, ledger, task, hist>>

-----------------------------------------------------------------------------
\* Creating an intent.

\* (consumerId, memo) is unique.  Both the lookup before the insert and the
\* violation of the index answer from the stored row and change nothing, so
\* the insert is the only step.
MemoTaken(c, memo) ==
    \E j \in Ids : Exists(j) /\ made[j].consumer = c /\ made[j].terms.memo = memo

\* createTx, createPay: the row gets the next id.  A transaction that closed
\* within TX_CREATED_AT_SKEW_MS before the insert still counts as the intent's.
Create(c, tm, born) ==
    \E i \in Ids :
        /\ status[i] = "ABSENT"
        /\ \A j \in Ids : j < i => status[j] # "ABSENT" /\ made[j].born <= born
        /\ ~MemoTaken(c, tm.memo)
        /\ born <= Len(ledger)
        /\ status' = [status EXCEPT ![i] = "PENDING"]
        /\ made' = [made EXCEPT ![i] = [consumer |-> c, terms |-> tm, born |-> born]]
        /\ UNCHANGED <<txHash, due, audit, claim, notified, ledger, task, hist>>

-----------------------------------------------------------------------------
\* Tasks.

At(w, pc) == task[w].pc = pc

\* The task goes on as r; the database is left alone.
Goto(w, r) ==
    /\ task' = [task EXCEPT ![w] = r]
    /\ UNCHANGED <<row, claim, notified, ledger>>

\* An error the handler does not absorb, a Horizon call that fails, or the
\* death of the pod: what the task had read is forgotten, what it committed
\* stays.
Abort(w) ==
    /\ ~At(w, "idle")
    /\ Goto(w, Idle)
    /\ UNCHANGED hist

\* POST /:id/validate reads the row; SUCCEEDED is answered at once.
Validate(w, i, t) ==
    /\ \/ At(w, "idle") /\ "validate" \in Calls
       \/ At(w, "settle") /\ task[w].id = i /\ task[w].tx = t
    /\ IF Exists(i) /\ status[i] # "SUCCEEDED"
         THEN Goto(w, [Idle EXCEPT !.pc = "verify", !.op = "validate",
                                   !.id = i, !.tx = t, !.st = status[i]])
         ELSE ~At(w, "idle") /\ Goto(w, Idle)
    /\ UNCHANGED hist

\* PATCH {status: SUCCEEDED, txHash}: the early check, then validate.
SettleFromApi(w, i, t) ==
    /\ At(w, "idle") /\ "settle" \in Calls
    /\ AssertTransition(status[i], "SUCCEEDED", t, TRUE)
    /\ Goto(w, [Idle EXCEPT !.pc = "settle", !.id = i, !.tx = t])
    /\ UNCHANGED hist

\* PATCH {status, txHash?} for every other status.
PatchStatus(w, i, to, t) ==
    /\ At(w, "idle") /\ "patchStatus" \in Calls
    /\ Exists(i)
    /\ Goto(w, [Idle EXCEPT !.pc = "transition", !.op = "api",
                            !.id = i, !.tx = t, !.to = to])
    /\ UNCHANGED hist

\* run's first query: an intent past its lifetime; its row is the snapshot the
\* rest of the pass works from.
SelectLapsed(w, i) ==
    /\ At(w, "idle")
    /\ status[i] \in OpenFor /\ due[i] # NotDue
    /\ Goto(w, [Idle EXCEPT !.pc = "verify", !.op = "expire",
                            !.id = i, !.tx = txHash[i], !.st = status[i]])
    /\ UNCHANGED hist

\* selectPending: a PENDING intent within its lifetime.
SelectPending(w, i) ==
    /\ At(w, "idle")
    /\ status[i] = "PENDING" /\ due[i] = NotDue
    /\ Goto(w, [Idle EXCEPT !.pc = "reconcile", !.op = "reconcile",
                            !.id = i, !.tx = txHash[i], !.st = status[i]])
    /\ UNCHANGED hist

\* reconcile leaves an intent that lapsed since the batch was read.
Reconcile(w) ==
    /\ At(w, "reconcile")
    /\ Goto(w, IF due[task[w].id] # NotDue THEN Idle
               ELSE [task[w] EXCEPT !.pc = "verify"])
    /\ UNCHANGED hist

-----------------------------------------------------------------------------
\* Asking the chain.

\* The settlement did not happen: settleOrExpire goes on to markExpired, the
\* other handlers are done.
UnsettledStays(w) == Idle
Unsettled(w) ==
    IF task[w].op = "expire"
      THEN [task[w] EXCEPT !.pc = "transition", !.tx = NoTx, !.to = "EXPIRED"]
      ELSE Idle

\* verifyByHash for the transaction the task was given or the intent reported,
\* else a scan: the transaction the verifier answers is t.
ConfirmsReported(w, t) == t = task[w].tx /\ Pays(task[w].id, t)
Confirms(w, t) ==
    /\ IF task[w].tx # NoTx THEN t = task[w].tx ELSE FindMatchingPayment(task[w].id, t)
    /\ Pays(task[w].id, t)

\* The verifier's answer.  A failed payment is markFailed's only in validate,
\* and only from a status that may still fail.
Verify(w) ==
    /\ At(w, "verify")
    /\ \/ \E t \in Txs :
             /\ Confirms(w, t)
             /\ Goto(w, [task[w] EXCEPT !.pc = "rank", !.tx = t, !.to = "SUCCEEDED"])
       \/ /\ \A t \in Txs : ~Confirms(w, t)
          /\ Goto(w, IF /\ task[w].op = "validate"
                        /\ FailedOnChain(task[w].id, task[w].tx)
                        /\ CanTransition(task[w].st, "FAILED")
                     THEN [task[w] EXCEPT !.pc = "transition", !.to = "FAILED"]
                     ELSE Unsettled(w))
    /\ UNCHANGED hist

\* assertOldestClaimant: an older rival the transaction also pays comes first.
Rank(w) ==
    LET i == task[w].id
    IN  /\ At(w, "rank")
        /\ \/ /\ Exists(i) /\ \E j \in Rivals(i) : Pays(j, task[w].tx)
              /\ Goto(w, Unsettled(w))
              /\ refused' = refused \cup {i}
           \/ /\ ~(Exists(i) /\ \E j \in Rivals(i) : Pays(j, task[w].tx))
              /\ Goto(w, [task[w] EXCEPT !.pc = "transition"])
              /\ UNCHANGED refused
        /\ UNCHANGED reported

-----------------------------------------------------------------------------
\* transition: the only writer of `status`.

\* The read, the hash that will be written, and the assertion.
Transition(w) ==
    LET i == task[w].id
        hash == IF task[w].tx # NoTx THEN task[w].tx ELSE txHash[i]
    IN  /\ At(w, "transition")
        /\ Goto(w, IF AssertTransition(status[i], task[w].to, hash, task[w].op # "api")
                   THEN [task[w] EXCEPT !.pc = "commit", !.tx = hash, !.st = status[i]]
                   ELSE Idle)
        /\ UNCHANGED hist

\* The (consumerId, txHash) index already holds the hash for another intent.
HashTaken(i, t) ==
    /\ t # NoTx
    /\ \E j \in Ids : /\ j # i /\ Exists(j)
                      /\ made[j].consumer = made[i].consumer
                      /\ txHash[j] = t

\* The guard of every write: the status is still the one that was read.
StillThere(w) == Exists(task[w].id)
Unmoved(w) == status[task[w].id] = task[w].st

\* claimSettlement: the primary key of payment_settlement.
AnyClaim(to, t) == TRUE
Claimable(to, t) == to = "SUCCEEDED" => claim[t] = NoIntent

Actor(op) == IF op \in {"expire", "reconcile"} THEN "observer" ELSE op

\* The status, the claim and the audit row commit together or not at all.
Commit(w) ==
    LET i == task[w].id
        t == task[w].tx
        to == task[w].to
    IN  /\ At(w, "commit")
        /\ Unmoved(w)
        /\ ~HashTaken(i, t)
        /\ Claimable(to, t)
        /\ status' = [status EXCEPT ![i] = to]
        /\ txHash' = IF t = NoTx THEN txHash ELSE [txHash EXCEPT ![i] = t]
        /\ audit'  = [audit EXCEPT ![i] = Actor(task[w].op)]
        /\ claim'  = IF to = "SUCCEEDED" THEN [claim EXCEPT ![t] = i] ELSE claim
        /\ task'   = [task EXCEPT ![w] = IF to \in TerminalEvents
                                          THEN [@ EXCEPT !.pc = "emit"] ELSE Idle]
        /\ reported' = IF task[w].op = "api" /\ t # NoTx
                        THEN [reported EXCEPT ![i] = @ \cup {t}] ELSE reported
        /\ UNCHANGED <<made, due, notified, ledger, refused>>

\* The transaction rolls back: the row moved (409 operation_in_flight), the
\* index or the claim refused it.  Only the last two let settleOrExpire go on.
RollBack(w) ==
    LET i == task[w].id
        t == task[w].tx
        taken == Unmoved(w) /\ (HashTaken(i, t) \/ ~Claimable(task[w].to, t))
    IN  /\ At(w, "commit")
        /\ ~Unmoved(w) \/ taken
        /\ Goto(w, IF taken /\ task[w].to = "SUCCEEDED" THEN Unsettled(w) ELSE Idle)
        /\ refused' = IF taken THEN refused \cup {i} ELSE refused
        /\ UNCHANGED reported

\* The terminal event's claim and delivery rows, in a transaction of their own
\* after the status has committed.
Emit(w) ==
    /\ At(w, "emit")
    /\ notified' = [notified EXCEPT ![task[w].id] = @ \cup {task[w].to}]
    /\ task' = [task EXCEPT ![w] = Idle]
    /\ UNCHANGED <<row, claim, ledger, hist>>

-----------------------------------------------------------------------------
\* patchTxHash and remove: a read, then a guarded write.

\* PATCH {txHash}: the hash the row already carries is re-written, a new one is
\* refused on a terminal intent.
PatchTxHash(w, i, t) ==
    /\ At(w, "idle") /\ "patchHash" \in Calls
    /\ Exists(i)
    /\ \/ /\ txHash[i] = t
          /\ Goto(w, [Idle EXCEPT !.pc = "rewrite", !.op = "api", !.id = i, !.tx = t])
       \/ /\ txHash[i] # t /\ status[i] \notin Terminal
          /\ Goto(w, [Idle EXCEPT !.pc = "patch", !.op = "api", !.id = i,
                                  !.tx = t, !.st = status[i]])
    /\ UNCHANGED hist

\* The update by id, and the compare-and-swap on the status.
WriteTxHash(w) ==
    LET i == task[w].id
        t == task[w].tx
        done == Exists(i) /\ (At(w, "patch") => Unmoved(w)) /\ ~HashTaken(i, t)
    IN  /\ At(w, "patch") \/ At(w, "rewrite")
        /\ txHash' = IF done THEN [txHash EXCEPT ![i] = t] ELSE txHash
        /\ reported' = IF done THEN [reported EXCEPT ![i] = @ \cup {t}] ELSE reported
        /\ task' = [task EXCEPT ![w] = Idle]
        /\ UNCHANGED <<status, made, due, audit, claim, notified, ledger, refused>>

\* DELETE /:id reads the row and refuses a paid one ...
Remove(w, i) ==
    /\ At(w, "idle") /\ "remove" \in Calls
    /\ Exists(i) /\ status[i] # "SUCCEEDED"
    /\ Goto(w, [Idle EXCEPT !.pc = "delete", !.op = "api", !.id = i, !.st = status[i]])
    /\ UNCHANGED hist

\* ... and deletes it if its status has not changed.
DeleteById(w) ==
    /\ At(w, "delete")
    /\ status' = [status EXCEPT ![task[w].id] = "DELETED"]
    /\ task' = [task EXCEPT ![w] = Idle]
    /\ UNCHANGED <<txHash, made, due, audit, claim, notified, ledger, hist>>
Delete(w) ==
    /\ At(w, "delete")
    /\ status' = IF Unmoved(w) THEN [status EXCEPT ![task[w].id] = "DELETED"] ELSE status
    /\ task' = [task EXCEPT ![w] = Idle]
    /\ UNCHANGED <<txHash, made, due, audit, claim, notified, ledger, hist>>

-----------------------------------------------------------------------------
Call(w) ==
    \E i \in Ids :
        \/ \E t \in Txs : Validate(w, i, t) \/ SettleFromApi(w, i, t) \/ PatchTxHash(w, i, t)
        \/ \E to \in PatchTo, t \in Txs \cup {NoTx} : PatchStatus(w, i, to, t)
        \/ Remove(w, i)

Observe(w) == \E i \in Ids : SelectLapsed(w, i) \/ SelectPending(w, i)

\* The steps of a running handler.
Step(w) ==
    \/ Reconcile(w) \/ Verify(w) \/ Rank(w)
    \/ Transition(w) \/ Commit(w) \/ RollBack(w) \/ Emit(w)
    \/ WriteTxHash(w) \/ Delete(w)

World ==
    \/ \E p \in Payments, ok \in BOOLEAN : Close(p, ok)
    \/ \E i \in Ids : Lapse(i)
    \/ \E c \in Consumers, tm \in Terms, born \in 0..MaxTxs : Create(c, tm, born)

Next ==
    \/ World
    \/ \E w \in Api : Call(w)
    \/ \E w \in Observers : Observe(w)
    \/ \E w \in Workers : Step(w) \/ Abort(w)

Spec == Init /\ [][Next]_vars

\* Every lapsed intent is picked up again while it is open (a pass takes every
\* lapsed row as long as there are fewer than OBSERVER_BATCH_SIZE), time passes,
\* and Horizon or the pod do not fail the same step of the same intent forever.
\* Nothing is assumed of the payers, the callers and the API's own tasks.
Fairness ==
    /\ \A i \in Ids : WF_vars(Lapse(i))
    /\ \A w \in Observers, i \in Ids :
        /\ SF_vars(SelectLapsed(w, i))
        /\ SF_vars(task[w].id = i /\ (Reconcile(w) \/ Verify(w)))
        /\ SF_vars(task[w].id = i /\ Rank(w))
        /\ SF_vars(task[w].id = i /\ Transition(w))
        /\ SF_vars(task[w].id = i /\ (Commit(w) \/ RollBack(w)))
        /\ WF_vars(task[w].id = i /\ Emit(w))

FairSpec == Spec /\ Fairness

-----------------------------------------------------------------------------
\* Properties.

Task ==
    [pc : {"idle", "settle", "reconcile", "verify", "rank", "transition", "commit",
           "emit", "patch", "rewrite", "delete"},
     op : {"none", "validate", "api", "reconcile", "expire"},
     id : Ids \cup {NoIntent}, tx : Txs \cup {NoTx},
     st : Statuses \cup {"none"}, to : Statuses \cup {"none"}]

\* What the locals of a running handler hold at each of its steps.
WellFormed(r) ==
    /\ r.pc # "idle" => r.id \in Ids
    /\ r.pc \in {"settle", "rank", "patch", "rewrite"} => r.tx \in Txs
    /\ r.pc \in {"rank", "transition", "commit"} => r.to \in Statuses
    /\ r.pc = "emit" => r.to \in TerminalEvents
    /\ r.pc = "commit" /\ r.to = "SUCCEEDED" => r.tx \in Txs

\* Every variable keeps its type, and every task is well formed: a settlement
\* about to commit has its hash, a terminal event its outcome.
TypeOK ==
    /\ status \in [Ids -> Statuses \cup {"ABSENT", "DELETED"}]
    /\ txHash \in [Ids -> Txs \cup {NoTx}]
    /\ made \in [Ids -> [consumer : Consumers, terms : Terms, born : 0..MaxTxs]]
    /\ due \in [Ids -> 0..NotDue]
    /\ audit \in [Ids -> {"none", "api", "validate", "observer"}]
    /\ claim \in [Txs -> Ids \cup {NoIntent}]
    /\ notified \in [Ids -> SUBSET TerminalEvents]
    /\ ledger \in Seq([payment : Payments, successful : BOOLEAN]) /\ Len(ledger) <= MaxTxs
    /\ task \in [Workers -> Task]
    /\ \A w \in Workers : WellFormed(task[w])
    /\ refused \in SUBSET Ids
    /\ reported \in [Ids -> SUBSET Txs]

\* "One payment settles at most one intent", and no intent settles without one:
\* a SUCCEEDED intent holds the claim on exactly one transaction, that
\* transaction is on the ledger and pays it, and no claim belongs to an intent
\* that did not settle - whatever validate, PATCH, DELETE and the observer do
\* between the verification, the ranking, the read and the commit.
SettledByOwnPayment ==
    /\ \A i \in Ids : status[i] = "SUCCEEDED" => \E t \in Txs : claim[t] = i /\ Pays(i, t)
    /\ \A t \in Txs : claim[t] # NoIntent => status[claim[t]] = "SUCCEEDED"
    /\ \A t, u \in Txs : claim[t] # NoIntent /\ claim[t] = claim[u] => t = u

\* Intent j comes before i for transaction t: older, of another consumer, and
\* paid by the same operation.  Stated without settlementRivalsQuery's filter,
\* except that assertOldestClaimant asks about RivalsMax rows only.
Outranks(j, i, t) ==
    /\ j < i
    /\ made[j].consumer # made[i].consumer
    /\ made[j].terms.dest = made[i].terms.dest
    /\ Pays(j, t)
    /\ \A o, p \in ledger[t].payment.ops :
          o.to = made[i].terms.dest /\ p.to = made[i].terms.dest => o = p
    /\ Cardinality({k \in Elders(i) : k < j}) < RivalsMax

\* The payment goes to the oldest intent it pays: once a younger intent settled
\* on a transaction, no intent that comes before it is still open, although the
\* ranking and the settlement are separate steps and the query only narrows by
\* memo, destination and amount.
OlderRivalGaveUp ==
    \A t \in Txs : claim[t] # NoIntent =>
        \A j \in Ids : Outranks(j, claim[t], t) => status[j] \notin OpenFor

\* The integrator is never told of an outcome the intent does not have: the
\* terminal event is claimed after the commit, in a step of its own, and by then
\* no concurrent writer has moved the intent on.
NotifiedOutcomeStands ==
    \A i \in Ids :
        /\ "SUCCEEDED" \in notified[i] => status[i] = "SUCCEEDED"
        /\ "FAILED" \in notified[i] => status[i] \in {"FAILED", "DELETED"}

\* "EXPIRED only once the verifier has answered and found none": an intent the
\* observer expired had no payment that closed within its lifetime - unless a
\* settlement of it was refused with a 409, PATCH reported another hash, or the
\* payment is buried under more payments than the scan reads.
ExpiredWasUnpaid ==
    \A i \in Ids : status[i] = "EXPIRED" /\ audit[i] = "observer" /\ i \notin refused =>
        \A t \in Txs : Pays(i, t) /\ t <= due[i] /\ reported[i] \subseteq {t} =>
            Cardinality(Buries(i, t)) >= ScanMax

GraphStep ==
    \A i \in Ids : status'[i] # status[i] =>
        \/ status[i] = "ABSENT" /\ status'[i] = "PENDING"
        \/ CanTransition(status[i], status'[i])
        \/ Exists(i) /\ status[i] # "SUCCEEDED" /\ status'[i] = "DELETED"

\* Every status change follows the declared graph - checked against the status
\* at the write, not the one the handler read - and a paid intent is never
\* deleted.
StatusFollowsGraph == [][GraphStep]_vars

\* payment-intent-transitions.ts says of the terminal statuses that "the txHash
\* it carries is frozen": no step changes the hash of an intent that stays in
\* a terminal status.
TerminalHashFrozen ==
    [][\A i \in Ids : status[i] \in Terminal /\ status'[i] = status[i] =>
          txHash'[i] = txHash[i]]_vars

\* No intent stays open for ever: the observer finalizes each one after its
\* lifetime, whatever the callers do to it meanwhile.
EveryIntentCloses ==
    \A i \in Ids : status[i] \in OpenFor ~> status[i] \notin OpenFor

PaidInTime(i) == \E t \in Txs : Pays(i, t) /\ t <= due[i] /\ Cardinality(Buries(i, t)) < ScanMax

\* An open intent whose payment closed within its lifetime settles, unless its
\* owner closed it or reported a hash, or a settlement of it was refused.
PaidIntentSettles ==
    \A i \in Ids :
        status[i] \in OpenFor /\ PaidInTime(i) ~>
            \/ status[i] = "SUCCEEDED"
            \/ status[i] \in {"FAILED", "CANCELLED", "DELETED"} \/ audit[i] = "api"
            \/ i \in refused \/ reported[i] # {} \/ ~PaidInTime(i)

\* Under a fair observer an intent ends, and ends paid if it was paid.
EveryIntentEnds == EveryIntentCloses /\ PaidIntentSettles

\* The terminal events are emitted through the durable emitter so that "a pod
\* killed between settled and notified" does not lose them: every settled
\* intent is eventually notified.
SettledIsNotified ==
    \A i \in Ids : status[i] = "SUCCEEDED" ~> "SUCCEEDED" \in notified[i]

=============================================================================
