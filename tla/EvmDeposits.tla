---------------------------- MODULE EvmDeposits ----------------------------
(***************************************************************************)
(* Monad payment intents are paid at an address of their own.  The deposit *)
(* forwarder watches the balance of each address, sends the transaction    *)
(* that moves it to the merchant, follows it to its receipt, and settles   *)
(* the intent on it.  One replica at a time forwards (advisory lock), one  *)
(* row after the other; it may die between any two steps, a broadcast may  *)
(* be dropped, reverted or mined late, and the intent moves meanwhile.     *)
(***************************************************************************)
EXTENDS Integers, FiniteSets

CONSTANTS
    MaxDeposits,   \* bound: deposit addresses minted
    Expected,      \* expectedAmount of an intent, in units
    DepositFee,    \* fee + merchantFee, taken out on deployment
    MaxPaid,       \* bound: units ever paid to an address
    ForwardBatch,  \* DEPOSIT_FORWARD_BATCH
    DepositFaults  \* bound: errors, crashes, dropped and overdue forwards

Deposits == 1..MaxDeposits

ASSUME DepositBounds ==
    /\ MaxDeposits \in Nat \ {0} /\ MaxPaid \in Nat /\ Expected \in Nat /\ DepositFee \in Nat
    /\ ForwardBatch \in Nat \ {0} /\ DepositFaults \in Nat

\* Statuses after which an intent will not settle by waiting any longer (CLOSED).
ClosedIntent == {"SUCCEEDED", "FAILED", "CANCELLED", "EXPIRED"}
IntentStatuses == ClosedIntent \cup {"OPEN", "DELETED"}

VARIABLES
    depStatus,   \* evm_deposit_address.status, "ABSENT" before the insert
    depAmount,   \* forwardedAmount
    depToken,    \* deposits of an ERC-20 token; the others are native
    depIntent,   \* the status of its intent
    depLapsed,   \* deposits whose intent is past expiresAt
    depBalance,  \* what the address holds on chain
    depCode,     \* addresses whose forwarder is deployed
    depTx,       \* the last forward broadcast for the address
    depLoose,    \* kinds of older forwards still in the mempool
    depOut,      \* history: what has left the address
    depPaid,     \* history: what was paid to it
    depByForward,\* history: intents the forwarder settled
    depFaults,   \* faults so far
    forwarder    \* the local state of the one running cycle

depRow   == <<depStatus, depAmount, depToken>>
depChain == <<depBalance, depCode, depTx, depLoose, depOut, depPaid>>
depWorld == <<depIntent, depLapsed>>
depVars  == <<depRow, depChain, depWorld, depByForward, depFaults, forwarder>>

NoForward == [kind |-> "none", state |-> "none"]
Resting == [pc |-> "idle", d |-> 0, todo |-> {}, intent |-> <<>>, balance |-> 0, kind |-> "none"]

EvmDepositsInit ==
    /\ depStatus = [d \in Deposits |-> "ABSENT"]
    /\ depAmount = [d \in Deposits |-> 0]
    /\ depIntent = [d \in Deposits |-> "OPEN"]
    /\ depToken = {}
    /\ depLapsed = {}
    /\ depBalance = [d \in Deposits |-> 0]
    /\ depCode = {}
    /\ depTx = [d \in Deposits |-> NoForward]
    /\ depLoose = [d \in Deposits |-> {}]
    /\ depOut = [d \in Deposits |-> 0]
    /\ depPaid = [d \in Deposits |-> 0]
    /\ depByForward = {}
    /\ depFaults = 0
    /\ forwarder = Resting

-----------------------------------------------------------------------------
(* The payer, the intent and the chain.                                      *)

\* create: the deposit address is inserted with its intent.
Mint(d, token) ==
    /\ depStatus[d] = "ABSENT"
    /\ \A e \in Deposits : e < d => depStatus[e] # "ABSENT"
    /\ depStatus' = [depStatus EXCEPT ![d] = "AWAITING"]
    /\ depToken' = IF token THEN depToken \cup {d} ELSE depToken
    /\ UNCHANGED <<depAmount, depChain, depWorld, depByForward, depFaults, forwarder>>

\* A payment arrives; a deployed forwarder passes native coin on (receive).
PayIn(d) ==
    /\ depStatus[d] # "ABSENT" /\ depPaid[d] < MaxPaid
    /\ depPaid' = [depPaid EXCEPT ![d] = @ + 1]
    /\ \/ /\ d \in depCode /\ d \notin depToken
          /\ depOut' = [depOut EXCEPT ![d] = @ + 1]
          /\ UNCHANGED depBalance
       \/ /\ d \notin depCode \/ d \in depToken
          /\ depBalance' = [depBalance EXCEPT ![d] = @ + 1]
          /\ UNCHANGED depOut
    /\ UNCHANGED <<depRow, depCode, depTx, depLoose, depWorld, depByForward, depFaults, forwarder>>

\* What the other handlers do to the intent (PaymentIntents): it expires once it
\* has lapsed, a payer settles it with a hash of his own, PATCH and DELETE.
IntentMoves(d, to) ==
    /\ depStatus[d] # "ABSENT"
    /\ \/ depIntent[d] = "OPEN" /\ to \in {"FAILED", "CANCELLED"}
       \/ depIntent[d] = "OPEN" /\ to = "EXPIRED" /\ d \in depLapsed
       \/ depIntent[d] \in {"OPEN", "EXPIRED"} /\ to = "SUCCEEDED" /\ depPaid[d] >= Expected
       \/ depIntent[d] \notin {"SUCCEEDED", "DELETED"} /\ to = "DELETED"
    /\ depIntent' = [depIntent EXCEPT ![d] = to]
    /\ UNCHANGED <<depRow, depChain, depLapsed, depByForward, depFaults, forwarder>>

LapseIntent(d) ==
    /\ depStatus[d] # "ABSENT" /\ d \notin depLapsed
    /\ depLapsed' = depLapsed \cup {d}
    /\ UNCHANGED <<depRow, depChain, depIntent, depByForward, depFaults, forwarder>>

\* A forward is included: a deployment reverts where there is code already, and
\* moves the balance otherwise; a flush moves the balance of deployed code.
Moves(d, kind) == (kind = "deploy") # (d \in depCode)

Include(d, kind) ==
    IF Moves(d, kind)
    THEN /\ depCode' = depCode \cup {d}
         /\ depOut' = [depOut EXCEPT ![d] = @ + depBalance[d]]
         /\ depBalance' = [depBalance EXCEPT ![d] = 0]
    ELSE UNCHANGED <<depCode, depOut, depBalance>>

MineForward(d) ==
    /\ depTx[d].state = "pending"
    /\ Include(d, depTx[d].kind)
    /\ depTx' = [depTx EXCEPT ![d].state = IF Moves(d, depTx[d].kind) THEN "ok" ELSE "reverted"]
    /\ UNCHANGED <<depRow, depLoose, depPaid, depWorld, depByForward, depFaults, forwarder>>

MineLoose(d, kind) ==
    /\ kind \in depLoose[d]
    /\ depLoose' = [depLoose EXCEPT ![d] = @ \ {kind}]
    /\ Include(d, kind)
    /\ UNCHANGED <<depRow, depTx, depPaid, depWorld, depByForward, depFaults, forwarder>>

DepositFault == depFaults < DepositFaults /\ depFaults' = depFaults + 1

\* The mempool forgets a forward.
DropForward(d) ==
    /\ DepositFault /\ depTx[d].state = "pending"
    /\ depTx' = [depTx EXCEPT ![d].state = "dropped"]
    /\ UNCHANGED <<depRow, depBalance, depCode, depLoose, depOut, depPaid, depWorld,
                   depByForward, forwarder>>

-----------------------------------------------------------------------------
(* The forwarder's cycle.                                                    *)

Watched == {d \in Deposits : \/ depStatus[d] \in {"AWAITING", "FORWARDING"}
                             \/ depStatus[d] = "FORWARDED" /\ d \in depToken}

\* The oldest rows first, at most a batch of them.
BatchOf(S) == {d \in S : Cardinality({e \in S : e < d}) < ForwardBatch}

\* run: the batch is read with the intents it settles.
ReadDeposits ==
    /\ forwarder.pc = "idle" /\ Watched # {}
    /\ forwarder' = [Resting EXCEPT !.pc = "next", !.todo = BatchOf(Watched), !.intent = depIntent]
    /\ UNCHANGED <<depRow, depChain, depWorld, depByForward, depFaults>>

Forwarding(r) == forwarder' = r /\ UNCHANGED <<depRow, depChain, depWorld, depByForward, depFaults>>
RowDone ==
    IF forwarder.todo = {} THEN Resting
    ELSE [Resting EXCEPT !.pc = "next", !.todo = forwarder.todo, !.intent = forwarder.intent]

NextDeposit(d) ==
    /\ forwarder.pc = "next" /\ d \in forwarder.todo /\ \A e \in forwarder.todo : d <= e
    /\ Forwarding([forwarder EXCEPT !.d = d, !.todo = @ \ {d},
                     !.pc = IF depStatus[d] = "FORWARDING" THEN "receipt" ELSE "balance"])

ReadBalance ==
    /\ forwarder.pc = "balance"
    /\ LET balance == depBalance[forwarder.d] IN
       Forwarding(IF balance = 0 THEN RowDone
                  ELSE [forwarder EXCEPT !.pc = "code", !.balance = balance])

FullAmountOnly(d, balance) == balance >= Expected

\* shouldForward, with the intent as the batch read it.
ShouldForward(d, balance) ==
    \/ forwarder.intent[d] = "DELETED"
    \/ balance >= Expected
    \/ d \in depLapsed
    \/ forwarder.intent[d] \in ClosedIntent

\* forwardIfFunded after the balance: is the forwarder deployed, and is it time.
ReadCode ==
    /\ forwarder.pc = "code"
    /\ LET d == forwarder.d  balance == forwarder.balance IN
       Forwarding(IF \/ d \notin depCode /\ balance <= DepositFee
                     \/ depStatus[d] = "AWAITING" /\ ~ShouldForward(d, balance)
                  THEN RowDone
                  ELSE [forwarder EXCEPT !.pc = "send",
                          !.kind = IF d \in depCode THEN "flush" ELSE "deploy"])

\* relayer.send broadcasts; an error may come after the node took the transaction.
Send ==
    /\ forwarder.pc = "send"
    /\ LET d == forwarder.d IN
       /\ depTx' = [depTx EXCEPT ![d] = [kind |-> forwarder.kind, state |-> "pending"]]
       /\ depLoose' = [depLoose EXCEPT ![d] =
                          IF depTx[d].state = "pending" THEN @ \cup {depTx[d].kind} ELSE @]
    /\ forwarder' = [forwarder EXCEPT !.pc = "record"]
    /\ UNCHANGED <<depRow, depBalance, depCode, depOut, depPaid, depWorld, depByForward, depFaults>>

RecordForward ==
    /\ forwarder.pc = "record"
    /\ depStatus' = [depStatus EXCEPT ![forwarder.d] = "FORWARDING"]
    /\ depAmount' = [depAmount EXCEPT ![forwarder.d] = forwarder.balance]
    /\ forwarder' = RowDone
    /\ UNCHANGED <<depToken, depChain, depWorld, depByForward, depFaults>>

\* confirm: the receipt decides; without one the row may wait or start over.
SentIsReceived(d) == depTx[d].state \in {"ok", "pending"}
HasReceipt(d) == depTx[d].state = "ok"
Confirm ==
    /\ forwarder.pc = "receipt"
    /\ LET d == forwarder.d IN
       \/ /\ HasReceipt(d)
          /\ depStatus' = [depStatus EXCEPT ![d] = "FORWARDED"]
          /\ forwarder' = [forwarder EXCEPT !.pc = "settle"]
       \/ /\ depTx[d].state \in {"reverted", "dropped"}   \* dropped: once overdue
          /\ depStatus' = [depStatus EXCEPT ![d] = "AWAITING"]
          /\ forwarder' = RowDone
       \/ /\ depTx[d].state = "pending"
          /\ forwarder' = RowDone
          /\ UNCHANGED depStatus
    /\ UNCHANGED <<depAmount, depToken, depChain, depWorld, depByForward, depFaults>>

\* DEPOSIT_FORWARD_RESEND_MS pass before a forward that will be included is.
Overdue ==
    /\ forwarder.pc = "receipt" /\ depTx[forwarder.d].state = "pending" /\ DepositFault
    /\ depStatus' = [depStatus EXCEPT ![forwarder.d] = "AWAITING"]
    /\ forwarder' = RowDone
    /\ UNCHANGED <<depAmount, depToken, depChain, depWorld, depByForward>>

\* settle, then markSucceeded, which asks the graph about the current status.
ForwardCovers(d) == depAmount[d] >= Expected
Settle ==
    /\ forwarder.pc = "settle"
    /\ LET d == forwarder.d IN
       IF /\ forwarder.intent[d] \in {"OPEN", "EXPIRED"} /\ ForwardCovers(d)
          /\ depIntent[d] \in {"OPEN", "EXPIRED"}
       THEN /\ depIntent' = [depIntent EXCEPT ![d] = "SUCCEEDED"]
            /\ depByForward' = depByForward \cup {d}
       ELSE UNCHANGED <<depIntent, depByForward>>
    /\ forwarder' = RowDone
    /\ UNCHANGED <<depRow, depChain, depLapsed, depFaults>>

\* An error ends the row, the death of the pod the cycle.
FailDeposit ==
    /\ forwarder.pc \notin {"idle", "next"} /\ DepositFault
    /\ forwarder' \in {RowDone, Resting}
    /\ UNCHANGED <<depRow, depChain, depWorld, depByForward>>

ForwarderStep ==
    \/ ReadDeposits \/ \E d \in Deposits : NextDeposit(d)
    \/ ReadBalance \/ ReadCode \/ Send \/ RecordForward \/ Confirm \/ Settle

EvmDepositsNext ==
    \/ \E d \in Deposits : PayIn(d) \/ LapseIntent(d) \/ \E token \in BOOLEAN : Mint(d, token)
    \/ \E d \in Deposits, to \in IntentStatuses : IntentMoves(d, to)
    \/ \E d \in Deposits : MineForward(d) \/ DropForward(d)
    \/ \E d \in Deposits, kind \in {"deploy", "flush"} : MineLoose(d, kind)
    \/ ForwarderStep \/ Overdue \/ FailDeposit

\* The timer keeps firing, time passes, and the chain includes what it keeps.
EvmDepositsFairness ==
    /\ WF_depVars(ForwarderStep)
    /\ WF_depVars(\E d \in Deposits : LapseIntent(d))
    /\ WF_depVars(\E d \in Deposits : MineForward(d))

-----------------------------------------------------------------------------
\* An intent the forwarder settled was paid in full: what it counts on has left
\* the address for the merchant, whatever was re-sent, reverted or mined late
\* between the balance it read and the receipt it saw.
ForwardSettlesPaid ==
    \A d \in depByForward : depOut[d] >= Expected

\* Money at a deposit address reaches the merchant: through crashes, dropped and
\* reverted forwards and an intent that closes or disappears, a balance above the
\* fee is moved on in the end.
DepositReachesMerchant ==
    \A d \in Deposits : depBalance[d] > DepositFee ~> depBalance[d] <= DepositFee

\* "Success: FORWARDED, and the intent settles on that transaction if what was
\* forwarded covered it": once the covering balance has moved while the intent
\* could still be settled, the intent is closed in the end by more than expiry.
ForwardedIntentSettles ==
    \A d \in Deposits :
        depIntent[d] = "OPEN" /\ depBalance[d] >= Expected /\ depBalance[d] > DepositFee
           ~> depIntent[d] \notin {"OPEN", "EXPIRED"}
=============================================================================
