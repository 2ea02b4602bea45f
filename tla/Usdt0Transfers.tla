--------------------------- MODULE Usdt0Transfers ---------------------------
(***************************************************************************)
(* USDT0 transfers from Stellar over LayerZero.  No background observer:   *)
(* a transfer moves when it is read or submitted.  Reads and a submit race *)
(* on one row, the wallet may broadcast the transaction itself, the RPC    *)
(* shows an applied transaction a little late and forgets it after its     *)
(* retention window, and any lookup may fail.                              *)
(* Amounts and the built transaction are left out; the signed envelope has *)
(* one hash, so a transfer has one transaction on the ledger.              *)
(***************************************************************************)
EXTENDS Integers

CONSTANTS
    Transfers,       \* bound: rows
    Usdt0Readers,    \* callers of GET /v1/usdt0/transfers/{id}
    Usdt0Submitters, \* callers of submit
    Usdt0Faults      \* bound: failed lookups, refused sends, crashes

ASSUME Usdt0Bounds == Usdt0Faults \in Nat

VARIABLES
    u0Status,   \* usdt0_transfer.status, "ABSENT" before the insert
    u0Guid,     \* transfers whose guid is recorded
    u0Checked,  \* transfers checked within USDT0_STATUS_REFRESH_MS
    u0Age,      \* 0 before expiresAt, 1 after it, 2 past USDT0_EXPIRY_GRACE_MS
    u0Ledger,   \* none, queued, ok, failed: the transaction on Stellar
    u0Shown,    \* transfers whose applied transaction the RPC shows
    u0Scan,     \* the message at LayerZero Scan
    u0Faults,   \* faults so far
    u0Call      \* local state of a call

u0Row    == <<u0Status, u0Guid, u0Checked>>
u0World  == <<u0Age, u0Ledger, u0Shown, u0Scan>>
u0Vars   == <<u0Row, u0World, u0Faults, u0Call>>

Usdt0Callers == Usdt0Readers \cup Usdt0Submitters
Usdt0Final == {"DELIVERED", "FAILED", "EXPIRED"}

\* status: as the row was read; late: past the grace period at the call's clock;
\* outcome: what the ledger or Scan answered; accepted: after rpc.send took it.
NoCall == [pc |-> "idle", t |-> 0, status |-> "none", guid |-> FALSE, late |-> FALSE,
           outcome |-> "none", accepted |-> FALSE]

Usdt0TransfersInit ==
    /\ u0Status = [t \in Transfers |-> "ABSENT"]
    /\ u0Guid = {} /\ u0Checked = {} /\ u0Shown = {}
    /\ u0Age = [t \in Transfers |-> 0]
    /\ u0Ledger = [t \in Transfers |-> "none"]
    /\ u0Scan = [t \in Transfers |-> "none"]
    /\ u0Faults = 0
    /\ u0Call = [c \in Usdt0Callers |-> NoCall]

Usdt0Fault == u0Faults < Usdt0Faults /\ u0Faults' = u0Faults + 1

\* create: the built transaction is persisted, unsigned.
CreateTransfer(t) ==
    /\ u0Status[t] = "ABSENT"
    /\ u0Status' = [u0Status EXCEPT ![t] = "PENDING"]
    /\ UNCHANGED <<u0Guid, u0Checked, u0World, u0Faults, u0Call>>

-----------------------------------------------------------------------------
(* The wallet, Stellar, its RPC, LayerZero and time.                         *)

\* A SEP-7 wallet broadcasts without calling submit.
WalletSends(t) ==
    /\ u0Status[t] # "ABSENT" /\ u0Ledger[t] = "none" /\ u0Age[t] = 0
    /\ u0Ledger' = [u0Ledger EXCEPT ![t] = "queued"]
    /\ UNCHANGED <<u0Row, u0Age, u0Shown, u0Scan, u0Faults, u0Call>>

\* A ledger applies it, within its time bounds.
LedgerApplies(t) ==
    /\ u0Ledger[t] = "queued" /\ u0Age[t] = 0
    /\ \E to \in {"ok", "failed"} : u0Ledger' = [u0Ledger EXCEPT ![t] = to]
    /\ UNCHANGED <<u0Row, u0Age, u0Shown, u0Scan, u0Faults, u0Call>>

Applied(t) == u0Ledger[t] \in {"ok", "failed"}

RpcShows(t) ==
    /\ Applied(t) /\ t \notin u0Shown /\ u0Age[t] < 2
    /\ u0Shown' = u0Shown \cup {t}
    /\ UNCHANGED <<u0Row, u0Age, u0Ledger, u0Scan, u0Faults, u0Call>>

\* The RPC keeps a window of recent transactions only.
RpcForgets(t) ==
    /\ t \in u0Shown /\ u0Age[t] = 2
    /\ u0Shown' = u0Shown \ {t}
    /\ UNCHANGED <<u0Row, u0Age, u0Ledger, u0Scan, u0Faults, u0Call>>

ScanMoves(t) ==
    /\ \/ u0Scan[t] = "none" /\ u0Ledger[t] = "ok" /\ u0Scan' = [u0Scan EXCEPT ![t] = "travelling"]
       \/ /\ u0Scan[t] = "travelling"
          /\ \E to \in {"delivered", "failed"} : u0Scan' = [u0Scan EXCEPT ![t] = to]
    /\ UNCHANGED <<u0Row, u0Age, u0Ledger, u0Shown, u0Faults, u0Call>>

\* What was applied in time shows up within the grace period.
AgeTransfer(t) ==
    /\ u0Status[t] # "ABSENT" /\ u0Age[t] < 2
    /\ u0Age[t] = 1 /\ Applied(t) => t \in u0Shown
    /\ u0Age' = [u0Age EXCEPT ![t] = @ + 1]
    /\ UNCHANGED <<u0Row, u0Ledger, u0Shown, u0Scan, u0Faults, u0Call>>

WindowPasses(t) ==
    /\ t \in u0Checked /\ u0Checked' = u0Checked \ {t}
    /\ UNCHANGED <<u0Status, u0Guid, u0World, u0Faults, u0Call>>

-----------------------------------------------------------------------------
(* refresh: a read asks upstream.                                            *)

\* Of the reads racing on one window, one claims it and asks.
ClaimWindow(r, t) ==
    /\ r \in Usdt0Readers /\ u0Call[r].pc = "idle"
    /\ u0Status[t] \notin Usdt0Final \cup {"ABSENT"} /\ t \notin u0Checked
    /\ u0Checked' = u0Checked \cup {t}
    /\ u0Call' = [u0Call EXCEPT ![r] = [NoCall EXCEPT !.pc = "ask", !.t = t,
                    !.status = u0Status[t], !.guid = t \in u0Guid, !.late = u0Age[t] = 2]]
    /\ UNCHANGED <<u0Status, u0Guid, u0World, u0Faults>>

AsksWhilePending(c) == u0Call[c].status = "PENDING"
\* The ledger is asked while PENDING, and until the guid is known.
AsksLedger(c) == u0Call[c].status = "PENDING" \/ ~u0Call[c].guid

LedgerOutcome(t) == IF t \in u0Shown THEN u0Ledger[t] ELSE "absent"

AskLedger(c) ==
    /\ u0Call[c].pc = "ask"
    /\ u0Call' = [u0Call EXCEPT ![c] =
         IF AsksLedger(c) THEN [@ EXCEPT !.pc = "apply", !.outcome = LedgerOutcome(u0Call[c].t)]
         ELSE [@ EXCEPT !.pc = "scan"]]
    /\ UNCHANGED <<u0Row, u0World, u0Faults>>

AskScan(c) ==
    /\ u0Call[c].pc = "scan"
    /\ u0Call' = [u0Call EXCEPT ![c] = [@ EXCEPT !.pc = "record", !.outcome = u0Scan[u0Call[c].t]]]
    /\ UNCHANGED <<u0Row, u0World, u0Faults>>

TransitionAnyway(c) == TRUE
\* transition: a compare-and-swap on the status the row was read with.
TransferAsRead(c) == u0Status[u0Call[c].t] = u0Call[c].status

\* What the ledger's answer makes of the row the call holds.
ImpatientNext(call) ==
    CASE call.outcome = "ok" -> "SUBMITTED"
      [] call.outcome = "failed" -> "FAILED"
      [] OTHER -> IF call.accepted THEN "SUBMITTED" ELSE "EXPIRED"
LedgerNext(call) ==
    IF call.outcome = "ok" THEN "SUBMITTED"
    ELSE IF call.outcome = "failed" THEN "FAILED"
    ELSE IF call.accepted /\ call.status = "PENDING" THEN "SUBMITTED"
    ELSE IF call.late THEN "EXPIRED" ELSE call.status

\* Records a verdict, then goes on with the row as it reads it back.
Transition(c, next, guid) ==
    LET t == u0Call[c].t  wins == TransferAsRead(c) IN
    /\ u0Status' = IF wins THEN [u0Status EXCEPT ![t] = next] ELSE u0Status
    /\ u0Guid' = IF wins /\ guid THEN u0Guid \cup {t} ELSE u0Guid
    /\ UNCHANGED <<u0Checked, u0World, u0Faults>>

\* applyLedger; a refresh whose row is SUBMITTED then follows its message.
ApplyLedger(c) ==
    /\ u0Call[c].pc = "apply"
    /\ \E receipt \in BOOLEAN :   \* send's return value may be unreadable
         Transition(c, LedgerNext(u0Call[c]), u0Call[c].outcome = "ok" /\ receipt)
    /\ u0Call' = [u0Call EXCEPT ![c] =
         IF c \in Usdt0Readers /\ u0Status'[u0Call[c].t] = "SUBMITTED"
         THEN [@ EXCEPT !.pc = "scan", !.status = "SUBMITTED"] ELSE NoCall]

\* followMessage, once Scan has answered.
FollowMessage(c) ==
    /\ u0Call[c].pc = "record"
    /\ \/ u0Call[c].outcome = "none" /\ UNCHANGED <<u0Row, u0World, u0Faults>>
       \/ u0Call[c].outcome = "travelling" /\ Transition(c, "SUBMITTED", TRUE)
       \/ u0Call[c].outcome = "delivered" /\ Transition(c, "DELIVERED", TRUE)
       \/ u0Call[c].outcome = "failed" /\ Transition(c, "FAILED", TRUE)
    /\ u0Call' = [u0Call EXCEPT ![c] = NoCall]

-----------------------------------------------------------------------------
(* submit                                                                    *)

\* The row is read; a lapsed or settled transfer is refused.
ReadForSend(c, t) ==
    /\ c \in Usdt0Submitters /\ u0Call[c].pc = "idle"
    /\ u0Status[t] = "PENDING" /\ u0Age[t] = 0
    /\ u0Call' = [u0Call EXCEPT ![c] = [NoCall EXCEPT !.pc = "send", !.t = t, !.status = "PENDING"]]
    /\ UNCHANGED <<u0Row, u0World, u0Faults>>

\* The RPC queues it, or knows it already: the ledger is polled.
SendAccepted(c) ==
    /\ u0Call[c].pc = "send"
    /\ u0Ledger' = [u0Ledger EXCEPT ![u0Call[c].t] = IF @ = "none" THEN "queued" ELSE @]
    /\ u0Call' = [u0Call EXCEPT ![c] = [@ EXCEPT !.pc = "await", !.accepted = TRUE]]
    /\ UNCHANGED <<u0Row, u0Age, u0Shown, u0Scan, u0Faults>>

\* ERROR: the ledger is asked once (settleFromLedger).
SendRefused(c) ==
    /\ u0Call[c].pc = "send" /\ Usdt0Fault
    /\ u0Call' = [u0Call EXCEPT ![c] = [@ EXCEPT !.pc = "apply", !.late = u0Age[u0Call[c].t] = 2,
                                          !.outcome = LedgerOutcome(u0Call[c].t)]]
    /\ UNCHANGED <<u0Row, u0World>>

\* awaitLedger: an answer, or the end of the wait without one.
AwaitLedger(c) ==
    /\ u0Call[c].pc = "await"
    /\ \E outcome \in {LedgerOutcome(u0Call[c].t), "absent"} :
         u0Call' = [u0Call EXCEPT ![c] = [@ EXCEPT !.pc = "apply", !.outcome = outcome,
                                                   !.late = u0Age[u0Call[c].t] = 2]]
    /\ UNCHANGED <<u0Row, u0World, u0Faults>>

\* TRY_AGAIN_LATER, a failed lookup or a dead pod: the call ends.
FailTransferCall(c) ==
    /\ u0Call[c].pc # "idle" /\ Usdt0Fault
    /\ u0Call' = [u0Call EXCEPT ![c] = NoCall]
    /\ UNCHANGED <<u0Row, u0World>>

Usdt0Step(c) ==
    \/ \E t \in Transfers : ClaimWindow(c, t)
    \/ AskLedger(c) \/ AskScan(c) \/ ApplyLedger(c) \/ FollowMessage(c)

Usdt0TransfersNext ==
    \/ \E t \in Transfers : CreateTransfer(t) \/ WalletSends(t) \/ LedgerApplies(t) \/ RpcShows(t)
    \/ \E t \in Transfers : RpcForgets(t) \/ ScanMoves(t) \/ AgeTransfer(t) \/ WindowPasses(t)
    \/ \E c \in Usdt0Callers : Usdt0Step(c) \/ SendAccepted(c) \/ SendRefused(c)
    \/ \E c \in Usdt0Callers : AwaitLedger(c) \/ FailTransferCall(c)
    \/ \E c \in Usdt0Callers, t \in Transfers : ReadForSend(c, t)

\* A wallet keeps polling, windows pass, and the RPC catches up.
Usdt0TransfersFairness ==
    /\ \A c \in Usdt0Readers : WF_u0Vars(Usdt0Step(c))
    /\ \A t \in Transfers : WF_u0Vars(WindowPasses(t)) /\ WF_u0Vars(RpcShows(t))

-----------------------------------------------------------------------------
\* Applied, and past the time the RPC keeps it.
Forgotten(t) == Applied(t) /\ u0Age[t] = 2 /\ t \notin u0Shown

\* "EXPIRED, since its time bounds closed before it reached a ledger": no racing
\* read or submit gives up on a transaction the ledger applied, unless nobody
\* read the transfer before the RPC forgot it.
ExpiredNeverApplied ==
    \A t \in Transfers : u0Status[t] = "EXPIRED" => ~Applied(t) \/ Forgotten(t)

\* The same sentence as the code's comment has it, without the exception.
NeverReachedLedger == \A t \in Transfers : u0Status[t] = "EXPIRED" => ~Applied(t)

\* "a submit and a read racing on one transfer write one transition": what a
\* wallet was told in the end is never replaced by an older answer.
TransferFinal ==
    [][\A t \in Transfers : u0Status[t] \in Usdt0Final => u0Status'[t] = u0Status[t]]_u0Vars

\* A transfer somebody keeps reading ends where the ledger and LayerZero say,
\* whoever broadcast it and wherever the submit stopped waiting, unless the RPC
\* forgot it first.
TransferSettles ==
    \A t \in Transfers :
        /\ u0Scan[t] = "delivered" ~> u0Status[t] = "DELIVERED" \/ Forgotten(t)
        /\ u0Ledger[t] = "failed" \/ u0Scan[t] = "failed" ~> u0Status[t] = "FAILED" \/ Forgotten(t)
=============================================================================
