--------------------------- MODULE CrossChainSwaps ---------------------------
(***************************************************************************)
(* Cross-chain swaps through NEAR Intents.  1Click decides where a swap    *)
(* stands; the row follows it.  Two kinds of callers apply a status they   *)
(* asked for earlier: the observer, over the rows it selected (several may *)
(* run once a lock times out under a slow batch), and a wallet reporting   *)
(* its deposit.  Amounts, hashes and the deposit link are left out.        *)
(***************************************************************************)
EXTENDS Integers, FiniteSets, Sequences, SequencesExt

CONSTANTS
    MaxCross,       \* bound: rows
    CrossObservers, \* replicas whose observer runs
    CrossDepositors,\* callers of POST /deposit
    CrossBatch,     \* CROSS_CHAIN_OBSERVER_BATCH
    CrossFaults     \* bound: errors, crashes, addresses 1Click does not find

ASSUME CrossBounds ==
    MaxCross \in Nat \ {0} /\ CrossBatch \in Nat \ {0} /\ CrossFaults \in Nat

CrossIds == 1..MaxCross
CrossCallers == CrossObservers \cup CrossDepositors

OpenCross == {"AWAITING_DEPOSIT", "DEPOSIT_DETECTED", "INCOMPLETE_DEPOSIT", "PROCESSING"}
TerminalCross == {"SUCCEEDED", "REFUNDED", "FAILED"}

\* What each of 1Click's statuses means for the row.
PROVIDER_STATUS_MAP ==
    [PENDING_DEPOSIT |-> "AWAITING_DEPOSIT", KNOWN_DEPOSIT_TX |-> "DEPOSIT_DETECTED",
     INCOMPLETE_DEPOSIT |-> "INCOMPLETE_DEPOSIT", PROCESSING |-> "PROCESSING",
     SUCCESS |-> "SUCCEEDED", REFUNDED |-> "REFUNDED", FAILED |-> "FAILED"]

VARIABLES
    ccStatus,    \* cross_chain_swap.status, "ABSENT" before the insert
    ccQueue,     \* the rows, least recently checked first (lastCheckedAt)
    ccAge,       \* 0 before expiresAt, 1 after it, 2 past the rescue window
    ccProvider,  \* 1Click's own status
    ccEvents,    \* statuses notified
    ccFaults,    \* faults so far
    crossCaller  \* local state of a caller

ccVars == <<ccStatus, ccQueue, ccAge, ccProvider, ccEvents, ccFaults, crossCaller>>

Off == [pc |-> "idle", s |-> 0, status |-> "none", answer |-> "none", todo |-> <<>>]

CrossChainSwapsInit ==
    /\ ccStatus = [s \in CrossIds |-> "ABSENT"]
    /\ ccQueue = <<>>
    /\ ccAge = [s \in CrossIds |-> 0]
    /\ ccProvider = [s \in CrossIds |-> "PENDING_DEPOSIT"]
    /\ ccEvents = [s \in CrossIds |-> {}]
    /\ ccFaults = 0
    /\ crossCaller = [c \in CrossCallers |-> Off]

CrossFault == ccFaults < CrossFaults /\ ccFaults' = ccFaults + 1

\* create: a live quote persisted under its own deposit address.
CreateCross(s) ==
    /\ ccStatus[s] = "ABSENT" /\ \A r \in CrossIds : r < s => ccStatus[r] # "ABSENT"
    /\ ccStatus' = [ccStatus EXCEPT ![s] = "AWAITING_DEPOSIT"]
    /\ ccQueue' = <<s>> \o ccQueue   \* never checked comes first
    /\ UNCHANGED <<ccAge, ccProvider, ccEvents, ccFaults, crossCaller>>

\* 1Click's side: a swap is paid, worked on and finished, in this order.
ProviderSteps ==
    [PENDING_DEPOSIT |-> {"KNOWN_DEPOSIT_TX", "INCOMPLETE_DEPOSIT"},
     KNOWN_DEPOSIT_TX |-> {"INCOMPLETE_DEPOSIT", "PROCESSING"},
     INCOMPLETE_DEPOSIT |-> {"PROCESSING", "REFUNDED"},
     PROCESSING |-> {"SUCCESS", "REFUNDED", "FAILED"},
     SUCCESS |-> {}, REFUNDED |-> {}, FAILED |-> {}]

ProviderMoves(s) ==
    /\ ccStatus[s] # "ABSENT"
    /\ \E to \in ProviderSteps[ccProvider[s]] : ccProvider' = [ccProvider EXCEPT ![s] = to]
    /\ UNCHANGED <<ccStatus, ccQueue, ccAge, ccEvents, ccFaults, crossCaller>>

AgeCross(s) ==
    /\ ccStatus[s] # "ABSENT" /\ ccAge[s] < 2
    /\ ccAge' = [ccAge EXCEPT ![s] = @ + 1]
    /\ UNCHANGED <<ccStatus, ccQueue, ccProvider, ccEvents, ccFaults, crossCaller>>

-----------------------------------------------------------------------------
(* Asking 1Click and applying its answer.                                    *)

PolledOpen(s) == ccStatus[s] \in OpenCross
\* The rows a tick selects: open ones, and expired ones in the rescue window.
Polled(s) == ccStatus[s] \in OpenCross \/ (ccStatus[s] = "EXPIRED" /\ ccAge[s] < 2)

Batched(q) == SubSeq(q, 1, IF Len(q) < CrossBatch THEN Len(q) ELSE CrossBatch)

\* run: the least recently checked rows, each with the status it has now.
StartTick(o) ==
    /\ o \in CrossObservers /\ crossCaller[o].pc = "idle"
    /\ \E rows \in BoundedSeq(CrossIds, CrossBatch) :
       /\ rows = Batched(SelectSeq(ccQueue, Polled)) /\ rows # <<>>
       /\ crossCaller' = [crossCaller EXCEPT ![o] = [Off EXCEPT !.pc = "next",
                            !.todo = [i \in 1..Len(rows) |-> <<rows[i], ccStatus[rows[i]]>>]]]
    /\ UNCHANGED <<ccStatus, ccQueue, ccAge, ccProvider, ccEvents, ccFaults>>

RowAfter(c) ==
    LET todo == crossCaller[c].todo IN IF todo = <<>> THEN Off ELSE [Off EXCEPT !.pc = "next", !.todo = todo]

NextRow(o) ==
    /\ crossCaller[o].pc = "next"
    /\ LET todo == crossCaller[o].todo
           row == Head(todo)
       IN crossCaller' = [crossCaller EXCEPT ![o] = [@ EXCEPT !.pc = "ask", !.s = row[1],
                                                       !.status = row[2], !.todo = Tail(todo)]]
    /\ UNCHANGED <<ccStatus, ccQueue, ccAge, ccProvider, ccEvents, ccFaults>>

\* submitDeposit: the row is read; a terminal one is refused.
ReportDeposit(d, s) ==
    /\ d \in CrossDepositors /\ crossCaller[d].pc = "idle"
    /\ ccStatus[s] \notin TerminalCross \cup {"ABSENT"}
    /\ crossCaller' = [crossCaller EXCEPT ![d] = [Off EXCEPT !.pc = "ask", !.s = s, !.status = ccStatus[s]]]
    /\ UNCHANGED <<ccStatus, ccQueue, ccAge, ccProvider, ccEvents, ccFaults>>

\* status, submitDeposit: 1Click answers with where the swap stands by now.
AskProvider(c) ==
    /\ crossCaller[c].pc = "ask"
    /\ crossCaller' = [crossCaller EXCEPT ![c].pc = "apply", ![c].answer = ccProvider[crossCaller[c].s]]
    /\ UNCHANGED <<ccStatus, ccQueue, ccAge, ccProvider, ccEvents, ccFaults>>

\* 1Click does not know the address: status is null.
AskUnknown(c) ==
    /\ crossCaller[c].pc = "ask" /\ c \in CrossObservers /\ CrossFault
    /\ crossCaller' = [crossCaller EXCEPT ![c].pc = "apply", ![c].answer = "null"]
    /\ UNCHANGED <<ccStatus, ccQueue, ccAge, ccProvider, ccEvents>>

\* An error: the row is skipped and not even marked as checked; or the process dies.
FailCross(c) ==
    /\ crossCaller[c].pc # "idle" /\ CrossFault
    /\ \E r \in {RowAfter(c), Off} : crossCaller' = [crossCaller EXCEPT ![c] = r]
    /\ UNCHANGED <<ccStatus, ccQueue, ccAge, ccProvider, ccEvents>>

\* nextStatus, with the null answer; a status equal to the current one stays put.
NextStatus(current, answer, s) ==
    LET mapped == PROVIDER_STATUS_MAP[answer] IN
    IF answer = "null"
    THEN IF current = "AWAITING_DEPOSIT" /\ ccAge[s] >= 1 THEN "EXPIRED" ELSE current
    ELSE IF current \in TerminalCross THEN current
    ELSE IF mapped = "AWAITING_DEPOSIT" /\ ccAge[s] >= 1 THEN "EXPIRED" ELSE mapped

WriteAnyway(c) == TRUE
\* Both writes are compare-and-swaps on the status the row was read with.
StatusAsRead(c) == ccStatus[crossCaller[c].s] = crossCaller[c].status

TellAnyway(c) == TRUE
\* Only the caller whose write moved the row notifies.
Tells(c) == StatusAsRead(c)

Checked(s) == Append(SelectSeq(ccQueue, LAMBDA r : r # s), s)

\* applyProviderStatus; the pod may die between the write and the webhook.
ApplyProviderStatus(c) ==
    /\ crossCaller[c].pc = "apply"
    /\ LET s == crossCaller[c].s
           current == crossCaller[c].status
           next == NextStatus(current, crossCaller[c].answer, s)
       IN /\ IF StatusAsRead(c)
             THEN /\ ccStatus' = [ccStatus EXCEPT ![s] = next]
                  /\ ccQueue' = Checked(s)
             ELSE UNCHANGED <<ccStatus, ccQueue>>
          /\ \/ /\ ccEvents' = [ccEvents EXCEPT ![s] =
                       IF next # current /\ Tells(c) THEN @ \cup {next} ELSE @]
                /\ UNCHANGED ccFaults
             \/ next # current /\ CrossFault /\ UNCHANGED ccEvents
    /\ crossCaller' = [crossCaller EXCEPT ![c] = RowAfter(c)]
    /\ UNCHANGED <<ccAge, ccProvider>>

CrossCallerStep(c) ==
    \/ StartTick(c) \/ NextRow(c) \/ AskProvider(c) \/ ApplyProviderStatus(c)

CrossChainSwapsNext ==
    \/ \E s \in CrossIds : CreateCross(s) \/ ProviderMoves(s) \/ AgeCross(s)
    \/ \E d \in CrossDepositors, s \in CrossIds : ReportDeposit(d, s)
    \/ \E c \in CrossCallers : CrossCallerStep(c) \/ AskUnknown(c) \/ FailCross(c)

\* Every replica's observer keeps ticking.
CrossChainSwapsFairness == \A o \in CrossObservers : WF_ccVars(CrossCallerStep(o))

-----------------------------------------------------------------------------
\* "which transitions a stale or out-of-order answer may not make": with several
\* callers applying answers of different ages, the row never goes back on what it
\* has shown, and the end of a swap is the end.
Progressed == <<"AWAITING_DEPOSIT", "EXPIRED", "DEPOSIT_DETECTED", "INCOMPLETE_DEPOSIT", "PROCESSING">>
CrossNeverGoesBack ==
    [][\A s \in CrossIds :
         /\ ccStatus[s] \in TerminalCross => ccStatus'[s] = ccStatus[s]
         /\ \A i, j \in 1..5 : ccStatus[s] = Progressed[i] /\ ccStatus'[s] = Progressed[j] => i <= j]_ccVars

\* One transition and one webhook: a status is told when the row reaches it,
\* never by the loser of a race between the observer and a deposit report.
ToldWhatHappened ==
    [][\A s \in CrossIds : \A e \in ccEvents'[s] \ ccEvents[s] :
         ccStatus'[s] = e]_ccVars

\* What 1Click settles for good reaches the row without any wallet coming back,
\* an expired row included, as long as the rescue window is open.
CrossSettles ==
    \A s \in CrossIds :
        PROVIDER_STATUS_MAP[ccProvider[s]] \in TerminalCross
           ~> \/ ccStatus[s] = PROVIDER_STATUS_MAP[ccProvider[s]]
              \/ ccStatus[s] = "EXPIRED" /\ ccAge[s] = 2
=============================================================================
