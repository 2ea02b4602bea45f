----------------------------- MODULE ChainSwaps -----------------------------
(***************************************************************************)
(* Swaps on Solana and Monad.  A client builds a swap under an idempotency *)
(* key and hands back the signed transaction; submit broadcasts it, then   *)
(* records its hash.  The observer settles the row on the chain's verdict  *)
(* of that hash.  The observer's lock may run out under a slow batch, so   *)
(* several may be at work.  Building and pricing are the venues' (data);   *)
(* here a signed transaction is one of Variants: Solana has one per swap,  *)
(* Monad one per nonce and gas the wallet chooses.                         *)
(***************************************************************************)
EXTENDS Integers, FiniteSets

CONSTANTS
    MaxSwaps,       \* bound: rows
    SwapClients,    \* callers of create and submit, all under one key
    SwapTerms,      \* what a request asks for
    Variants,       \* signed transactions a swap's wallet may hand in
    SwapObservers,  \* replicas whose observer runs
    SwapFaults      \* bound: RPC errors, crashes, dropped transactions, forks

ASSUME SwapBounds == MaxSwaps \in Nat \ {0} /\ SwapFaults \in Nat

ChainSwapIds == 1..MaxSwaps

VARIABLES
    csStatus,    \* chain_swap.status, "ABSENT" before the insert
    csTerms,     \* the terms it was built for
    csHash,      \* txHash, 0 for none
    csAge,       \* 0 open, 1 past expiresAt, 2 past the landing window, 3 past the rescue window
    csChain,     \* the state of each variant on its chain
    csEvents,    \* SWAP_* events emitted
    csAnswers,   \* history: <<terms, id>> answered to a create
    csFaults,    \* faults so far
    swapClient,  \* local state of a client's call
    swapObserver \* local state of an observer

csRow   == <<csStatus, csTerms, csHash>>
csWorld == <<csAge, csChain, csFaults>>
csVars  == <<csRow, csWorld, csEvents, csAnswers, swapClient, swapObserver>>

NoTerms == "none"
QuietClient == [pc |-> "idle", terms |-> NoTerms, s |-> 0, v |-> 0]
QuietObserver == [pc |-> "idle", s |-> 0, status |-> "none", next |-> "none"]

ChainSwapsInit ==
    /\ csStatus = [s \in ChainSwapIds |-> "ABSENT"]
    /\ csTerms = [s \in ChainSwapIds |-> NoTerms]
    /\ csHash = [s \in ChainSwapIds |-> 0]
    /\ csAge = [s \in ChainSwapIds |-> 0]
    /\ csChain = [s \in ChainSwapIds |-> [v \in Variants |-> "unknown"]]
    /\ csEvents = [s \in ChainSwapIds |-> {}]
    /\ csAnswers = {}
    /\ csFaults = 0
    /\ swapClient = [c \in SwapClients |-> QuietClient]
    /\ swapObserver = [o \in SwapObservers |-> QuietObserver]

SwapFault == csFaults < SwapFaults /\ csFaults' = csFaults + 1
-----------------------------------------------------------------------------
(* create                                                                    *)

SwapRows == {s \in ChainSwapIds : csStatus[s] # "ABSENT"}

\* replay: the stored swap answers the same terms; other terms are refused (409).
ReplaySwap(c, terms, s) ==
    /\ csAnswers' = IF csTerms[s] = terms THEN csAnswers \cup {<<terms, s>>} ELSE csAnswers
    /\ swapClient' = [swapClient EXCEPT ![c] = [QuietClient EXCEPT !.terms = terms, !.pc =
                         IF csTerms[s] = terms THEN "answered" ELSE "refused",
                         !.s = IF csTerms[s] = terms THEN s ELSE 0]]
    /\ UNCHANGED <<csRow, csWorld, csEvents, swapObserver>>

\* build: findByKey, then the venue builds.  The clients are alike: which one is
\* next does not matter.
FindByKey(c, terms) ==
    /\ swapClient[c].pc = "idle" /\ c = CHOOSE d \in SwapClients : swapClient[d].pc = "idle"
    /\ IF SwapRows # {}
       THEN \E s \in SwapRows : ReplaySwap(c, terms, s)
       ELSE /\ swapClient' = [swapClient EXCEPT ![c] = [@ EXCEPT !.pc = "build", !.terms = terms]]
            /\ UNCHANGED <<csRow, csWorld, csEvents, csAnswers, swapObserver>>

KeyNeverTaken(c) == FALSE
\* The unique index on the consumer and the key.
KeyTaken(c) == SwapRows # {}

\* persist: the insert, or a lost race and the winner's row replayed.
Persist(c) ==
    /\ swapClient[c].pc = "build"
    /\ LET terms == swapClient[c].terms IN
       IF KeyTaken(c)
       THEN \E s \in SwapRows : ReplaySwap(c, terms, s)
       ELSE LET s == Cardinality(SwapRows) + 1 IN
            /\ s \in ChainSwapIds
            /\ csStatus' = [csStatus EXCEPT ![s] = "PENDING"]
            /\ csTerms' = [csTerms EXCEPT ![s] = terms]
            /\ csEvents' = [csEvents EXCEPT ![s] = @ \cup {"SWAP_CREATED"}]
            /\ csAnswers' = csAnswers \cup {<<terms, s>>}
            /\ swapClient' = [swapClient EXCEPT ![c] = [@ EXCEPT !.pc = "answered", !.s = s]]
            /\ UNCHANGED <<csHash, csWorld, swapObserver>>

-----------------------------------------------------------------------------
(* submit                                                                    *)

\* findOwned, verify and the early returns, on the row as it is read.
ReadForSubmit(c, v) ==
    /\ swapClient[c].pc = "answered"
    /\ LET s == swapClient[c].s IN
       /\ csStatus[s] \in {"PENDING", "SUBMITTED"}
       /\ csStatus[s] = "PENDING" => csAge[s] = 0
    /\ swapClient' = [swapClient EXCEPT ![c].pc = "broadcast", ![c].v = v]
    /\ UNCHANGED <<csRow, csWorld, csEvents, csAnswers, swapObserver>>

\* The node takes the transaction (again).
BroadcastSwap(c) ==
    /\ swapClient[c].pc = "broadcast"
    /\ LET s == swapClient[c].s  v == swapClient[c].v IN
       csChain' = [csChain EXCEPT ![s][v] = IF @ \in {"unknown", "dropped"} THEN "pending" ELSE @]
    /\ swapClient' = [swapClient EXCEPT ![c].pc = "record"]
    /\ UNCHANGED <<csRow, csAge, csFaults, csEvents, csAnswers, swapObserver>>

RecordPending(s) == csStatus[s] = "PENDING"

\* updateMany where PENDING; the event only for the writer that moved it.
RecordSubmitted(c) ==
    /\ swapClient[c].pc = "record"
    /\ LET s == swapClient[c].s IN
       IF RecordPending(s)
       THEN /\ csStatus' = [csStatus EXCEPT ![s] = "SUBMITTED"]
            /\ csHash' = [csHash EXCEPT ![s] = swapClient[c].v]
            /\ csEvents' = [csEvents EXCEPT ![s] = @ \cup {"SWAP_SUBMITTED"}]
       ELSE UNCHANGED <<csStatus, csHash, csEvents>>
    /\ swapClient' = [swapClient EXCEPT ![c].pc = "answered", ![c].v = 0]
    /\ UNCHANGED <<csTerms, csWorld, csAnswers, swapObserver>>

\* The node refuses, the call times out, or the pod dies: nothing is written.
FailSubmit(c) ==
    /\ SwapFault /\ swapClient[c].pc \in {"broadcast", "record"}
    /\ swapClient' = [swapClient EXCEPT ![c].pc = "answered", ![c].v = 0]
    /\ UNCHANGED <<csRow, csAge, csChain, csEvents, csAnswers, swapObserver>>

-----------------------------------------------------------------------------
(* The chains and time.                                                      *)

\* A transaction is processed on a fork, and the fork confirmed or abandoned.
ChainMoves(s, v) ==
    /\ \/ csChain[s][v] = "pending" /\ csChain' \in {[csChain EXCEPT ![s][v] = to] : to \in {"fork_ok", "fork_err"}}
       \/ csChain[s][v] = "fork_ok" /\ csChain' = [csChain EXCEPT ![s][v] = "ok"]
       \/ csChain[s][v] = "fork_err" /\ csChain' = [csChain EXCEPT ![s][v] = "err"]
    /\ UNCHANGED <<csRow, csAge, csFaults, csEvents, csAnswers, swapClient, swapObserver>>

ChainForgets(s, v) ==
    /\ SwapFault /\ csChain[s][v] \in {"pending", "fork_ok", "fork_err"}
    /\ \E to \in {"pending", "dropped"} \ {csChain[s][v]} : csChain' = [csChain EXCEPT ![s][v] = to]
    /\ UNCHANGED <<csRow, csAge, csEvents, csAnswers, swapClient, swapObserver>>

AgeSwap(s) ==
    /\ csStatus[s] # "ABSENT" /\ csAge[s] < 3
    /\ csAge' = [csAge EXCEPT ![s] = @ + 1]
    /\ UNCHANGED <<csRow, csChain, csFaults, csEvents, csAnswers, swapClient, swapObserver>>

-----------------------------------------------------------------------------
(* The observer.                                                             *)

ObservedOpen(s) == csStatus[s] = "SUBMITTED" \/ (csStatus[s] = "PENDING" /\ csAge[s] >= 1)
\* The rows a tick selects.
Observed(s) ==
    \/ csStatus[s] = "PENDING" /\ csAge[s] >= 1
    \/ csStatus[s] = "SUBMITTED"
    \/ csStatus[s] = "EXPIRED" /\ csHash[s] # 0 /\ csAge[s] < 3

SeenOnFork(s) == CASE csChain[s][csHash[s]] \in {"ok", "fork_ok"} -> "SUCCEEDED"
                   [] csChain[s][csHash[s]] \in {"err", "fork_err"} -> "FAILED"
                   [] OTHER -> "none"

\* settlement: success once confirmed; an error as soon as it is seen.
VenueSettlement(s) == IF csChain[s][csHash[s]] = "ok" THEN "SUCCEEDED"
                      ELSE IF csChain[s][csHash[s]] \in {"err", "fork_err"} THEN "FAILED"
                      ELSE "none"

\* A row comes up: its status is the batch's, read a while ago.
PickSwap(o, s) ==
    /\ swapObserver[o].pc = "idle" /\ Observed(s)
    /\ swapObserver' = [swapObserver EXCEPT ![o] =
                          [pc |-> "decide", s |-> s, status |-> csStatus[s], next |-> "none"]]
    /\ UNCHANGED <<csRow, csWorld, csEvents, csAnswers, swapClient>>

\* The chain is asked, unless the row was never submitted; what to do about it.
Decide(o) ==
    /\ swapObserver[o].pc = "decide"
    /\ LET s == swapObserver[o].s
           next == IF swapObserver[o].status = "PENDING" THEN "EXPIRED"
                   ELSE IF VenueSettlement(s) # "none" THEN VenueSettlement(s)
                   ELSE IF swapObserver[o].status = "SUBMITTED" /\ csAge[s] >= 2 THEN "EXPIRED"
                   ELSE "none"  \* touch
       IN swapObserver' = [swapObserver EXCEPT ![o] =
              IF next = "none" THEN QuietObserver ELSE [@ EXCEPT !.pc = "settle", !.next = next]]
    /\ UNCHANGED <<csRow, csWorld, csEvents, csAnswers, swapClient>>

SettleAnyway(o) == TRUE
\* The compare-and-swap on the status the row was read with.
StillAsRead(o) == csStatus[swapObserver[o].s] = swapObserver[o].status

SettleSwap(o) ==
    /\ swapObserver[o].pc = "settle"
    /\ LET s == swapObserver[o].s  next == swapObserver[o].next IN
       IF StillAsRead(o)
       THEN /\ csStatus' = [csStatus EXCEPT ![s] = next]
            /\ swapObserver' = [swapObserver EXCEPT ![o] =
                   IF next = "EXPIRED" THEN QuietObserver ELSE [@ EXCEPT !.pc = "emit"]]
       ELSE /\ swapObserver' = [swapObserver EXCEPT ![o] = QuietObserver]
            /\ UNCHANGED csStatus
    /\ UNCHANGED <<csTerms, csHash, csWorld, csEvents, csAnswers, swapClient>>

EmitSettled(o) ==
    /\ swapObserver[o].pc = "emit"
    /\ LET s == swapObserver[o].s IN
       csEvents' = [csEvents EXCEPT ![s] = @ \cup
           {IF swapObserver[o].next = "SUCCEEDED" THEN "SWAP_SUCCEEDED" ELSE "SWAP_FAILED"}]
    /\ swapObserver' = [swapObserver EXCEPT ![o] = QuietObserver]
    /\ UNCHANGED <<csRow, csWorld, csAnswers, swapClient>>

\* An RPC error skips the row, the death of the pod ends the cycle.
FailObserver(o) ==
    /\ SwapFault /\ swapObserver[o].pc # "idle"
    /\ swapObserver' = [swapObserver EXCEPT ![o] = QuietObserver]
    /\ UNCHANGED <<csRow, csAge, csChain, csEvents, csAnswers, swapClient>>

SwapObserverStep(o) ==
    \/ \E s \in ChainSwapIds : PickSwap(o, s)
    \/ Decide(o) \/ SettleSwap(o) \/ EmitSettled(o)

ChainSwapsNext ==
    \/ \E c \in SwapClients, terms \in SwapTerms : FindByKey(c, terms)
    \/ \E c \in SwapClients, v \in Variants : ReadForSubmit(c, v)
    \/ \E c \in SwapClients : Persist(c) \/ BroadcastSwap(c) \/ RecordSubmitted(c) \/ FailSubmit(c)
    \/ \E s \in ChainSwapIds, v \in Variants : ChainMoves(s, v) \/ ChainForgets(s, v)
    \/ \E s \in ChainSwapIds : AgeSwap(s)
    \/ \E o \in SwapObservers : SwapObserverStep(o) \/ FailObserver(o)

\* Every replica's observer keeps ticking.
ChainSwapsFairness == \A o \in SwapObservers : WF_csVars(SwapObserverStep(o))

-----------------------------------------------------------------------------
\* One idempotency key buys one swap: whichever of two interleaved builds wins
\* the insert, every caller that got an answer got that swap, for its own terms.
OneSwapPerKey ==
    /\ \A a, b \in csAnswers : a = b
    /\ \A a \in csAnswers : csTerms[a[2]] = a[1]

\* SUCCEEDED is the chain's word: the recorded hash landed and was confirmed,
\* not merely seen on a fork, whichever observer wrote it and however late.
SucceededLanded ==
    \A s \in ChainSwapIds : csStatus[s] = "SUCCEEDED" => csChain[s][csHash[s]] = "ok"

\* A verdict is final: neither an observer that overran its lock with an older
\* read nor a second submit moves a settled swap, and the consumer never hears
\* two verdicts.
VerdictFinal ==
    [][\A s \in ChainSwapIds :
         /\ csStatus[s] \in {"SUCCEEDED", "FAILED"} => csStatus'[s] = csStatus[s]
         /\ ~({"SWAP_SUCCEEDED", "SWAP_FAILED"} \subseteq csEvents'[s])]_csVars

\* A recorded transaction that is confirmed settles its swap, expired or not,
\* unless the rescue window runs out first.
LateLandingRescued ==
    \A s \in ChainSwapIds :
        csHash[s] # 0 /\ csChain[s][csHash[s]] = "ok"
           ~> csStatus[s] \in {"SUCCEEDED", "FAILED"} \/ csAge[s] = 3

\* "PENDING past its expiry was never submitted in time": no swap expires as
\* unsubmitted while its transaction, broadcast by submit, is out.
ExpiredUnsubmitted ==
    \A s \in ChainSwapIds :
        csStatus[s] = "EXPIRED" /\ csHash[s] = 0 => \A v \in Variants : csChain[s][v] = "unknown"
=============================================================================
