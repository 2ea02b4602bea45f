-------------------------- MODULE LiquidityBuilds --------------------------
(***************************************************************************)
(* Building deposits into and withdrawals from one pool for one account:   *)
(* the Idempotency-Key, the guard that lets only one withdrawal that may   *)
(* be on-chain be in flight, the reading of the cost basis and the insert. *)
(* Requests interleave; each is several statements.  The envelope of a row *)
(* holds the account's next sequence number as Horizon showed it; the      *)
(* wallet broadcasts what it signed whenever it likes.  How a row is       *)
(* relayed and observed is Settlement's subject and one step here.         *)
(***************************************************************************)
EXTENDS Integers, Sequences, FiniteSets, SequencesExt

CONSTANTS
    LpRequests, \* bound: requests
    LpKeys,     \* Idempotency-Keys
    LpShares,   \* the terms requests ask for: shares, amounts, memo, fee
    MaxLpRows,  \* bound: rows
    MaxLpSeq,   \* bound: transactions of the account
    LpRejects   \* bound: submits Horizon rejects

ASSUME LpBuildBounds == {MaxLpRows, MaxLpSeq, LpRejects} \subseteq Nat

NoKey == "no key"

VARIABLES
    lbRows,     \* liquidity_pool_operations, in order of createdAt
    lbOver,     \* rows past expiresAt
    lbLanded,   \* rows whose transaction succeeded, in ledger order
    lbSpent,    \* rows whose transaction failed in a ledger
    lbRejected, \* rows a submit recorded FAILED
    lbSequence, \* the account's sequence number
    lbRequest   \* local state of a request

lbVars == <<lbRows, lbOver, lbLanded, lbSpent, lbRejected, lbSequence, lbRequest>>
lbLedger == <<lbOver, lbLanded, lbSpent, lbRejected, lbSequence>>

NoRequest == [pc |-> "idle", key |-> NoKey, kind |-> "none", terms |-> "none", seq |-> 0, basis |-> {}, answer |-> 0]

LiquidityBuildsInit ==
    /\ lbRows = <<>> /\ lbLanded = <<>>
    /\ lbOver = {} /\ lbSpent = {} /\ lbRejected = {} /\ lbSequence = 0
    /\ lbRequest = [r \in LpRequests |-> NoRequest]

LbIds == DOMAIN lbRows
\* LP_IN_FLIGHT_STATUSES: SUBMITTED is PENDING here, nothing asks which.
LbInFlight == {"PENDING"}

\* An answered request keeps what it asked for and the row it was given.
Answered(req, i) == [req EXCEPT !.pc = "answered", !.answer = i, !.seq = 0, !.basis = {}]
Refused == [NoRequest EXCEPT !.pc = "refused"]
LbRefuse(r) == lbRequest' = [lbRequest EXCEPT ![r] = Refused]
LbGoto(r, pc) == lbRequest' = [lbRequest EXCEPT ![r].pc = pc]

\* POST /deposit or /withdraw.
StartBuild(r, key, kind, terms) ==
    /\ lbRequest[r].pc = "idle"
    /\ lbRequest' = [lbRequest EXCEPT ![r] =
           [NoRequest EXCEPT !.pc = "lookup", !.key = key, !.kind = kind, !.terms = terms]]
    /\ UNCHANGED <<lbRows, lbLedger>>

-----------------------------------------------------------------------------
(* The Idempotency-Key                                                       *)

ByKey(key) == {i \in LbIds : key # NoKey /\ lbRows[i].key = key}

SameTerms(row, req) == row.terms = req.terms
\* liquidityOperationMatchesRequest
MatchesRequest(row, req) == row.kind = req.kind /\ row.terms = req.terms

\* replay: the stored row for the same request, a conflict for another.
Replay(r, i) ==
    lbRequest' = [lbRequest EXCEPT ![r] =
        IF MatchesRequest(lbRows[i], @) THEN Answered(@, i) ELSE Refused]

LookUpKey(r) ==
    /\ lbRequest[r].pc = "lookup"
    /\ \/ \E i \in ByKey(lbRequest[r].key) : Replay(r, i)
       \/ ByKey(lbRequest[r].key) = {} /\ LbGoto(r, "load")
    /\ UNCHANGED <<lbRows, lbLedger>>

-----------------------------------------------------------------------------
(* Building the envelope                                                     *)

\* Horizon may lag behind the ledger.
LoadAccount(r, seq) ==
    /\ lbRequest[r].pc = "load" /\ seq \in 0..lbSequence
    /\ lbRequest' = [lbRequest EXCEPT ![r].seq = seq,
           ![r].pc = IF lbRequest[r].kind = "WITHDRAW" THEN "guard" ELSE "insert"]
    /\ UNCHANGED <<lbRows, lbLedger>>

\* The withdrawals in flight that are not past their window.
HoldsGuard == {i \in LbIds : lbRows[i].kind = "WITHDRAW" /\ lbRows[i].status \in LbInFlight /\ i \notin lbOver}

SettledOrNext(row, seq) == row.seq >= seq
\* cannotHaveSettled: the account has not used the row's number yet.
CannotHaveSettled(row, seq) == row.seq > seq

\* assertNoInflightWithdraw reads the oldest row only.
NoneInFlight(seq) ==
    HoldsGuard = {} \/ \E i \in HoldsGuard : (\A j \in HoldsGuard : i <= j) /\ CannotHaveSettled(lbRows[i], seq)

AssertNoInflightWithdraw(r) ==
    /\ lbRequest[r].pc = "guard"
    /\ IF NoneInFlight(lbRequest[r].seq) THEN LbGoto(r, "basis") ELSE LbRefuse(r)
    /\ UNCHANGED <<lbRows, lbLedger>>

\* costBasis: the rows that have settled.
ReadBasis(r) ==
    /\ lbRequest[r].pc = "basis"
    /\ lbRequest' = [lbRequest EXCEPT ![r].basis = {i \in LbIds : lbRows[i].status = "SUCCEEDED"},
                                      ![r].pc = "insert"]
    /\ UNCHANGED <<lbRows, lbLedger>>

NeverKeyTaken(req) == FALSE
LbKeyTaken(req) == ByKey(req.key) # {}
\* Two builds of one request from one sequence number are the same bytes, if they
\* have the same second's deadline and the reserves did not move.
MaySameHash(req) == \E i \in LbIds : MatchesRequest(lbRows[i], req) /\ lbRows[i].seq = req.seq + 1

LbBuilt(req) ==
    [kind |-> req.kind, key |-> req.key, terms |-> req.terms, seq |-> req.seq + 1,
     basis |-> req.basis, status |-> "PENDING"]

\* persist: the insert, or one of the two unique indexes.
Persist(r) ==
    /\ lbRequest[r].pc = "insert"
    /\ LET req == lbRequest[r] IN
       \/ /\ ~LbKeyTaken(req) /\ Len(lbRows) < MaxLpRows
          /\ lbRows' = Append(lbRows, LbBuilt(req))
          /\ lbRequest' = [lbRequest EXCEPT ![r] = Answered(req, Len(lbRows) + 1)]
       \/ /\ LbKeyTaken(req) \/ MaySameHash(req)
          /\ LbGoto(r, "recover")
          /\ UNCHANGED lbRows
    /\ UNCHANGED lbLedger

\* The winner of a same-key race is replayed; without one the build is refused.
RecoverRaced(r) ==
    /\ lbRequest[r].pc = "recover"
    /\ \/ \E i \in ByKey(lbRequest[r].key) : Replay(r, i)
       \/ ByKey(lbRequest[r].key) = {} /\ LbRefuse(r)
    /\ UNCHANGED <<lbRows, lbLedger>>

-----------------------------------------------------------------------------
(* The wallet, the ledger and the observer                                   *)

Broadcastable(i) ==
    /\ i \notin lbOver /\ lbRows[i].seq = lbSequence + 1 /\ lbSequence < MaxLpSeq

LandOperation(i) ==
    /\ Broadcastable(i)
    /\ lbSequence' = lbSequence + 1
    /\ \/ lbLanded' = Append(lbLanded, i) /\ UNCHANGED lbSpent
       \/ lbSpent' = lbSpent \cup {i} /\ UNCHANGED lbLanded
    /\ UNCHANGED <<lbRows, lbOver, lbRejected, lbRequest>>

\* The account's owner spends a number on something else.
OtherTransaction ==
    /\ lbSequence < MaxLpSeq /\ lbSequence' = lbSequence + 1
    /\ UNCHANGED <<lbRows, lbOver, lbLanded, lbSpent, lbRejected, lbRequest>>

LbWindowPasses(i) ==
    /\ i \notin lbOver /\ lbOver' = lbOver \cup {i}
    /\ UNCHANGED <<lbRows, lbLanded, lbSpent, lbRejected, lbSequence, lbRequest>>

\* A submit Horizon turned down; the wallet may still send the transaction.
RejectOperation(i) ==
    /\ lbRows[i].status \in LbInFlight /\ i \notin ToSet(lbLanded) /\ Cardinality(lbRejected) < LpRejects
    /\ lbRows' = [lbRows EXCEPT ![i].status = "FAILED"]
    /\ lbRejected' = lbRejected \cup {i}
    /\ UNCHANGED <<lbOver, lbLanded, lbSpent, lbSequence, lbRequest>>

\* The observer asks the ledger; success heals a recorded failure.
ObserveOperation(i) ==
    /\ \/ /\ i \in ToSet(lbLanded) /\ lbRows[i].status # "SUCCEEDED"
          /\ lbRows' = [lbRows EXCEPT ![i].status = "SUCCEEDED"]
       \/ /\ i \in lbSpent /\ lbRows[i].status \in LbInFlight
          /\ lbRows' = [lbRows EXCEPT ![i].status = "FAILED"]
       \/ /\ i \in lbOver \ (ToSet(lbLanded) \cup lbSpent) /\ lbRows[i].status \in LbInFlight
          /\ lbRows' = [lbRows EXCEPT ![i].status = "EXPIRED"]
    /\ UNCHANGED <<lbLedger, lbRequest>>

BuildStep(r) ==
    \/ LookUpKey(r) \/ AssertNoInflightWithdraw(r) \/ ReadBasis(r) \/ Persist(r) \/ RecoverRaced(r)
    \/ \E seq \in 0..MaxLpSeq : LoadAccount(r, seq)

LiquidityBuildsNext ==
    \/ \E r \in LpRequests, key \in LpKeys \cup {NoKey}, kind \in {"DEPOSIT", "WITHDRAW"}, terms \in LpShares :
         StartBuild(r, key, kind, terms)
    \/ \E r \in LpRequests : BuildStep(r)
    \/ \E i \in LbIds : LandOperation(i) \/ LbWindowPasses(i) \/ RejectOperation(i) \/ ObserveOperation(i)
    \/ OtherTransaction

-----------------------------------------------------------------------------
\* A key builds one operation: requests answered under one key were all given the
\* same row, and every request was given what it asked for, however they race.
KeyBuildsOnce ==
    \A r, q \in LpRequests :
        LET a == lbRequest[r]  b == lbRequest[q] IN
        a.pc = "answered" =>
            /\ lbRows[a.answer].kind = a.kind /\ lbRows[a.answer].terms = a.terms
            /\ b.pc = "answered" /\ a.key = b.key /\ a.key # NoKey => a.answer = b.answer

LbBefore(i, j) == \E m, n \in DOMAIN lbLanded : m < n /\ lbLanded[m] = i /\ lbLanded[n] = j
LbWithdrawal(i) == lbRows[i].kind = "WITHDRAW"

\* "the customer is taxed twice for a single gain": of two withdrawals that both
\* settle, the later one's cost basis had counted the earlier one, although the
\* guard, the basis and the insert are separate statements and only the oldest
\* row is looked at.  Excepted are withdrawals the guard no longer sees although
\* they landed: past their window before the observer recorded them, or recorded
\* FAILED by a submit.
GainTaxedOnce ==
    \A i, j \in LbIds :
        LbWithdrawal(i) /\ LbWithdrawal(j) /\ LbBefore(i, j) /\ i \notin lbOver \cup lbRejected
            => i \in lbRows[j].basis
=============================================================================
