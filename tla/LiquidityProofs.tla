--------------------------- MODULE LiquidityProofs ---------------------------
(***************************************************************************)
(* Building liquidity pool operations: one Idempotency-Key, one operation, *)
(* and one gain taxed once, although the guard, the cost basis and the     *)
(* insert of a withdrawal are separate statements.                         *)
(*                                                                         *)
(* A withdrawal that spent a number no greater than the one a request      *)
(* loaded had landed before the load: its row was there, and older than    *)
(* any row built on a greater number.  So when the guard looks at the      *)
(* oldest row in flight only, and finds its number unused, none of the     *)
(* landed ones is still in flight, and the basis read next counts them.    *)
(***************************************************************************)
EXTENDS MCLiquidity, SettlementProofs, SequenceTheorems, WellFoundedInduction

LbStatuses == {"PENDING", "FAILED", "SUCCEEDED", "EXPIRED"}
LbRow ==
    [kind : {"DEPOSIT", "WITHDRAW"}, key : LpKeys \cup {NoKey}, terms : LpShares, seq : Nat,
     basis : SUBSET Nat, status : LbStatuses]
LbCall ==
    [pc : {"idle", "lookup", "load", "guard", "basis", "insert", "recover", "answered", "refused"},
     key : LpKeys \cup {NoKey}, kind : {"none", "DEPOSIT", "WITHDRAW"}, terms : LpShares \cup {"none"},
     seq : Nat, basis : SUBSET Nat, answer : Nat]

Landed == ToSet(lbLanded)

BuildsType ==
    /\ lbRows \in Seq(LbRow) /\ lbLanded \in Seq(Nat) /\ Landed \subseteq LbIds
    /\ lbSpent \subseteq LbIds /\ lbSequence \in Nat
    /\ lbRequest \in [LpRequests -> LbCall]

\* A landed withdrawal the guard's blind spots do not except.
Counts(i) == i \in Landed /\ LbWithdrawal(i) /\ i \notin lbOver \cup lbRejected

\* What row k says of the account.
RowHolds(k) ==
    /\ lbRows[k].seq <= lbSequence + 1
    /\ k \in Landed \cup lbSpent => lbRows[k].seq <= lbSequence
    /\ k \in Landed => k \notin lbSpent
    /\ k \notin lbOver \cup lbRejected \cup lbSpent => lbRows[k].status \in {"PENDING", "SUCCEEDED"}
    /\ LbWithdrawal(k) =>
         \A i \in LbIds : Counts(i) /\ lbRows[i].seq < lbRows[k].seq => i \in lbRows[k].basis

\* A row built on a greater number than a landed one's is the younger.
LandedIsOlder ==
    \A i, k \in LbIds : i \in Landed /\ lbRows[i].seq < lbRows[k].seq => i < k
LandedInOrder ==
    \A m, n \in DOMAIN lbLanded : m < n => lbRows[lbLanded[m]].seq < lbRows[lbLanded[n]].seq
OneRowPerKey ==
    \A i, k \in LbIds : lbRows[i].key = lbRows[k].key /\ lbRows[i].key # NoKey => i = k

\* What request q may count on.
RequestKnows(q) ==
    /\ q.pc \notin {"idle", "refused"} => q.kind # "none" /\ q.terms \in LpShares
    /\ q.pc = "answered" => /\ q.answer \in LbIds /\ MatchesRequest(lbRows[q.answer], q)
                            /\ q.key # NoKey => lbRows[q.answer].key = q.key
    /\ q.pc \in {"guard", "basis", "insert"} => q.seq <= lbSequence
    /\ q.pc = "basis" =>
         \A i \in LbIds : Counts(i) /\ lbRows[i].seq <= q.seq => lbRows[i].status = "SUCCEEDED"
    /\ q.pc = "insert" /\ q.kind = "WITHDRAW" =>
         \A i \in LbIds : Counts(i) /\ lbRows[i].seq <= q.seq => i \in q.basis

BuildsInv ==
    /\ BuildsType
    /\ \A k \in LbIds : RowHolds(k)
    /\ LandedIsOlder /\ LandedInOrder /\ OneRowPerKey
    /\ \A r \in LpRequests : RequestKnows(lbRequest[r])

\* The rows keep their terms, a recorded success stays, and the account moves on: what lands
\* anew spends a number nobody has loaded yet.
BuildsMoveOn ==
    /\ LbIds \subseteq LbIds' /\ lbSequence <= lbSequence'
    /\ \A i \in LbIds :
         /\ lbRows'[i].kind = lbRows[i].kind /\ lbRows'[i].key = lbRows[i].key
         /\ lbRows'[i].terms = lbRows[i].terms /\ lbRows'[i].seq = lbRows[i].seq
         /\ lbRows'[i].basis = lbRows[i].basis
         /\ lbRows[i].status = "SUCCEEDED" => lbRows'[i].status = "SUCCEEDED"
    /\ lbOver \subseteq lbOver' /\ lbRejected \subseteq lbRejected'
    /\ \A i \in Landed' : i \in LbIds /\ (i \in Landed \/ lbRows[i].seq > lbSequence)

\* The rows are a sequence, and each is one.
LEMMA RowsTyped ==
    ASSUME BuildsType
    PROVE  /\ LbIds = 1..Len(lbRows) /\ Len(lbRows) \in Nat
           /\ \A k \in LbIds : lbRows[k] \in LbRow /\ lbRows[k].seq \in Nat /\ k \in Nat
<1>1. LbIds = 1..Len(lbRows) /\ Len(lbRows) \in Nat  BY DEF BuildsType, LbIds
<1>2. \A k \in LbIds : lbRows[k] \in LbRow  BY <1>1, ElementOfSeq DEF BuildsType
<1>3. \A k \in LbIds : lbRows[k].seq \in Nat  BY <1>2 DEF LbRow
<1> QED  BY <1>1, <1>2, <1>3

\* What a request knows outlives every step of the others.
LEMMA RequestKnowsStays ==
    ASSUME BuildsInv, BuildsMoveOn, BuildsType', NEW q \in LbCall, RequestKnows(q)
    PROVE  RequestKnows(q)'
<1>1. ASSUME NEW i \in LbIds', Counts(i)', lbRows'[i].seq <= lbSequence
      PROVE  i \in LbIds /\ Counts(i) /\ lbRows'[i].seq = lbRows[i].seq
  <2>1. i \in LbIds  BY <1>1 DEF BuildsMoveOn, Counts
  <2>2. lbRows'[i].seq = lbRows[i].seq /\ lbRows'[i].kind = lbRows[i].kind  BY <2>1 DEF BuildsMoveOn
  <2>3. lbRows[i].seq \in Nat /\ lbSequence \in Nat  BY <2>1, RowsTyped DEF BuildsInv, BuildsType
  <2>4. i \in Landed  BY <1>1, <2>2, <2>3 DEF BuildsMoveOn, Counts
  <2> QED  BY <1>1, <2>1, <2>2, <2>4 DEF BuildsMoveOn, Counts, LbWithdrawal
<1>2. q.pc = "answered" => /\ q.answer \in LbIds' /\ MatchesRequest(lbRows'[q.answer], q)
                           /\ q.key # NoKey => lbRows'[q.answer].key = q.key
  BY DEF RequestKnows, BuildsMoveOn, MatchesRequest
<1>3. q.pc \in {"guard", "basis", "insert"} => q.seq <= lbSequence /\ q.seq <= lbSequence'
  BY DEF RequestKnows, BuildsMoveOn, LbCall, BuildsInv, BuildsType
<1>4. ASSUME NEW i \in LbIds', q.pc \in {"basis", "insert"}, Counts(i)', lbRows'[i].seq <= q.seq
      PROVE  i \in LbIds /\ Counts(i) /\ lbRows[i].seq <= q.seq
  <2>1. i \in LbIds /\ lbRows'[i].seq = lbRows[i].seq
    BY <1>4 DEF BuildsMoveOn, Counts
  <2>2. lbRows'[i].seq \in Nat /\ lbSequence \in Nat /\ q.seq \in Nat
    BY <2>1, RowsTyped DEF BuildsInv, BuildsType, LbCall
  <2>3. lbRows'[i].seq <= lbSequence  BY <1>3, <1>4, <2>2
  <2> QED  BY <1>1, <1>4, <2>3
<1>5. q.pc = "basis" =>
        \A i \in LbIds' : Counts(i)' /\ lbRows'[i].seq <= q.seq => lbRows'[i].status = "SUCCEEDED"
  BY <1>4 DEF RequestKnows, BuildsMoveOn
<1>6. q.pc = "insert" /\ q.kind = "WITHDRAW" =>
        \A i \in LbIds' : Counts(i)' /\ lbRows'[i].seq <= q.seq => i \in q.basis
  BY <1>4 DEF RequestKnows
<1> QED  BY <1>2, <1>3, <1>5, <1>6 DEF RequestKnows, MatchesRequest

\* A request goes on with a record it may count on.
LEMMA RequestGoes ==
    ASSUME BuildsInv, NEW r \in LpRequests, NEW q \in LbCall, RequestKnows(q),
           lbRequest' = [lbRequest EXCEPT ![r] = q], UNCHANGED <<lbRows, lbLedger>>
    PROVE  BuildsInv'
<1>1. UNCHANGED <<lbRows, lbOver, lbLanded, lbSpent, lbRejected, lbSequence>>  BY DEF lbLedger
<1>2. BuildsType'  BY <1>1 DEF BuildsInv, BuildsType, Landed, LbIds
<1>3. \A k \in LbIds' : RowHolds(k)'
  BY <1>1 DEF BuildsInv, RowHolds, Landed, LbIds, LbWithdrawal, Counts
<1>4. (LandedIsOlder /\ LandedInOrder /\ OneRowPerKey)'
  BY <1>1 DEF BuildsInv, LandedIsOlder, LandedInOrder, OneRowPerKey, Landed, LbIds
<1>5. ASSUME NEW p \in LpRequests PROVE RequestKnows(lbRequest[p])'
  <2>1. PICK s \in LbCall : s = lbRequest'[p] /\ RequestKnows(s)
    BY DEF BuildsInv, BuildsType
  <2> QED
    BY <1>1, <2>1 DEF RequestKnows, Counts, Landed, LbIds, LbWithdrawal, MatchesRequest
<1> QED  BY <1>2, <1>3, <1>4, <1>5 DEF BuildsInv

\* The statements of a request before and beside the insert.
LEMMA RequestSteps ==
    ASSUME BuildsInv, NEW r \in LpRequests,
           \/ \E key \in LpKeys \cup {NoKey}, kind \in {"DEPOSIT", "WITHDRAW"}, terms \in LpShares :
                StartBuild(r, key, kind, terms)
           \/ LookUpKey(r) \/ AssertNoInflightWithdraw(r) \/ ReadBasis(r) \/ RecoverRaced(r)
           \/ \E seq \in 0..MaxLpSeq : LoadAccount(r, seq)
           \/ LbGoto(r, "recover") /\ lbRequest[r].pc = "insert" /\ UNCHANGED <<lbRows, lbLedger>>
    PROVE  BuildsInv'
<1>0. lbRequest[r] \in LbCall /\ RequestKnows(lbRequest[r])  BY DEF BuildsInv, BuildsType
<1>1. ASSUME NEW q \in LbCall, RequestKnows(q), lbRequest' = [lbRequest EXCEPT ![r] = q],
             UNCHANGED <<lbRows, lbLedger>>
      PROVE  BuildsInv'
  BY <1>1, RequestGoes
<1>2. Refused \in LbCall /\ Refused.pc = "refused" /\ RequestKnows(Refused)
  BY DEF Refused, NoRequest, LbCall, RequestKnows, NoKey
<1>3. ASSUME NEW i \in ByKey(lbRequest[r].key), Replay(r, i), lbRequest[r].pc \in {"lookup", "recover"},
             UNCHANGED <<lbRows, lbLedger>>
      PROVE  BuildsInv'
  <2>1. CASE ~MatchesRequest(lbRows[i], lbRequest[r])
    BY <1>1, <1>2, <1>3, <2>1 DEF Replay
  <2>2. CASE MatchesRequest(lbRows[i], lbRequest[r])
    <3> DEFINE q == Answered(lbRequest[r], i)
    <3>1. i \in LbIds /\ i \in Nat /\ lbRows[i].key = lbRequest[r].key
      BY RowsTyped DEF ByKey, BuildsInv
    <3>2. /\ q \in LbCall /\ q.pc = "answered" /\ q.answer = i /\ q.kind = lbRequest[r].kind
          /\ q.terms = lbRequest[r].terms /\ q.key = lbRequest[r].key
      BY <1>0, <3>1 DEF Answered, LbCall
    <3>3. RequestKnows(q)
      BY <1>0, <1>3, <2>2, <3>1, <3>2 DEF RequestKnows, MatchesRequest
    <3>4. lbRequest' = [lbRequest EXCEPT ![r] = q]  BY <1>3, <2>2 DEF Replay
    <3> HIDE DEF q
    <3> QED  BY <1>1, <1>3, <3>2, <3>3, <3>4
  <2> QED  BY <2>1, <2>2
<1>4. ASSUME NEW key \in LpKeys \cup {NoKey}, NEW kind \in {"DEPOSIT", "WITHDRAW"}, NEW terms \in LpShares,
             StartBuild(r, key, kind, terms)
      PROVE  BuildsInv'
  <2> DEFINE q == [NoRequest EXCEPT !.pc = "lookup", !.key = key, !.kind = kind, !.terms = terms]
  <2>1. q \in LbCall /\ q.pc = "lookup" /\ q.kind = kind /\ q.terms = terms
    BY DEF NoRequest, LbCall
  <2>2. RequestKnows(q)  BY <2>1 DEF RequestKnows
  <2> QED  BY <1>1, <1>4, <2>1, <2>2 DEF StartBuild
<1>5. ASSUME NEW pc \in {"load", "recover"}, LbGoto(r, pc), lbRequest[r].pc \in {"lookup", "insert"},
             UNCHANGED <<lbRows, lbLedger>>
      PROVE  BuildsInv'
  <2> DEFINE q == [lbRequest[r] EXCEPT !.pc = pc]
  <2>1. q \in LbCall /\ q.pc = pc /\ q.kind = lbRequest[r].kind /\ q.terms = lbRequest[r].terms
    BY <1>0 DEF LbCall
  <2>2. RequestKnows(q)  BY <1>0, <1>5, <2>1 DEF RequestKnows
  <2>3. lbRequest' = [lbRequest EXCEPT ![r] = q]  BY <1>0, <1>5 DEF LbGoto, BuildsInv, BuildsType
  <2> QED  BY <1>1, <1>5, <2>1, <2>2, <2>3
<1>6. CASE LookUpKey(r) \/ RecoverRaced(r)
  BY <1>1, <1>2, <1>3, <1>5, <1>6 DEF LookUpKey, RecoverRaced, LbRefuse
<1>7. ASSUME NEW seq \in 0..MaxLpSeq, LoadAccount(r, seq) PROVE BuildsInv'
  <2>1. PICK pc \in {"guard", "insert"} :
          /\ pc = "insert" => lbRequest[r].kind # "WITHDRAW"
          /\ lbRequest' = [lbRequest EXCEPT ![r].seq = seq, ![r].pc = pc]
          /\ UNCHANGED <<lbRows, lbLedger>> /\ lbRequest[r].pc = "load"
          /\ seq \in 0..lbSequence
    BY <1>7 DEF LoadAccount
  <2>2. seq \in Nat /\ seq <= lbSequence  BY <2>1 DEF BuildsInv, BuildsType
  <2> DEFINE q == [lbRequest[r] EXCEPT !.seq = seq, !.pc = pc]
  <2>3. /\ q \in LbCall /\ q.pc = pc /\ q.seq = seq /\ q.kind = lbRequest[r].kind
        /\ q.terms = lbRequest[r].terms
    BY <1>0, <2>2 DEF LbCall
  <2>4. RequestKnows(q)  BY <1>0, <2>1, <2>2, <2>3 DEF RequestKnows
  <2>5. lbRequest' = [lbRequest EXCEPT ![r] = q]  BY <1>0, <2>1 DEF BuildsInv, BuildsType, LbCall
  <2> QED  BY <1>1, <2>1, <2>3, <2>4, <2>5
<1>8. CASE AssertNoInflightWithdraw(r)
  <2>1. CASE LbRefuse(r)
    BY <1>1, <1>2, <1>8, <2>1 DEF AssertNoInflightWithdraw, LbRefuse
  <2>2. CASE NoneInFlight(lbRequest[r].seq) /\ LbGoto(r, "basis")
    <3> DEFINE q == [lbRequest[r] EXCEPT !.pc = "basis"]
    <3>1. /\ q \in LbCall /\ q.pc = "basis" /\ q.seq = lbRequest[r].seq
          /\ q.kind = lbRequest[r].kind /\ q.terms = lbRequest[r].terms
      BY <1>0 DEF LbCall
    <3>2. ASSUME NEW i \in LbIds, Counts(i), lbRows[i].seq <= lbRequest[r].seq
          PROVE  lbRows[i].status = "SUCCEEDED"
      <4>1. lbRows[i].status \in {"PENDING", "SUCCEEDED"}
        BY <3>2 DEF BuildsInv, RowHolds, Counts
      <4>2. SUFFICES ASSUME lbRows[i].status = "PENDING" PROVE FALSE  BY <4>1
      <4>3. i \in HoldsGuard  BY <3>2, <4>2 DEF HoldsGuard, Counts, LbWithdrawal, LbInFlight
      <4>4. PICK k \in LbIds : k <= i /\ lbRows[k].seq > lbRequest[r].seq
        BY <2>2, <4>3 DEF NoneInFlight, CannotHaveSettled, HoldsGuard
      <4>5. /\ lbRows[k].seq \in Nat /\ lbRows[i].seq \in Nat /\ i \in Nat /\ k \in Nat
            /\ lbRequest[r].seq \in Nat
        BY <1>0, RowsTyped DEF BuildsInv, LbCall
      <4>6. lbRows[i].seq < lbRows[k].seq  BY <3>2, <4>4, <4>5
      <4>7. i < k  BY <3>2, <4>6 DEF BuildsInv, LandedIsOlder, Counts
      <4> QED  BY <4>4, <4>5, <4>7
    <3>3. RequestKnows(q)
      BY <1>0, <1>8, <3>1, <3>2 DEF RequestKnows, AssertNoInflightWithdraw
    <3>4. lbRequest' = [lbRequest EXCEPT ![r] = q]  BY <1>0, <2>2 DEF LbGoto, BuildsInv, BuildsType
    <3> QED  BY <1>1, <1>8, <3>1, <3>3, <3>4 DEF AssertNoInflightWithdraw
  <2> QED  BY <1>8, <2>1, <2>2 DEF AssertNoInflightWithdraw
<1>9. CASE ReadBasis(r)
  <2>1. PICK seen \in SUBSET Nat : seen = {i \in LbIds : lbRows[i].status = "SUCCEEDED"}
    BY RowsTyped DEF BuildsInv
  <2> DEFINE q == [lbRequest[r] EXCEPT !.basis = seen, !.pc = "insert"]
  <2>2. /\ q \in LbCall /\ q.pc = "insert" /\ q.basis = seen /\ q.seq = lbRequest[r].seq
        /\ q.kind = lbRequest[r].kind /\ q.terms = lbRequest[r].terms
    BY <1>0 DEF LbCall
  <2>3. RequestKnows(q)  BY <1>0, <1>9, <2>1, <2>2 DEF RequestKnows, ReadBasis
  <2>4. lbRequest' = [lbRequest EXCEPT ![r].basis = seen, ![r].pc = "insert"]
    BY <1>9, <2>1 DEF ReadBasis
  <2>5. lbRequest' = [lbRequest EXCEPT ![r] = q]  BY <1>0, <2>4 DEF BuildsInv, BuildsType, LbCall
  <2> QED  BY <1>1, <1>9, <2>2, <2>3, <2>5 DEF ReadBasis
<1>10. CASE LbGoto(r, "recover") /\ lbRequest[r].pc = "insert" /\ UNCHANGED <<lbRows, lbLedger>>
  BY <1>5, <1>10
<1> QED  BY <1>4, <1>6, <1>7, <1>8, <1>9, <1>10

\* persist: the insert takes the next place, and only if no row has the key.
LEMMA PersistKeeps ==
    ASSUME BuildsInv, NEW r \in LpRequests, Persist(r)
    PROVE  BuildsInv'
<1> DEFINE req == lbRequest[r]
           dbRow == LbBuilt(req)
<1>0. req \in LbCall /\ RequestKnows(req) /\ req.pc = "insert"  BY DEF BuildsInv, BuildsType, Persist
<1>1. CASE LbGoto(r, "recover") /\ UNCHANGED lbRows
  BY <1>0, <1>1, RequestSteps DEF Persist
<1>n. PICK n \in Nat : n = Len(lbRows) + 1  BY RowsTyped DEF BuildsInv
<1>2. CASE /\ ~LbKeyTaken(req) /\ lbRows' = Append(lbRows, dbRow)
           /\ lbRequest' = [lbRequest EXCEPT ![r] = Answered(req, n)]
  <2>1. UNCHANGED <<lbOver, lbLanded, lbSpent, lbRejected, lbSequence>>  BY DEF Persist, lbLedger
  <2>2. /\ dbRow \in LbRow /\ dbRow.kind = req.kind /\ dbRow.key = req.key /\ dbRow.terms = req.terms
        /\ dbRow.seq = req.seq + 1 /\ dbRow.basis = req.basis /\ dbRow.status = "PENDING"
    BY <1>0 DEF RequestKnows, LbBuilt, LbCall, LbRow, LbStatuses
  <2> HIDE DEF dbRow
  <2>3. /\ LbIds = 1..Len(lbRows) /\ Len(lbRows) \in Nat /\ n \in Nat /\ n \notin LbIds
        /\ \A k \in LbIds : lbRows[k] \in LbRow /\ lbRows[k].seq \in Nat /\ k \in Nat /\ k < n
    BY <1>n, RowsTyped DEF BuildsInv
  <2>4. /\ lbRows' \in Seq(LbRow) /\ LbIds' = LbIds \cup {n}
        /\ \A k \in LbIds : lbRows'[k] = lbRows[k]
        /\ lbRows'[n] = dbRow
    <3>1. /\ Append(lbRows, dbRow) \in Seq(LbRow) /\ Len(Append(lbRows, dbRow)) = n
          /\ \A k \in 1..Len(lbRows) : Append(lbRows, dbRow)[k] = lbRows[k]
          /\ Append(lbRows, dbRow)[n] = dbRow
      BY <1>n, <2>2, AppendProperties DEF BuildsInv, BuildsType
    <3>2. LbIds' = 1..n  BY <1>2, <3>1 DEF LbIds
    <3> QED  BY <1>n, <1>2, <2>3, <3>1, <3>2
  <2>5. Landed' = Landed /\ Landed \subseteq LbIds /\ n \notin Landed /\ n \notin lbSpent
    BY <2>1, <2>3 DEF Landed, BuildsInv, BuildsType
  <2> DEFINE q == Answered(req, n)
  <2>6. /\ q \in LbCall /\ q.pc = "answered" /\ q.answer = n /\ q.kind = req.kind
        /\ q.terms = req.terms /\ q.key = req.key
    BY <1>0, <2>3 DEF Answered, LbCall
  <2>7. lbRequest' = [lbRequest EXCEPT ![r] = q]  BY <1>2
  <2> HIDE DEF q
  <2>8. BuildsType'
    <3>1. lbRequest' \in [LpRequests -> LbCall]  BY <2>6, <2>7 DEF BuildsInv, BuildsType
    <3> QED  BY <2>1, <2>4, <2>5, <3>1 DEF BuildsInv, BuildsType
  <2>9. BuildsMoveOn
    <3>1. lbSequence <= lbSequence'  BY <2>1 DEF BuildsInv, BuildsType
    <3> QED  BY <2>1, <2>4, <2>5, <3>1 DEF BuildsMoveOn
  <2>10. ASSUME NEW p \in LpRequests PROVE RequestKnows(lbRequest[p])'
    <3>1. CASE p = r
      <4>1. lbRequest'[p] = q  BY <2>7, <3>1 DEF BuildsInv, BuildsType
      <4> QED  BY <1>0, <2>2, <2>4, <2>6, <4>1 DEF RequestKnows, MatchesRequest
    <3>2. CASE p # r
      <4>1. PICK s \in LbCall : s = lbRequest[p] /\ lbRequest'[p] = s /\ RequestKnows(s)
        BY <2>7, <3>2 DEF BuildsInv, BuildsType
      <4>2. RequestKnows(s)'  BY <2>8, <2>9, <4>1, RequestKnowsStays
      <4> QED  BY <4>1, <4>2 DEF RequestKnows, MatchesRequest
    <3> QED  BY <3>1, <3>2
  <2>11. ASSUME NEW i \in LbIds' PROVE Counts(i)' => Counts(i) /\ i \in LbIds
    BY <2>1, <2>4, <2>5 DEF Counts, LbWithdrawal
  <2>12. ASSUME NEW k \in LbIds PROVE RowHolds(k)'
    BY <2>1, <2>4, <2>5, <2>11 DEF BuildsInv, RowHolds, LbWithdrawal
  <2>13. RowHolds(n)'
    <3>1. req.seq \in Nat /\ lbSequence \in Nat /\ req.seq <= lbSequence
      BY <1>0 DEF RequestKnows, LbCall, BuildsInv, BuildsType
    <3>2. dbRow.seq <= lbSequence + 1  BY <2>2, <3>1
    <3>3. ASSUME dbRow.kind = "WITHDRAW", NEW i \in LbIds', Counts(i)', lbRows'[i].seq < dbRow.seq
          PROVE  i \in dbRow.basis
      <4>1. i \in LbIds /\ Counts(i) /\ lbRows'[i] = lbRows[i] /\ lbRows[i].seq \in Nat
        BY <2>3, <2>4, <2>11, <3>3
      <4>2. lbRows[i].seq <= req.seq  BY <2>2, <3>1, <3>3, <4>1
      <4> QED  BY <1>0, <2>2, <3>3, <4>1, <4>2 DEF RequestKnows
    <3> QED  BY <2>1, <2>2, <2>4, <2>5, <3>2, <3>3 DEF RowHolds, LbWithdrawal
  <2>14. LandedIsOlder'
    <3> SUFFICES ASSUME NEW i \in LbIds', NEW k \in LbIds', i \in Landed', lbRows'[i].seq < lbRows'[k].seq
                 PROVE  i < k
      BY DEF LandedIsOlder
    <3>1. i \in LbIds /\ lbRows'[i] = lbRows[i] /\ i < n  BY <2>3, <2>4, <2>5
    <3>2. CASE k = n  BY <3>1, <3>2
    <3>3. CASE k \in LbIds
      <4>1. lbRows'[k] = lbRows[k]  BY <2>4, <3>3
      <4> QED  BY <2>5, <3>1, <3>3, <4>1 DEF BuildsInv, LandedIsOlder
    <3> QED  BY <2>4, <3>2, <3>3
  <2>15. LandedInOrder'
    <3>1. \A m \in DOMAIN lbLanded : lbLanded[m] \in LbIds  BY <2>5 DEF Landed, ToSet
    <3> QED  BY <2>1, <2>4, <3>1 DEF BuildsInv, LandedInOrder
  <2>16. OneRowPerKey'
    <3>1. req.key # NoKey => \A k \in LbIds : lbRows[k].key # req.key
      BY <1>2 DEF LbKeyTaken, ByKey
    <3> QED  BY <2>2, <2>4, <3>1 DEF BuildsInv, OneRowPerKey
  <2> QED  BY <2>4, <2>8, <2>10, <2>12, <2>13, <2>14, <2>15, <2>16 DEF BuildsInv
<1> QED  BY <1>1, <1>n, <1>2 DEF Persist

\* A submit or the observer writes a status.
LEMMA StatusKeeps ==
    ASSUME BuildsInv, NEW i \in LbIds, RejectOperation(i) \/ ObserveOperation(i)
    PROVE  BuildsInv'
<1>1. PICK s \in LbStatuses :
        /\ lbRows' = [lbRows EXCEPT ![i].status = s]
        /\ lbRows[i].status = "SUCCEEDED" => s = "SUCCEEDED"
        /\ i \notin lbOver \cup lbRejected' \cup lbSpent => s \in {"PENDING", "SUCCEEDED"}
        /\ lbRejected \subseteq lbRejected'
        /\ UNCHANGED <<lbOver, lbLanded, lbSpent, lbSequence, lbRequest>>
  BY DEF RejectOperation, ObserveOperation, lbLedger, LbInFlight, LbStatuses
<1>2. /\ LbIds = 1..Len(lbRows) /\ Len(lbRows) \in Nat
      /\ \A k \in LbIds : lbRows[k] \in LbRow /\ lbRows[k].seq \in Nat /\ k \in Nat
  BY RowsTyped DEF BuildsInv
<1> DEFINE dbRow == [lbRows[i] EXCEPT !.status = s]
<1>3. /\ dbRow \in LbRow /\ dbRow.kind = lbRows[i].kind /\ dbRow.key = lbRows[i].key
      /\ dbRow.terms = lbRows[i].terms /\ dbRow.seq = lbRows[i].seq /\ dbRow.basis = lbRows[i].basis
      /\ dbRow.status = s
  BY <1>2 DEF LbRow
<1>4. lbRows' = [lbRows EXCEPT ![i] = dbRow]  BY <1>1
<1> HIDE DEF dbRow
<1>5. /\ lbRows' \in Seq(LbRow) /\ LbIds' = LbIds
      /\ \A k \in LbIds : lbRows'[k] = IF k = i THEN dbRow ELSE lbRows[k]
  <2>1. /\ [lbRows EXCEPT ![i] = dbRow] \in Seq(LbRow)
        /\ Len([lbRows EXCEPT ![i] = dbRow]) = Len(lbRows)
        /\ \A k \in 1..Len(lbRows) : [lbRows EXCEPT ![i] = dbRow][k] = IF k = i THEN dbRow ELSE lbRows[k]
    BY <1>2, <1>3, ExceptSeq DEF BuildsInv, BuildsType
  <2> QED  BY <1>2, <1>4, <2>1 DEF LbIds
<1>6. \A k \in LbIds : /\ lbRows'[k].kind = lbRows[k].kind /\ lbRows'[k].key = lbRows[k].key
                       /\ lbRows'[k].terms = lbRows[k].terms /\ lbRows'[k].seq = lbRows[k].seq
                       /\ lbRows'[k].basis = lbRows[k].basis
                       /\ lbRows'[k].status = IF k = i THEN s ELSE lbRows[k].status
  BY <1>3, <1>5
<1>7. Landed' = Landed /\ Landed \subseteq LbIds  BY <1>1 DEF Landed, BuildsInv, BuildsType
<1>8. BuildsType'  BY <1>1, <1>5, <1>7 DEF BuildsInv, BuildsType
<1>9. BuildsMoveOn  BY <1>1, <1>5, <1>6, <1>7 DEF BuildsMoveOn, BuildsInv, BuildsType
<1>10. ASSUME NEW p \in LpRequests PROVE RequestKnows(lbRequest[p])'
  <2>1. PICK q \in LbCall : q = lbRequest[p] /\ lbRequest'[p] = q /\ RequestKnows(q)
    BY <1>1 DEF BuildsInv, BuildsType
  <2>2. RequestKnows(q)'  BY <1>8, <1>9, <2>1, RequestKnowsStays
  <2> QED  BY <2>1, <2>2 DEF RequestKnows, MatchesRequest
<1>11. ASSUME NEW k \in LbIds PROVE RowHolds(k)'
  <2>1. \A j \in LbIds : Counts(j)' => Counts(j)  BY <1>1, <1>6, <1>7 DEF Counts, LbWithdrawal
  <2>2. RowHolds(k)  BY DEF BuildsInv
  <2>3. k \notin lbOver' \cup lbRejected' \cup lbSpent' => lbRows'[k].status \in {"PENDING", "SUCCEEDED"}
    BY <1>1, <1>6, <2>2 DEF RowHolds
  <2>4. LbWithdrawal(k)' =>
          \A j \in LbIds' : Counts(j)' /\ lbRows'[j].seq < lbRows'[k].seq => j \in lbRows'[k].basis
    BY <1>5, <1>6, <2>1, <2>2 DEF RowHolds, LbWithdrawal
  <2> QED  BY <1>1, <1>6, <1>7, <2>2, <2>3, <2>4 DEF RowHolds
<1>12. (LandedIsOlder /\ OneRowPerKey)'
  BY <1>5, <1>6, <1>7 DEF BuildsInv, LandedIsOlder, OneRowPerKey
<1>13. LandedInOrder'
  <2>1. \A m \in DOMAIN lbLanded : lbLanded[m] \in LbIds  BY <1>7 DEF Landed, ToSet
  <2> QED  BY <1>1, <1>6, <2>1 DEF BuildsInv, LandedInOrder
<1> QED  BY <1>5, <1>8, <1>10, <1>11, <1>12, <1>13 DEF BuildsInv

\* The ledger applies a row's transaction or another of the account; a window passes.
LEMMA LedgerKeeps ==
    ASSUME BuildsInv,
           \/ OtherTransaction
           \/ \E i \in LbIds : LandOperation(i) \/ LbWindowPasses(i)
    PROVE  BuildsInv'
<1>0. /\ LbIds = 1..Len(lbRows) /\ Len(lbRows) \in Nat /\ lbSequence \in Nat
      /\ \A k \in LbIds : lbRows[k].seq \in Nat
      /\ Landed \subseteq LbIds /\ lbSpent \subseteq LbIds
      /\ \A m \in DOMAIN lbLanded : lbLanded[m] \in Landed
  BY RowsTyped DEF BuildsInv, BuildsType, Landed, ToSet
<1>1. ASSUME UNCHANGED <<lbRows, lbRejected, lbRequest>>, lbOver \subseteq lbOver',
             lbSequence' \in Nat, lbSequence <= lbSequence', lbLanded' \in Seq(Nat),
             NEW new \in SUBSET LbIds, NEW spent \in SUBSET LbIds,
             Landed' = Landed \cup new, lbSpent' = lbSpent \cup spent, new \cap spent = {},
             \A i \in new \cup spent : lbRows[i].seq > lbSequence /\ lbRows[i].seq <= lbSequence',
             LandedInOrder'
      PROVE  BuildsInv'
  <2>1. LbIds' = LbIds  BY <1>1 DEF LbIds
  <2>2. BuildsType'  BY <1>0, <1>1, <2>1 DEF BuildsInv, BuildsType
  <2>3. BuildsMoveOn  BY <1>0, <1>1, <2>1 DEF BuildsMoveOn
  <2>4. ASSUME NEW p \in LpRequests PROVE RequestKnows(lbRequest[p])'
    <3>1. PICK q \in LbCall : q = lbRequest[p] /\ lbRequest'[p] = q /\ RequestKnows(q)
      BY <1>1 DEF BuildsInv, BuildsType
    <3>2. RequestKnows(q)'  BY <2>2, <2>3, <3>1, RequestKnowsStays
    <3> QED  BY <3>1, <3>2 DEF RequestKnows, MatchesRequest
  <2>5. ASSUME NEW k \in LbIds PROVE RowHolds(k)'
    <3>1. RowHolds(k) /\ lbRows[k].seq \in Nat  BY <1>0 DEF BuildsInv
    <3>2. lbRows[k].seq <= lbSequence' + 1  BY <1>0, <1>1, <3>1 DEF RowHolds
    <3>3. k \in Landed' \cup lbSpent' => lbRows[k].seq <= lbSequence'
      BY <1>0, <1>1, <3>1 DEF RowHolds
    <3>4. k \in Landed' => k \notin lbSpent'
      <4>1. k \in Landed \cup lbSpent => ~(lbRows[k].seq > lbSequence)  BY <1>0, <3>1 DEF RowHolds
      <4> QED  BY <1>1, <3>1, <4>1 DEF RowHolds
    <3>5. ASSUME LbWithdrawal(k), NEW i \in LbIds, Counts(i)', lbRows[i].seq < lbRows[k].seq
          PROVE  i \in lbRows[k].basis
      <4>1. i \notin new
        <5>1. ~(lbRows[i].seq > lbSequence)  BY <1>0, <3>1, <3>5 DEF RowHolds
        <5> QED  BY <1>1, <5>1
      <4>2. Counts(i)  BY <1>1, <3>5, <4>1 DEF Counts, LbWithdrawal
      <4> QED  BY <3>1, <3>5, <4>2 DEF RowHolds
    <3>6. k \notin lbOver' \cup lbRejected' \cup lbSpent' => lbRows[k].status \in {"PENDING", "SUCCEEDED"}
      BY <1>1, <3>1 DEF RowHolds
    <3> QED  BY <1>1, <2>1, <3>2, <3>3, <3>4, <3>5, <3>6 DEF RowHolds, LbWithdrawal
  <2>6. LandedIsOlder'
    <3> SUFFICES ASSUME NEW i \in LbIds, NEW k \in LbIds, i \in Landed', lbRows[i].seq < lbRows[k].seq
                 PROVE  i < k
      BY <1>1, <2>1 DEF LandedIsOlder
    <3>1. lbRows[k].seq <= lbSequence + 1  BY DEF BuildsInv, RowHolds
    <3>2. ~(lbRows[i].seq > lbSequence)  BY <1>0, <3>1
    <3>3. i \in Landed  BY <1>1, <3>2
    <3> QED  BY <3>3 DEF BuildsInv, LandedIsOlder
  <2>7. OneRowPerKey'  BY <1>1, <2>1 DEF BuildsInv, OneRowPerKey
  <2> QED  BY <1>1, <2>1, <2>2, <2>4, <2>5, <2>6, <2>7 DEF BuildsInv
<1>2. UNCHANGED <<lbRows, lbLanded>> => LandedInOrder' /\ Landed' = Landed /\ lbLanded' \in Seq(Nat)
  BY DEF BuildsInv, BuildsType, LandedInOrder, Landed
<1>3. CASE OtherTransaction
  <2>1. /\ UNCHANGED <<lbRows, lbOver, lbLanded, lbSpent, lbRejected, lbRequest>>
        /\ lbSequence' \in Nat /\ lbSequence <= lbSequence'
    BY <1>0, <1>3 DEF OtherTransaction
  <2>2. {} \in SUBSET LbIds /\ Landed' = Landed \cup {} /\ lbSpent' = lbSpent \cup {}  BY <1>2, <2>1
  <2> QED  BY <1>1, <1>2, <2>1, <2>2
<1>4. ASSUME NEW i \in LbIds, LbWindowPasses(i) PROVE BuildsInv'
  <2>1. /\ UNCHANGED <<lbRows, lbLanded, lbSpent, lbRejected, lbSequence, lbRequest>>
        /\ lbOver \subseteq lbOver' /\ lbSequence' \in Nat /\ lbSequence <= lbSequence'
    BY <1>0, <1>4 DEF LbWindowPasses
  <2>2. {} \in SUBSET LbIds /\ Landed' = Landed \cup {} /\ lbSpent' = lbSpent \cup {}  BY <1>2, <2>1
  <2> QED  BY <1>1, <1>2, <2>1, <2>2
<1>5. ASSUME NEW i \in LbIds, LandOperation(i) PROVE BuildsInv'
  <2>1. /\ UNCHANGED <<lbRows, lbOver, lbRejected, lbRequest>> /\ lbSequence' = lbSequence + 1
        /\ lbRows[i].seq = lbSequence + 1 /\ i \in Nat
        /\ lbSequence' \in Nat /\ lbSequence <= lbSequence'
        /\ lbRows[i].seq > lbSequence /\ lbRows[i].seq <= lbSequence'
    BY <1>0, <1>5 DEF LandOperation, Broadcastable
  <2>2. {} \in SUBSET LbIds /\ {i} \in SUBSET LbIds  OBVIOUS
  <2>3. CASE lbSpent' = lbSpent \cup {i} /\ UNCHANGED lbLanded
    <3>1. Landed' = Landed \cup {}  BY <1>2, <2>1, <2>3
    <3> QED  BY <1>1, <1>2, <2>1, <2>2, <2>3, <3>1
  <2>4. CASE lbLanded' = Append(lbLanded, i) /\ UNCHANGED lbSpent
    <3>1. /\ lbLanded' \in Seq(Nat) /\ DOMAIN lbLanded' = 1..(Len(lbLanded) + 1)
          /\ DOMAIN lbLanded = 1..Len(lbLanded) /\ Len(lbLanded) \in Nat
          /\ \A m \in 1..Len(lbLanded) : lbLanded'[m] = lbLanded[m]
          /\ lbLanded'[Len(lbLanded) + 1] = i
      BY <2>1, <2>4, AppendProperties DEF BuildsInv, BuildsType
    <3>2. Landed' = Landed \cup {i}  BY <3>1 DEF Landed, ToSet
    <3>3. LandedInOrder'
      <4> SUFFICES ASSUME NEW m \in DOMAIN lbLanded', NEW k \in DOMAIN lbLanded', m < k
                   PROVE  lbRows'[lbLanded'[m]].seq < lbRows'[lbLanded'[k]].seq
        BY DEF LandedInOrder
      <4>1. m \in DOMAIN lbLanded /\ lbLanded'[m] = lbLanded[m]  BY <3>1
      <4>2. CASE k \in DOMAIN lbLanded
        <5>1. lbLanded'[k] = lbLanded[k]  BY <3>1, <4>2
        <5> QED  BY <2>1, <4>1, <4>2, <5>1 DEF BuildsInv, LandedInOrder
      <4>3. CASE k \notin DOMAIN lbLanded
        <5>1. lbLanded'[k] = i  BY <3>1, <4>3
        <5>2. lbLanded[m] \in Landed /\ lbLanded[m] \in LbIds  BY <1>0, <4>1
        <5>3. lbRows[lbLanded[m]].seq <= lbSequence /\ lbRows[lbLanded[m]].seq \in Nat
          BY <1>0, <5>2 DEF BuildsInv, RowHolds
        <5> QED  BY <1>0, <2>1, <4>1, <5>1, <5>3
      <4> QED  BY <4>2, <4>3
    <3>4. lbSpent' = lbSpent \cup {}  BY <2>4
    <3> QED  BY <1>1, <2>1, <2>2, <3>1, <3>2, <3>3, <3>4
  <2> QED  BY <1>5, <2>3, <2>4 DEF LandOperation
<1> QED  BY <1>3, <1>4, <1>5

\* Every step keeps the invariant.
LEMMA BuildsStep ==
    ASSUME BuildsInv, [LiquidityBuildsNext]_lbVars
    PROVE  BuildsInv'
<1>1. CASE UNCHANGED lbVars
  <2>1. UNCHANGED <<lbRows, lbOver, lbLanded, lbSpent, lbRejected, lbSequence, lbRequest>>
    BY <1>1 DEF lbVars
  <2>2. BuildsType'  BY <2>1 DEF BuildsInv, BuildsType, Landed, LbIds
  <2>3. \A k \in LbIds' : RowHolds(k)'
    BY <2>1 DEF BuildsInv, RowHolds, Landed, LbIds, LbWithdrawal, Counts
  <2>4. (LandedIsOlder /\ LandedInOrder /\ OneRowPerKey)'
    BY <2>1 DEF BuildsInv, LandedIsOlder, LandedInOrder, OneRowPerKey, Landed, LbIds
  <2>5. \A r \in LpRequests : RequestKnows(lbRequest[r])'
    BY <2>1 DEF BuildsInv, RequestKnows, Counts, Landed, LbIds, LbWithdrawal, MatchesRequest
  <2> QED  BY <2>2, <2>3, <2>4, <2>5 DEF BuildsInv
<1> QED
  BY <1>1, RequestSteps, PersistKeeps, StatusKeeps, LedgerKeeps DEF LiquidityBuildsNext, BuildStep

\* No row, no request and no transaction at the start.
LEMMA BuildsStart ==
    ASSUME LiquidityBuildsInit PROVE BuildsInv
<1>1. /\ lbRows = <<>> /\ lbLanded = <<>> /\ LbIds = {} /\ Landed = {}
  BY DEF LiquidityBuildsInit, LbIds, Landed, ToSet
<1>2. NoRequest \in LbCall /\ NoRequest.pc = "idle"  BY DEF NoRequest, LbCall
<1>3. BuildsType  BY <1>1, <1>2 DEF LiquidityBuildsInit, BuildsType
<1>4. RequestKnows(NoRequest)  BY <1>2 DEF RequestKnows
<1>5. LandedIsOlder /\ LandedInOrder /\ OneRowPerKey
  BY <1>1 DEF LandedIsOlder, LandedInOrder, OneRowPerKey
<1> QED  BY <1>1, <1>3, <1>4, <1>5 DEF LiquidityBuildsInit, BuildsInv

\* A key builds one operation, and a settled withdrawal's gain is in the cost basis of every
\* later one: for any number of requests, keys, rows and rejections, however far Horizon
\* lags (assertNoInflightWithdraw, costBasis, persist, recoverRacedBuild).
THEOREM BuiltAndTaxedOnce ==
    LiquidityBuildsInit /\ [][LiquidityBuildsNext]_lbVars => [](KeyBuildsOnce /\ GainTaxedOnce)
<1>1. LiquidityBuildsInit => BuildsInv  BY BuildsStart
<1>2. BuildsInv /\ [LiquidityBuildsNext]_lbVars => BuildsInv'  BY BuildsStep
<1>3. BuildsInv => KeyBuildsOnce
  BY DEF BuildsInv, RequestKnows, OneRowPerKey, MatchesRequest, KeyBuildsOnce
<1>4. BuildsInv => GainTaxedOnce
  <2> SUFFICES ASSUME BuildsInv, NEW i \in LbIds, NEW j \in LbIds, LbWithdrawal(i), LbWithdrawal(j),
                      LbBefore(i, j), i \notin lbOver \cup lbRejected
               PROVE  i \in lbRows[j].basis
    BY DEF GainTaxedOnce
  <2>1. i \in Landed /\ lbRows[i].seq < lbRows[j].seq
    BY DEF LbBefore, Landed, ToSet, BuildsInv, LandedInOrder
  <2> QED  BY <2>1 DEF BuildsInv, RowHolds, Counts
<1> QED  BY <1>1, <1>2, <1>3, <1>4, PTL

-----------------------------------------------------------------------------
(***************************************************************************)
(* What a withdrawal is charged fits into its payout, for every rate,      *)
(* reserve, number of shares and cost, with the rounding of the code.      *)
(***************************************************************************)

\* A product grows with its factor.
LEMMA ProductGrows ==
    ASSUME NEW a \in Nat, NEW b \in Nat, NEW c \in Nat, a <= b
    PROVE  a * c <= b * c /\ a * c \in Nat /\ b * c \in Nat
<1>1. a * c \in Nat /\ b * c \in Nat  OBVIOUS
<1>2. PICK d \in Nat : b = a + d  BY SMT
<1>3. b * c = a * c + d * c  BY <1>2
<1>4. d * c \in Nat  OBVIOUS
<1> QED  BY <1>1, <1>3, <1>4

\* What a rounded quotient is.
LEMMA QuotientBounds ==
    ASSUME NEW a \in Nat, NEW t \in Nat \ {0}
    PROVE  a \div t \in Nat /\ t * (a \div t) <= a /\ a < t * (a \div t) + t
OBVIOUS

\* And it grows with its dividend.
LEMMA QuotientGrows ==
    ASSUME NEW a \in Nat, NEW b \in Nat, NEW t \in Nat \ {0}, a <= b
    PROVE  a \div t <= b \div t
<1> DEFINE p == a \div t
           q == b \div t
<1>1. p \in Nat /\ t * p <= a /\ q \in Nat /\ b < t * q + t  BY QuotientBounds
<1> HIDE DEF p, q
<1>2. SUFFICES ASSUME q + 1 <= p PROVE FALSE  BY <1>1 DEF p, q
<1>3. (q + 1) * t <= p * t  BY <1>1, <1>2, ProductGrows
<1>4. (q + 1) * t = t * q + t /\ p * t = t * p  BY <1>1
<1>5. t * q \in Nat /\ t * p \in Nat  BY <1>1
<1> QED  BY <1>1, <1>3, <1>4, <1>5

\* What shares are guaranteed to redeem grows with the shares.
LEMMA GuaranteeGrows ==
    ASSUME NEW a \in Nat, NEW b \in Nat, a <= b, NEW total \in Nat \ {0}, NEW reserve \in Nat
    PROVE  LET redeems(s) == applySlippage(proportionalShare(s, total, reserve), LpSlipBps) IN
           redeems(a) \in Nat /\ redeems(b) \in Nat /\ redeems(a) <= redeems(b)
<1> DEFINE p == (a * reserve) \div total
           q == (b * reserve) \div total
<1>1. a * reserve <= b * reserve /\ a * reserve \in Nat /\ b * reserve \in Nat  BY ProductGrows
<1>2. p \in Nat /\ q \in Nat /\ p <= q  BY <1>1, QuotientBounds, QuotientGrows
<1> HIDE DEF p, q
<1>3. PICK c \in Nat : c = 10000 - LpSlipBps  BY LpRates
<1>4. p * c <= q * c /\ p * c \in Nat /\ q * c \in Nat  BY <1>2, ProductGrows
<1>5. /\ (p * c) \div 10000 \in Nat /\ (q * c) \div 10000 \in Nat
      /\ (p * c) \div 10000 <= (q * c) \div 10000
  BY <1>4, QuotientBounds, QuotientGrows
<1> QED  BY <1>3, <1>5 DEF applySlippage, proportionalShare, p, q

\* The commission on a gain no greater than the payout, and the merchant's fee on the payout,
\* fit into the payout: the two rates are shares of one whole.
LEMMA ChargesFit ==
    ASSUME NEW gain \in Nat, NEW min \in Nat, gain <= min
    PROVE  computeFee(gain, LpFeeBps) + computeFee(min, LpMerchantBps) <= min
<1>1. PICK f \in Nat, m \in Nat : f = LpFeeBps /\ m = LpMerchantBps /\ f + m <= 10000  BY LpRates
<1>2. gain * f <= min * f /\ gain * f \in Nat /\ min * f \in Nat /\ min * m \in Nat
  BY ProductGrows
<1>3. min * f + min * m <= 10000 * min
  <2>1. (f + m) * min <= 10000 * min  BY <1>1, ProductGrows
  <2>2. (f + m) * min = min * f + min * m  OBVIOUS
  <2> QED  BY <2>1, <2>2
<1> DEFINE p == (gain * f) \div 10000
           q == (min * m) \div 10000
<1>4. p \in Nat /\ q \in Nat /\ 10000 * p <= gain * f /\ 10000 * q <= min * m
  BY <1>2, QuotientBounds
<1> HIDE DEF p, q
<1>5. 10000 * (p + q) <= 10000 * min  BY <1>2, <1>3, <1>4
<1>6. p + q <= min  BY <1>4, <1>5
<1> QED  BY <1>1, <1>6 DEF computeFee, p, q

\* "the withdraw itself funds the fee payments": whatever the account's history, a withdrawal
\* that settles is charged no more than it is guaranteed to pay (computeWithdrawCommission,
\* computeFee, applySlippage, with their rounding).
LEMMA WithdrawFundsFees ==
    ASSUME LpTotal \in Nat \ {0}, lpReserve \in Nat,
           aggregateCostBasis.deposited \in Nat, aggregateCostBasis.remaining \in Nat,
           aggregateCostBasis.cost \in Nat,
           NEW shares \in Nat, SettleWithdraw(shares)
    PROVE  FeesFundedByPayout'
<1> DEFINE redeems(s) == applySlippage(proportionalShare(s, LpTotal, lpReserve), LpSlipBps)
           charge == computeWithdrawCommission(shares)
<1>1. PICK covered \in Nat : /\ covered <= shares
                             /\ covered = IF shares < aggregateCostBasis.remaining THEN shares
                                          ELSE aggregateCostBasis.remaining
  OBVIOUS
<1>2. redeems(covered) \in Nat /\ redeems(shares) \in Nat /\ redeems(covered) <= redeems(shares)
  BY <1>1, GuaranteeGrows
<1>3. PICK gain \in Nat : gain <= redeems(shares) /\ (charge.fee = 0 \/ charge.fee = computeFee(gain, LpFeeBps))
  <2> DEFINE cost == (aggregateCostBasis.cost * covered) \div aggregateCostBasis.deposited
  <2>1. CASE aggregateCostBasis.deposited = 0
    BY <1>2, <2>1 DEF computeWithdrawCommission
  <2>2. CASE aggregateCostBasis.deposited # 0
    <3>1. cost \in Nat
      <4>1. aggregateCostBasis.cost * covered \in Nat  OBVIOUS
      <4> QED  BY <2>2, <4>1, QuotientBounds
    <3>2. \/ charge.fee = 0
          \/ charge.fee = computeFee(IF redeems(covered) > cost THEN redeems(covered) - cost ELSE 0, LpFeeBps)
      BY <1>1 DEF computeWithdrawCommission, Redeemed
    <3>3. PICK g \in Nat : /\ g = IF redeems(covered) > cost THEN redeems(covered) - cost ELSE 0
                           /\ g <= redeems(shares)
      <4> HIDE DEF cost, redeems
      <4> QED  BY <1>2, <3>1
    <3> QED  BY <3>2, <3>3
  <2> QED  BY <2>1, <2>2
<1>4. lpLast'.fee = charge.fee /\ lpLast'.merchant = computeFee(redeems(shares), LpMerchantBps)
      /\ lpLast'.min = redeems(shares)
  BY DEF SettleWithdraw
<1>5. computeFee(gain, LpFeeBps) + computeFee(redeems(shares), LpMerchantBps) <= redeems(shares)
  BY <1>2, <1>3, ChargesFit
<1>6. 0 + computeFee(redeems(shares), LpMerchantBps) <= redeems(shares)
  <2>1. computeFee(0, LpFeeBps) = 0  BY LpRates DEF computeFee
  <2>2. computeFee(0, LpFeeBps) + computeFee(redeems(shares), LpMerchantBps) <= redeems(shares)
    BY <1>2, ChargesFit
  <2> QED  BY <2>1, <2>2
<1> HIDE DEF redeems, charge
<1> QED  BY <1>3, <1>4, <1>5, <1>6 DEF FeesFundedByPayout

-----------------------------------------------------------------------------
(***************************************************************************)
(* The commission.  aggregateCostBasis runs over the rows of an account    *)
(* and adds up; the sums are reasoned about by induction along the rows.   *)
(***************************************************************************)

\* Induction up to m, for a set.
LEMMA Climb ==
    ASSUME NEW S, NEW m \in Nat, 0 \in S, \A k \in 1..m : k - 1 \in S => k \in S
    PROVE  0..m \subseteq S
<1> DEFINE R == OpToRel(<, Nat)
           T == (0..m) \ S
<1> SUFFICES ASSUME T # {} PROVE FALSE  OBVIOUS
<1>1. T \subseteq Nat  OBVIOUS
<1>2. PICK k \in T : \A j \in T : ~(<<j, k>> \in R)
  <2>1. IsWellFoundedOn(R, Nat)  BY NatLessThanWellFounded
  <2> QED  BY <1>1, <2>1, WFMin
<1>3. k \in 1..m /\ k - 1 \in 0..m /\ k - 1 < k  OBVIOUS
<1>4. k - 1 \notin T  BY <1>1, <1>2, <1>3 DEF OpToRel
<1> QED  BY <1>3, <1>4

\* t holds the sums of the first amounts of f, up to n of them.
Sums(t, f, n) == t \in [0..n -> Nat] /\ t[0] = 0 /\ \A k \in 1..n : t[k] = t[k - 1] + f[k]

\* Total is such a sum: the recursive function exists, and is the only one.
LEMMA TotalIs ==
    ASSUME NEW f, NEW n \in Nat, \A k \in 1..n : f[k] \in Nat
    PROVE  \E t : Sums(t, f, n) /\ Total(f, n) = t[n]
<1> DEFINE S == {k \in 0..n : \E t : Sums(t, f, k)}
<1>1. 0 \in S
  <2>1. Sums([k \in 0..0 |-> 0], f, 0)  BY DEF Sums
  <2> QED  BY <2>1
<1>2. ASSUME NEW k \in 1..n, k - 1 \in S PROVE k \in S
  <2>1. PICK t : Sums(t, f, k - 1)  BY <1>2
  <2> DEFINE u == [j \in 0..k |-> IF j = k THEN t[k - 1] + f[k] ELSE t[j]]
  <2>2. t[k - 1] \in Nat /\ f[k] \in Nat  BY <2>1 DEF Sums
  <2>3. u \in [0..k -> Nat]  BY <2>1, <2>2 DEF Sums
  <2>4. u[0] = 0  BY <2>1 DEF Sums
  <2>5. ASSUME NEW j \in 1..k PROVE u[j] = u[j - 1] + f[j]
    <3>1. CASE j = k  BY <3>1
    <3>2. CASE j # k
      <4>1. j \in 1..(k - 1) /\ j \in 0..k /\ j - 1 \in 0..k /\ j - 1 # k  BY <3>2
      <4>2. t[j] = t[j - 1] + f[j]  BY <2>1, <4>1 DEF Sums
      <4> QED  BY <3>2, <4>1, <4>2
    <3> QED  BY <3>1, <3>2
  <2> HIDE DEF u
  <2>6. Sums(u, f, k)  BY <2>3, <2>4, <2>5 DEF Sums
  <2>7. k \in 0..n  OBVIOUS
  <2> QED  BY <2>6, <2>7
<1>3. n \in S
  <2>1. 0..n \subseteq S  BY <1>1, <1>2, Climb
  <2> QED  BY <2>1
<1>4. PICK t : Sums(t, f, n)  BY <1>3
<1> DEFINE c == CHOOSE c : c = [k \in 0..n |-> IF k = 0 THEN 0 ELSE c[k - 1] + f[k]]
<1>5. Total(f, n) = c[n]  BY DEF Total
<1>6. t = [k \in 0..n |-> IF k = 0 THEN 0 ELSE t[k - 1] + f[k]]
  BY <1>4 DEF Sums
<1>7. c = [k \in 0..n |-> IF k = 0 THEN 0 ELSE c[k - 1] + f[k]]
  BY <1>6, Zenon
<1> HIDE DEF c
<1> DEFINE U == {k \in 0..n : c[k] = t[k]}
<1>8. 0 \in U  BY <1>4, <1>7 DEF Sums
<1>9. ASSUME NEW k \in 1..n, k - 1 \in U PROVE k \in U
  BY <1>4, <1>7, <1>9 DEF Sums
<1>10. n \in U
  <2>1. 0..n \subseteq U  BY <1>8, <1>9, Climb
  <2> QED  BY <2>1
<1> QED  BY <1>4, <1>5, <1>10

\* A sum of numbers is a number, ...
LEMMA TotalNatural ==
    ASSUME NEW f, NEW n \in Nat, \A k \in 1..n : f[k] \in Nat
    PROVE  Total(f, n) \in Nat
BY TotalIs DEF Sums

\* ... grows with what is summed, ...
LEMMA TotalGrows ==
    ASSUME NEW f, NEW g, NEW n \in Nat,
           \A k \in 1..n : f[k] \in Nat /\ g[k] \in Nat /\ f[k] <= g[k]
    PROVE  Total(f, n) <= Total(g, n)
<1>1. PICK t : Sums(t, f, n) /\ Total(f, n) = t[n]  BY TotalIs
<1>2. PICK u : Sums(u, g, n) /\ Total(g, n) = u[n]  BY TotalIs
<1> DEFINE S == {k \in 0..n : t[k] <= u[k]}
<1>3. 0 \in S  BY <1>1, <1>2 DEF Sums
<1>4. ASSUME NEW k \in 1..n, k - 1 \in S PROVE k \in S
  <2>1. t[k - 1] \in Nat /\ u[k - 1] \in Nat /\ t[k - 1] <= u[k - 1]  BY <1>1, <1>2, <1>4 DEF Sums
  <2>2. t[k] = t[k - 1] + f[k] /\ u[k] = u[k - 1] + g[k]  BY <1>1, <1>2 DEF Sums
  <2> QED  BY <2>1, <2>2
<1>5. 0..n \subseteq S  BY <1>3, <1>4, Climb
<1> QED  BY <1>1, <1>2, <1>5

\* ... and with one more amount by that amount.
LEMMA TotalNext ==
    ASSUME NEW f, NEW g, NEW n \in Nat,
           \A k \in 1..n : f[k] \in Nat /\ g[k] = f[k], g[n + 1] \in Nat
    PROVE  Total(g, n + 1) = Total(f, n) + g[n + 1]
<1>1. PICK t : Sums(t, f, n) /\ Total(f, n) = t[n]  BY TotalIs
<1>2. \A k \in 1..(n + 1) : g[k] \in Nat  OBVIOUS
<1>3. PICK u : Sums(u, g, n + 1) /\ Total(g, n + 1) = u[n + 1]  BY <1>2, TotalIs
<1> DEFINE S == {k \in 0..n : t[k] = u[k]}
<1>4. 0 \in S  BY <1>1, <1>3 DEF Sums
<1>5. ASSUME NEW k \in 1..n, k - 1 \in S PROVE k \in S
  BY <1>1, <1>3, <1>5 DEF Sums
<1>6. 0..n \subseteq S  BY <1>4, <1>5, Climb
<1> QED  BY <1>1, <1>3, <1>6 DEF Sums

LpRow == [kind : {"DEPOSIT", "WITHDRAW"}, shares : Nat, cost : Nat, captured : BOOLEAN]

\* The inductive invariant: what was taxed was withdrawn, so the shares that remain in the
\* basis were not.
CommissionInv ==
    /\ lpOps \in Seq(LpRow) /\ lpReserve \in Nat /\ lpTaxed \in Nat
    /\ SharesOf("WITHDRAW") <= SharesOf("DEPOSIT")
    /\ lpTaxed <= SharesOf("WITHDRAW")
    /\ lpTaxed <= SharesRecorded
    /\ FeesFundedByPayout

\* The amounts the sums are made of.
LEMMA Amounts ==
    ASSUME lpOps \in Seq(LpRow)
    PROVE  /\ Len(lpOps) \in Nat /\ DOMAIN lpOps = 1..Len(lpOps)
           /\ \A rows : \A k \in 1..Len(lpOps) :
                /\ SharesIn(rows)[k] = IF k \in rows THEN lpOps[k].shares ELSE 0
                /\ CostIn(rows)[k] = IF k \in rows THEN lpOps[k].cost ELSE 0
                /\ SharesIn(rows)[k] \in Nat /\ CostIn(rows)[k] \in Nat
           /\ \A k \in 1..Len(lpOps) : lpOps[k] \in LpRow
<1>1. Len(lpOps) \in Nat /\ DOMAIN lpOps = 1..Len(lpOps)  OBVIOUS
<1>2. \A k \in 1..Len(lpOps) : lpOps[k] \in LpRow  OBVIOUS
<1> QED  BY <1>1, <1>2 DEF SharesIn, CostIn, LpRow

\* So the sums are numbers.
LEMMA SumsNatural ==
    ASSUME lpOps \in Seq(LpRow)
    PROVE  /\ \A kind : SharesOf(kind) \in Nat
           /\ SharesRecorded \in Nat /\ Total(CostIn(CapturedDeposits), Len(lpOps)) \in Nat
<1>1. ASSUME NEW kind PROVE SharesOf(kind) \in Nat  BY Amounts, TotalNatural DEF SharesOf
<1>2. SharesRecorded \in Nat  BY Amounts, TotalNatural DEF SharesRecorded
<1>3. Total(CostIn(CapturedDeposits), Len(lpOps)) \in Nat  BY Amounts, TotalNatural
<1> QED  BY <1>1, <1>2, <1>3

\* A row that settles adds its shares to the sums it belongs to.
LEMMA RowAdds ==
    ASSUME lpOps \in Seq(LpRow), NEW r \in LpRow, lpOps' = Append(lpOps, r)
    PROVE  /\ lpOps' \in Seq(LpRow)
           /\ \A kind : SharesOf(kind)' = SharesOf(kind) + IF r.kind = kind THEN r.shares ELSE 0
           /\ SharesRecorded' = SharesRecorded + IF r.kind = "DEPOSIT" /\ r.captured THEN r.shares ELSE 0
<1>1. PICK n \in Nat : n = Len(lpOps)  OBVIOUS
<1>2. /\ lpOps' \in Seq(LpRow) /\ Len(lpOps') = n + 1 /\ lpOps'[n + 1] = r
      /\ \A k \in 1..n : lpOps'[k] = lpOps[k]
  BY <1>1, AppendProperties
<1>3. DOMAIN lpOps = 1..n /\ DOMAIN lpOps' = 1..(n + 1)  BY <1>1, <1>2
<1>4. \A k \in 1..n : k \in 1..(n + 1)  OBVIOUS
<1>5. n + 1 \in 1..(n + 1)  OBVIOUS
<1>6. r.shares \in Nat  BY DEF LpRow
<1>7. ASSUME NEW kind PROVE SharesOf(kind)' = SharesOf(kind) + IF r.kind = kind THEN r.shares ELSE 0
  <2> DEFINE f == SharesIn(RowsOf(kind))
             g == SharesIn(RowsOf(kind))'
  <2>1. \A k \in 1..n : f[k] \in Nat /\ f[k] = IF lpOps[k].kind = kind THEN lpOps[k].shares ELSE 0
    BY <1>1, <1>3, Amounts DEF RowsOf
  <2>2. \A k \in 1..(n + 1) : g[k] = IF lpOps'[k].kind = kind THEN lpOps'[k].shares ELSE 0
    BY <1>3 DEF SharesIn, RowsOf
  <2>3. \A k \in 1..n : g[k] = f[k]  BY <1>2, <1>4, <2>1, <2>2
  <2>4. g[n + 1] = (IF r.kind = kind THEN r.shares ELSE 0) /\ g[n + 1] \in Nat  BY <1>2, <1>5, <1>6, <2>2
  <2>5. SharesOf(kind) = Total(f, n) /\ SharesOf(kind)' = Total(g, n + 1)  BY <1>1, <1>2 DEF SharesOf
  <2> HIDE DEF f, g
  <2> QED  BY <2>1, <2>3, <2>4, <2>5, TotalNext
<1>8. SharesRecorded' = SharesRecorded + IF r.kind = "DEPOSIT" /\ r.captured THEN r.shares ELSE 0
  <2> DEFINE f == SharesIn(CapturedDeposits)
             g == SharesIn(CapturedDeposits)'
  <2>1. \A k \in 1..n :
          f[k] \in Nat /\ f[k] = IF lpOps[k].kind = "DEPOSIT" /\ lpOps[k].captured THEN lpOps[k].shares ELSE 0
    BY <1>1, <1>3, Amounts DEF RowsOf, CapturedDeposits
  <2>2. \A k \in 1..(n + 1) :
          g[k] = IF lpOps'[k].kind = "DEPOSIT" /\ lpOps'[k].captured THEN lpOps'[k].shares ELSE 0
    BY <1>3 DEF SharesIn, RowsOf, CapturedDeposits
  <2>3. \A k \in 1..n : g[k] = f[k]  BY <1>2, <1>4, <2>1, <2>2
  <2>4. /\ g[n + 1] = (IF r.kind = "DEPOSIT" /\ r.captured THEN r.shares ELSE 0)
        /\ g[n + 1] \in Nat
    BY <1>2, <1>5, <1>6, <2>2
  <2>5. SharesRecorded = Total(f, n) /\ SharesRecorded' = Total(g, n + 1)  BY <1>1, <1>2 DEF SharesRecorded
  <2> HIDE DEF f, g
  <2> QED  BY <2>1, <2>3, <2>4, <2>5, TotalNext
<1> QED  BY <1>2, <1>7, <1>8

\* A late capture takes nothing from the sums.
LEMMA CaptureAdds ==
    ASSUME lpOps \in Seq(LpRow), NEW i \in DOMAIN lpOps, CaptureBasis(i)
    PROVE  /\ lpOps' \in Seq(LpRow)
           /\ \A kind : SharesOf(kind)' = SharesOf(kind)
           /\ SharesRecorded <= SharesRecorded'
<1>1. PICK n \in Nat : n = Len(lpOps)  OBVIOUS
<1>2. i \in 1..n /\ \A k \in 1..n : lpOps[k] \in LpRow  BY <1>1
<1> DEFINE r == [lpOps[i] EXCEPT !.captured = TRUE]
<1>r. r \in LpRow /\ r.kind = lpOps[i].kind /\ r.shares = lpOps[i].shares
  BY <1>2 DEF LpRow
<1>e. lpOps' = [lpOps EXCEPT ![i] = r]  BY DEF CaptureBasis
<1> HIDE DEF r
<1>3. /\ lpOps' \in Seq(LpRow) /\ Len(lpOps') = n
      /\ \A k \in 1..n : lpOps'[k] = IF k = i THEN r ELSE lpOps[k]
  BY <1>1, <1>2, <1>r, <1>e, ExceptSeq
<1>4. DOMAIN lpOps = 1..n /\ DOMAIN lpOps' = 1..n  BY <1>1, <1>3
<1>5. ASSUME NEW kind PROVE SharesOf(kind)' = SharesOf(kind)
  <2> DEFINE f == SharesIn(RowsOf(kind))
             g == SharesIn(RowsOf(kind))'
  <2>1. \A k \in 1..n : f[k] \in Nat /\ f[k] = IF lpOps[k].kind = kind THEN lpOps[k].shares ELSE 0
    BY <1>1, <1>4, Amounts DEF RowsOf
  <2>2. \A k \in 1..n : g[k] = IF lpOps'[k].kind = kind THEN lpOps'[k].shares ELSE 0
    BY <1>4 DEF SharesIn, RowsOf
  <2>3. \A k \in 1..n : g[k] = f[k]  BY <1>r, <1>3, <2>1, <2>2
  <2>4. SharesOf(kind) = Total(f, n) /\ SharesOf(kind)' = Total(g, n)  BY <1>1, <1>3 DEF SharesOf
  <2> HIDE DEF f, g
  <2>5. Total(f, n) <= Total(g, n) /\ Total(g, n) <= Total(f, n)  BY <2>1, <2>3, TotalGrows
  <2>6. Total(f, n) \in Nat /\ Total(g, n) \in Nat  BY <2>1, <2>3, TotalNatural
  <2> QED  BY <2>4, <2>5, <2>6
<1>6. SharesRecorded <= SharesRecorded'
  <2> DEFINE f == SharesIn(CapturedDeposits)
             g == SharesIn(CapturedDeposits)'
  <2>1. \A k \in 1..n :
          f[k] \in Nat /\ f[k] = IF lpOps[k].kind = "DEPOSIT" /\ lpOps[k].captured THEN lpOps[k].shares ELSE 0
    BY <1>1, <1>4, Amounts DEF RowsOf, CapturedDeposits
  <2>2. \A k \in 1..n :
          g[k] = IF lpOps'[k].kind = "DEPOSIT" /\ lpOps'[k].captured THEN lpOps'[k].shares ELSE 0
    BY <1>4 DEF SharesIn, RowsOf, CapturedDeposits
  <2>3. ASSUME NEW k \in 1..n PROVE g[k] \in Nat /\ f[k] <= g[k]
    <3>1. lpOps[k].shares \in Nat  BY <1>2 DEF LpRow
    <3>2. CASE k = i
      <4>0. ~lpOps[k].captured  BY <3>2 DEF CaptureBasis
      <4>1. f[k] = 0  BY <2>1, <4>0
      <4>2. g[k] \in Nat  BY <1>r, <1>3, <2>2, <3>1, <3>2
      <4> HIDE DEF f, g
      <4> QED  BY <4>1, <4>2
    <3>3. CASE k # i
      <4>1. g[k] = f[k]  BY <1>3, <2>1, <2>2, <3>3
      <4> HIDE DEF f, g
      <4> QED  BY <2>1, <4>1
    <3> QED  BY <3>2, <3>3
  <2>4. SharesRecorded = Total(f, n) /\ SharesRecorded' = Total(g, n)  BY <1>1, <1>3 DEF SharesRecorded
  <2> HIDE DEF f, g
  <2> QED  BY <2>1, <2>3, <2>4, TotalGrows
<1> QED  BY <1>3, <1>5, <1>6

\* A share of the reserve is no more than the reserve.
LEMMA ShareFits ==
    ASSUME NEW shares \in Nat, NEW total \in Nat \ {0}, shares <= total, NEW reserve \in Nat
    PROVE  proportionalShare(shares, total, reserve) \in 0..reserve
<1> DEFINE q == (shares * reserve) \div total
<1>1. shares * reserve <= total * reserve /\ shares * reserve \in Nat /\ total * reserve \in Nat
  BY ProductGrows
<1>2. q \in Nat /\ total * q <= shares * reserve  BY <1>1, QuotientBounds
<1> HIDE DEF q
<1>3. total * q <= total * reserve /\ total * q \in Nat  BY <1>1, <1>2
<1>4. q <= reserve
  <2> SUFFICES ASSUME reserve + 1 <= q PROVE FALSE  BY <1>2
  <2>1. (reserve + 1) * total <= q * total  BY <1>2, ProductGrows
  <2>2. (reserve + 1) * total = total * reserve + total /\ q * total = total * q  BY <1>2
  <2> QED  BY <1>1, <1>3, <2>1, <2>2
<1> QED  BY <1>2, <1>4 DEF proportionalShare, q

\* What a withdrawal is taxed for: no more shares than it burns or than remain.
LEMMA CoveredFits ==
    ASSUME NEW shares \in Nat, aggregateCostBasis.remaining \in Nat
    PROVE  LET covered == computeWithdrawCommission(shares).covered IN
           /\ covered \in Nat /\ covered <= shares /\ covered <= aggregateCostBasis.remaining
<1> DEFINE basisLeft == aggregateCostBasis.remaining
           least == IF shares < basisLeft THEN shares ELSE basisLeft
<1>1. computeWithdrawCommission(shares).covered \in {0, least}
  BY DEF computeWithdrawCommission
<1>2. least \in Nat /\ least <= shares /\ least <= basisLeft  OBVIOUS
<1> HIDE DEF basisLeft, least
<1>3. 0 <= shares /\ 0 <= basisLeft  BY DEF basisLeft
<1> QED  BY <1>1, <1>2, <1>3 DEF basisLeft

\* A position starts with nothing deposited and nothing taxed.
LEMMA CommissionStart == LpCommissionInit => CommissionInv
<1> SUFFICES ASSUME LpCommissionInit PROVE CommissionInv  OBVIOUS
<1>1. lpOps \in Seq(LpRow) /\ Len(lpOps) = 0  BY DEF LpCommissionInit
<1>2. lpReserve \in Nat
  <2> DEFINE R == OpToRel(<, Nat)
  <2>1. IsWellFoundedOn(R, Nat)  BY NatLessThanWellFounded
  <2>2. LpReserves \subseteq Nat /\ LpReserves # {}  BY LpRates
  <2>3. PICK m \in LpReserves : \A k \in LpReserves : ~(<<k, m>> \in R)  BY <2>1, <2>2, WFMin
  <2>4. \A k \in LpReserves : m <= k
    <3>1. \A k \in LpReserves : ~(k < m)  BY <2>2, <2>3 DEF OpToRel
    <3> QED  BY <2>2, <3>1
  <2>5. Min(LpReserves) \in LpReserves  BY <2>4, Zenon DEF Min
  <2>6. lpReserve = Min(LpReserves)  BY DEF LpCommissionInit
  <2> QED  BY <2>2, <2>5, <2>6
<1>3. \A f : Total(f, 0) = 0
  <2> SUFFICES ASSUME NEW f PROVE Total(f, 0) = 0  OBVIOUS
  <2>1. PICK t : Sums(t, f, 0) /\ Total(f, 0) = t[0]  BY TotalIs
  <2> QED  BY <2>1 DEF Sums
<1>4. SharesOf("WITHDRAW") = 0 /\ SharesOf("DEPOSIT") = 0 /\ SharesRecorded = 0
  BY <1>1, <1>3 DEF SharesOf, SharesRecorded
<1> QED  BY <1>1, <1>2, <1>4 DEF CommissionInv, LpCommissionInit, FeesFundedByPayout, NoPayout

\* What each settlement does to the sums and to what was taxed.
LEMMA CommissionStep ==
    ASSUME CommissionInv, [LpCommissionNext]_lpVars
    PROVE  CommissionInv'
<1> DEFINE W == SharesOf("WITHDRAW")
           D == SharesOf("DEPOSIT")
<1>1. /\ W \in Nat /\ D \in Nat /\ SharesRecorded \in Nat
      /\ Total(CostIn(CapturedDeposits), Len(lpOps)) \in Nat
  BY SumsNatural DEF CommissionInv
<1>2. LpHeld \in Nat /\ LpHeld = D - W /\ LpTotal \in Nat \ {0} /\ LpTotal = OtherShares + LpHeld
  <2>1. W <= D  BY DEF CommissionInv
  <2>2. LpHeld = D - W /\ LpTotal = OtherShares + LpHeld  BY DEF LpHeld, LpTotal
  <2> HIDE DEF W, D
  <2> QED  BY <1>1, <2>1, <2>2, LpRates
<1>3. /\ aggregateCostBasis.deposited \in Nat /\ aggregateCostBasis.cost \in Nat
      /\ aggregateCostBasis.remaining \in Nat
      /\ aggregateCostBasis.remaining = IF SharesRecorded > W THEN SharesRecorded - W ELSE 0
  BY <1>1 DEF aggregateCostBasis, RemainingShares
<1>4. ASSUME NEW s \in LpShareSizes, NEW captured \in BOOLEAN, SettleDeposit(s, captured)
      PROVE  CommissionInv'
  <2>1. s \in Nat  BY LpRates
  <2>2. DepositCost(s) \in Nat
    <3>1. PICK a \in Nat : a = s * lpReserve + LpTotal - 1
      <4>1. s * lpReserve \in Nat  BY <2>1 DEF CommissionInv
      <4> QED  BY <1>2, <4>1
    <3> QED  BY <1>2, <3>1, QuotientBounds DEF DepositCost
  <2> DEFINE r == [kind |-> "DEPOSIT", shares |-> s, cost |-> DepositCost(s), captured |-> captured]
  <2>3. r \in LpRow /\ r.kind = "DEPOSIT" /\ r.shares = s  BY <2>1, <2>2 DEF LpRow
  <2>4. lpOps' = Append(lpOps, r)  BY <1>4 DEF SettleDeposit
  <2> HIDE DEF r
  <2>5. lpOps' \in Seq(LpRow) /\ W' = W /\ D' = D + s
    <3>1. W' = W + 0  BY <2>3, <2>4, RowAdds DEF CommissionInv
    <3> QED  BY <1>1, <2>3, <2>4, <3>1, RowAdds DEF CommissionInv
  <2>6. SharesRecorded <= SharesRecorded' /\ SharesRecorded' \in Nat
    <3>1. SharesRecorded' \in {SharesRecorded + 0, SharesRecorded + s}
      BY <2>3, <2>4, RowAdds DEF CommissionInv
    <3> QED  BY <1>1, <2>1, <3>1
  <2>7. lpReserve' \in Nat  BY <1>4, <2>2 DEF SettleDeposit, CommissionInv
  <2>8. UNCHANGED <<lpTaxed, lpLast>>  BY <1>4 DEF SettleDeposit
  <2>9. FeesFundedByPayout'  BY <2>8 DEF FeesFundedByPayout, CommissionInv
  <2>10. lpTaxed' \in Nat /\ lpTaxed' <= W' /\ lpTaxed' <= SharesRecorded' /\ W' <= D'
    <3>1. lpTaxed \in Nat /\ lpTaxed <= W /\ lpTaxed <= SharesRecorded /\ W <= D  BY DEF CommissionInv
    <3> HIDE DEF W, D
    <3> QED  BY <1>1, <2>1, <2>5, <2>6, <2>8, <3>1
  <2> QED  BY <2>5, <2>7, <2>9, <2>10 DEF CommissionInv
<1>5. ASSUME NEW i \in DOMAIN lpOps, CaptureBasis(i)
      PROVE  CommissionInv'
  <2>1. lpOps' \in Seq(LpRow) /\ W' = W /\ D' = D /\ SharesRecorded <= SharesRecorded'
    BY <1>5, CaptureAdds DEF CommissionInv
  <2>2. SharesRecorded' \in Nat
    <3>1. (lpOps \in Seq(LpRow) => SharesRecorded \in Nat)'  BY SumsNatural, PTL
    <3> QED  BY <2>1, <3>1
  <2>3. UNCHANGED <<lpReserve, lpTaxed, lpLast>>  BY <1>5 DEF CaptureBasis
  <2>4. FeesFundedByPayout'  BY <2>3 DEF FeesFundedByPayout, CommissionInv
  <2>5. lpTaxed' \in Nat /\ lpTaxed' <= W' /\ lpTaxed' <= SharesRecorded' /\ W' <= D'
    <3>1. lpTaxed \in Nat /\ lpTaxed <= W /\ lpTaxed <= SharesRecorded /\ W <= D  BY DEF CommissionInv
    <3> HIDE DEF W, D
    <3> QED  BY <1>1, <2>1, <2>2, <2>3, <3>1
  <2> QED  BY <2>1, <2>3, <2>4, <2>5 DEF CommissionInv
<1>6. ASSUME NEW s \in LpShareSizes, SettleWithdraw(s)
      PROVE  CommissionInv'
  <2>1. s \in Nat /\ lpReserve \in Nat  BY LpRates DEF CommissionInv
  <2>2. s <= LpHeld  BY <1>6 DEF SettleWithdraw
  <2> DEFINE r == [kind |-> "WITHDRAW", shares |-> s, cost |-> 0, captured |-> FALSE]
             covered == computeWithdrawCommission(s).covered
  <2>3. r \in LpRow /\ r.kind = "WITHDRAW" /\ r.shares = s  BY <2>1 DEF LpRow
  <2>4. lpOps' = Append(lpOps, r) /\ lpTaxed' = lpTaxed + covered  BY <1>6 DEF SettleWithdraw
  <2>5. covered \in Nat /\ covered <= s /\ covered <= aggregateCostBasis.remaining
    BY <1>3, <2>1, CoveredFits
  <2> HIDE DEF r, covered
  <2>6. lpOps' \in Seq(LpRow) /\ W' = W + s /\ D' = D /\ SharesRecorded' = SharesRecorded
    <3>1. D' = D + 0 /\ SharesRecorded' = SharesRecorded + 0  BY <2>3, <2>4, RowAdds DEF CommissionInv
    <3> QED  BY <1>1, <2>3, <2>4, <3>1, RowAdds DEF CommissionInv
  <2>7. lpReserve' \in Nat
    <3>1. PICK p \in 0..lpReserve : p = proportionalShare(s, LpTotal, lpReserve)
      <4>1. s <= LpTotal  BY <1>2, <2>1, <2>2, LpRates
      <4>2. proportionalShare(s, LpTotal, lpReserve) \in 0..lpReserve  BY <1>2, <2>1, <4>1, ShareFits
      <4> QED  BY <4>2
    <3>2. lpReserve' = lpReserve - p  BY <1>6, <3>1 DEF SettleWithdraw
    <3> QED  BY <2>1, <3>1, <3>2
  <2>8. FeesFundedByPayout'  BY <1>2, <1>3, <1>6, <2>1, WithdrawFundsFees
  <2>9. lpTaxed' \in Nat /\ lpTaxed' <= W' /\ lpTaxed' <= SharesRecorded' /\ W' <= D'
    <3>1. lpTaxed \in Nat /\ lpTaxed <= W /\ lpTaxed <= SharesRecorded /\ W <= D  BY DEF CommissionInv
    <3> HIDE DEF W, D
    <3>2. PICK left \in Nat : left = aggregateCostBasis.remaining
                              /\ left = IF SharesRecorded > W THEN SharesRecorded - W ELSE 0
      BY <1>3
    <3> QED  BY <1>1, <1>2, <2>1, <2>2, <2>4, <2>5, <2>6, <3>1, <3>2
  <2> QED  BY <2>6, <2>7, <2>8, <2>9 DEF CommissionInv
<1>7. ASSUME UNCHANGED <<lpOps, lpTaxed, lpLast>>, lpReserve' \in Nat
      PROVE  CommissionInv'
  <2>1. W' = W /\ D' = D /\ SharesRecorded' = SharesRecorded
    BY <1>7 DEF SharesOf, SharesRecorded, SharesIn, RowsOf, CapturedDeposits
  <2> QED  BY <1>7, <2>1 DEF CommissionInv, FeesFundedByPayout
<1>8. ASSUME NEW x \in LpReserves, ReserveMoves(x) PROVE CommissionInv'
  BY <1>7, <1>8, LpRates DEF ReserveMoves
<1>9. CASE UNCHANGED lpVars  BY <1>7, <1>9 DEF lpVars, CommissionInv
<1> QED  BY <1>4, <1>5, <1>6, <1>8, <1>9 DEF LpCommissionNext

\* A withdrawal is charged no more than it pays out, and over the whole life of a position no
\* share is taxed twice and none without a recorded cost (aggregateCostBasis,
\* computeWithdrawCommission, captureDepositBasis late or never), for every history.
THEOREM ChargedOnceAndFunded ==
    LpCommissionInit /\ [][LpCommissionNext]_lpVars => []CommissionBounded
<1>1. CommissionInv => CommissionBounded
  BY DEF CommissionInv, CommissionBounded, OnlyRecordedSharesTaxed
<1> QED  BY <1>1, CommissionStart, CommissionStep, PTL

-----------------------------------------------------------------------------
(* All three on one server.                                                  *)

\* The life of a pool operation on one server: built once, settled as the ledger says, never
\* resubmitted past its cap, expired only if it never landed, and charged within its payout and once.
THEOREM LiquidityHolds ==
    LiquiditySpec => [](/\ SettledOnLedger /\ ResubmitsCapped /\ ExpiredNeverLanded
                        /\ KeyBuildsOnce /\ GainTaxedOnce /\ CommissionBounded)
<1>1. LiquidityInit => Init /\ LiquidityBuildsInit /\ LpCommissionInit  BY DEF LiquidityInit
<1>2. [LiquidityNext]_liquidityVars => [Next]_vars /\ [LiquidityBuildsNext]_lbVars /\ [LpCommissionNext]_lpVars
  <2> SUFFICES ASSUME [LiquidityNext]_liquidityVars
               PROVE  [Next]_vars /\ [LiquidityBuildsNext]_lbVars /\ [LpCommissionNext]_lpVars
    OBVIOUS
  <2>1. CASE UNCHANGED liquidityVars  BY <2>1 DEF liquidityVars
  <2>2. CASE LiquidityNext  BY <2>2 DEF LiquidityNext
  <2> QED  BY <2>1, <2>2
<1>3. Init => Inv  BY InitInv
<1>4. Inv /\ [Next]_vars => Inv'  BY NextInv
<1>5. Inv => SettledOnLedger /\ ResubmitsCapped /\ ExpiredNeverLanded
  BY DEF Inv, RowSafe, SettledOnLedger, ResubmitsCapped, ExpiredNeverLanded, NeverLanded
<1> QED  BY <1>1, <1>2, <1>3, <1>4, <1>5, BuiltAndTaxedOnce, ChargedOnceAndFunded, PTL DEF LiquiditySpec
=============================================================================
