------------------------ MODULE IntentsPromiseProofs ------------------------
(***************************************************************************)
(* PaymentIntents implements PaymentPromise, and what the observer expired *)
(* was not paid: proved for every number of intents, transactions,         *)
(* consumers and tasks from the safety invariant of PaymentIntentsProofs.  *)
(***************************************************************************)
EXTENDS IntentsRefinement, PaymentIntentsProofs, WellFoundedInduction

\* The intents announced as settled: the refinement's `told`.
Told == {i \in Ids : "SUCCEEDED" \in notified[i]}

\* A step that touches neither statuses, claims nor notifications is invisible.
LEMMA PromiseStutters ==
    ASSUME UNCHANGED <<status, claim, notified>>
    PROVE  UNCHANGED Promise!promiseVars
BY DEF Promise!promiseVars

\* Writing one status changes one fate.
LEMMA FateOfWrite ==
    ASSUME TypeOK, NEW i \in Ids, NEW s, status' = [status EXCEPT ![i] = s]
    PROVE  [k \in Ids |-> Fate(status'[k])] = [[k \in Ids |-> Fate(status[k])] EXCEPT ![i] = Fate(s)]
BY DEF TypeOK

\* What the statuses mean.
LEMMA FateFacts ==
    /\ Fate("ABSENT") = "none" /\ Fate("PENDING") = "open" /\ Fate("SUBMITTED") = "open"
    /\ Fate("SUCCEEDED") = "paid" /\ Fate("FAILED") = "given up"
    /\ Fate("CANCELLED") = "given up" /\ Fate("EXPIRED") = "lapsed"
    /\ Fate("DELETED") = "removed"
BY DEF Fate, OpenFor

\* createTx, createPay: an intent is asked for.
LEMMA CreateAsks ==
    ASSUME TypeOK, NEW c \in Consumers, NEW tm \in Terms, NEW born \in 0..MaxTxs,
           Create(c, tm, born)
    PROVE  Promise!PromiseNext
<1>1. PICK i \in Ids :
          /\ status[i] = "ABSENT" /\ status' = [status EXCEPT ![i] = "PENDING"]
          /\ UNCHANGED <<claim, notified>>
  BY DEF Create
<1>2. [k \in Ids |-> Fate(status'[k])] =
          [[k \in Ids |-> Fate(status[k])] EXCEPT ![i] = Fate("PENDING")]
  BY <1>1, FateOfWrite
<1>3. Promise!Ask(i)  BY <1>1, <1>2, FateFacts DEF Promise!Ask
<1> QED  BY <1>3 DEF Promise!PromiseNext

\* A commit of transition: the payment is used, the intent is given up, or -
\* a report of a hash - nothing the integrator counts on happens.
LEMMA CommitKeepsPromise ==
    ASSUME SafeInv, NEW w \in Workers, Commit(w)
    PROVE  Promise!PromiseNext \/ UNCHANGED Promise!promiseVars
<1> DEFINE i == task[w].id
           t == task[w].tx
           to == task[w].to
<1>1. GoodTask(task[w]) /\ SafeTask(task[w]) /\ i \in Ids
  <2>1. ~At(w, "idle")  BY DEF Commit, At
  <2> QED  BY <2>1, RunningType DEF SafeInv
<1>2. CanTransition(status[i], to)
  BY <1>1 DEF Commit, At, Unmoved, SafeTask
<1>3. /\ status[i] \in {"PENDING", "SUBMITTED", "EXPIRED"}
      /\ to \in Statuses \ {"PENDING"}
      /\ to = "SUBMITTED" => status[i] = "PENDING"
      /\ status[i] = "EXPIRED" => to = "SUCCEEDED"
  BY <1>2, GraphFacts
<1>4. status' = [status EXCEPT ![i] = to] /\ UNCHANGED notified
  BY DEF Commit
<1>5. [k \in Ids |-> Fate(status'[k])] = [[k \in Ids |-> Fate(status[k])] EXCEPT ![i] = Fate(to)]
  BY <1>1, <1>4, FateOfWrite DEF SafeInv
<1>6. CASE to = "SUCCEEDED"
  <2>1. t \in Txs /\ claim[t] = NoIntent /\ claim' = [claim EXCEPT ![t] = i]
    BY <1>1, <1>6 DEF Commit, At, Claimable, GoodTask, WellFormed
  <2>2. Promise!Pay(i, t)
    BY <1>1, <1>3, <1>4, <1>5, <1>6, <2>1, FateFacts DEF Promise!Pay
  <2> QED  BY <1>1, <2>1, <2>2 DEF Promise!PromiseNext
<1>7. CASE to \in {"FAILED", "CANCELLED", "EXPIRED"}
  <2>1. UNCHANGED claim  BY <1>7 DEF Commit
  <2>2. Fate(status[i]) = "open" /\ Fate(to) \in {"given up", "lapsed"}
    BY <1>3, <1>7, FateFacts
  <2>3. Promise!GiveUp(i)
    BY <1>1, <1>4, <1>5, <2>1, <2>2 DEF Promise!GiveUp
  <2> QED  BY <1>1, <2>3 DEF Promise!PromiseNext
<1>8. CASE to = "SUBMITTED"
  <2>1. UNCHANGED claim  BY <1>8 DEF Commit
  <2>2. Fate(status[i]) = Fate(to)  BY <1>3, <1>8, FateFacts
  <2>3. [k \in Ids |-> Fate(status'[k])] = [k \in Ids |-> Fate(status[k])]
    BY <1>1, <1>5, <2>2
  <2> QED  BY <1>4, <2>1, <2>3 DEF Promise!promiseVars
<1> QED  BY <1>3, <1>6, <1>7, <1>8 DEF Statuses

\* DELETE withdraws what is not settled; its compare-and-swap on the status may
\* find the row moved.
LEMMA DeleteWithdraws ==
    ASSUME SafeInv, NEW w \in Workers, Delete(w)
    PROVE  Promise!PromiseNext \/ UNCHANGED Promise!promiseVars
<1> DEFINE i == task[w].id
<1>1. SafeTask(task[w]) /\ i \in Ids
  <2>1. ~At(w, "idle")  BY DEF Delete, At
  <2> QED  BY <2>1, RunningType DEF SafeInv
<1>2. CASE Unmoved(w)
  <2>1. status[i] \in Statuses \ {"SUCCEEDED"}
    BY <1>1, <1>2 DEF SafeTask, Delete, At, Unmoved
  <2>2. status' = [status EXCEPT ![i] = "DELETED"] /\ UNCHANGED <<claim, notified>>
    BY <1>2 DEF Delete
  <2>3. Fate(status[i]) \in {"open", "given up", "lapsed"}
    BY <2>1, FateFacts DEF Statuses
  <2>4. [k \in Ids |-> Fate(status'[k])] =
            [[k \in Ids |-> Fate(status[k])] EXCEPT ![i] = Fate("DELETED")]
    BY <1>1, <2>2, FateOfWrite DEF SafeInv
  <2>5. Promise!Withdraw(i)
    BY <1>1, <2>2, <2>3, <2>4, FateFacts DEF Promise!Withdraw
  <2> QED  BY <1>1, <2>5 DEF Promise!PromiseNext
<1>3. CASE ~Unmoved(w)
  BY <1>3, PromiseStutters DEF Delete
<1> QED  BY <1>2, <1>3

\* The emitter announces success of a settled intent only; an announced failure
\* is no part of the promise.
LEMMA EmitTells ==
    ASSUME SafeInv, NEW w \in Workers, Emit(w)
    PROVE  Promise!PromiseNext \/ UNCHANGED Promise!promiseVars
<1> DEFINE i == task[w].id
           to == task[w].to
<1>1. GoodTask(task[w]) /\ SafeTask(task[w]) /\ i \in Ids
  <2>1. ~At(w, "idle")  BY DEF Emit, At
  <2> QED  BY <2>1, RunningType DEF SafeInv
<1>2. notified' = [notified EXCEPT ![i] = @ \cup {to}] /\ UNCHANGED <<status, claim>>
  BY DEF Emit, row
<1>3. CASE to = "SUCCEEDED"
  <2>1. status[i] = "SUCCEEDED"  BY <1>1, <1>3 DEF SafeTask, Emit, At
  <2>2. Told' = Told \cup {i}
    BY <1>1, <1>2, <1>3 DEF Told, SafeInv, TypeOK
  <2>3. PICK k \in Ids : k = i  BY <1>1
  <2>4. Promise!Tell(k)
    BY <1>2, <2>1, <2>2, <2>3, FateFacts DEF Promise!Tell, Told
  <2> QED  BY <2>4 DEF Promise!PromiseNext
<1>4. CASE to # "SUCCEEDED"
  <2>1. Told' = Told
    BY <1>1, <1>2, <1>4 DEF Told, SafeInv, TypeOK
  <2> QED  BY <1>2, <2>1 DEF Promise!promiseVars, Told
<1> QED  BY <1>3, <1>4

\* PaymentIntents implements PaymentPromise: each step of each handler, of the
\* observer and of the world is a step the integrator was promised, or none the
\* integrator can see (payment-intents.service.ts, observer.service.ts).
THEOREM PromiseKept == Spec => IntentsKeepPromise
<1>1. Init => Promise!PromiseInit
  BY FateFacts DEF Init, Promise!PromiseInit
<1>2. SafeInv /\ [Next]_vars => [Promise!PromiseNext]_(Promise!promiseVars)
  <2> SUFFICES ASSUME SafeInv, [Next]_vars
               PROVE  Promise!PromiseNext \/ UNCHANGED Promise!promiseVars
    OBVIOUS
  <2>1. CASE UNCHANGED vars
    BY <2>1, PromiseStutters DEF vars, row
  <2>2. CASE World
    <3>1. ASSUME NEW p \in Payments, NEW ok \in BOOLEAN, Close(p, ok)
          PROVE  UNCHANGED Promise!promiseVars
      BY <3>1, PromiseStutters DEF Close, row
    <3>2. ASSUME NEW i \in Ids, Lapse(i) PROVE UNCHANGED Promise!promiseVars
      BY <3>2, PromiseStutters DEF Lapse
    <3> QED  BY <2>2, <3>1, <3>2, CreateAsks DEF World, SafeInv
  <2>3. ASSUME NEW w \in Workers, Call(w) \/ Observe(w)
        PROVE  UNCHANGED Promise!promiseVars
    <3>1. \E r : Goto(w, r)
      BY <2>3, Zenon DEF Call, Observe, Validate, SettleFromApi, PatchTxHash, PatchStatus, Remove,
                  SelectLapsed, SelectPending
    <3> QED  BY <3>1, PromiseStutters DEF Goto, row
  <2>4. ASSUME NEW w \in Workers,
               Abort(w) \/ Reconcile(w) \/ Verify(w) \/ Rank(w) \/ Transition(w) \/ RollBack(w)
        PROVE  UNCHANGED Promise!promiseVars
    <3>1. \E r : Goto(w, r)
      BY <2>4, Zenon DEF Abort, Reconcile, Verify, Rank, Transition, RollBack
    <3> QED  BY <3>1, PromiseStutters DEF Goto, row
  <2>5. ASSUME NEW w \in Workers, WriteTxHash(w) PROVE UNCHANGED Promise!promiseVars
    BY <2>5, PromiseStutters DEF WriteTxHash
  <2> QED
    BY <2>1, <2>2, <2>3, <2>4, <2>5, CommitKeepsPromise, DeleteWithdraws, EmitTells
       DEF Next, Workers, Step
<1> QED  BY <1>1, <1>2, SafetyInvariant, PTL DEF Spec, IntentsKeepPromise, Promise!PromiseSpec

-----------------------------------------------------------------------------
(***************************************************************************)
(* Expiry.  The observer asks the chain, and several steps later writes    *)
(* EXPIRED; PATCH may report a hash, payments may close and the verifier's *)
(* answer may be stale by then.  ExpiryTask says what an expiring task may *)
(* still rely on.                                                          *)
(***************************************************************************)

\* No payment the verifier would have had to find closed within the lifetime.
Unpaid(i) ==
    \A t \in Txs : Pays(i, t) /\ t <= due[i] /\ reported[i] \subseteq {t} =>
        Cardinality(Buries(i, t)) >= ScanMax
Excused(i) == i \in refused \/ Unpaid(i)

ExpiryTask(r) ==
    /\ r.pc # "idle" /\ r.op = "expire" => due[r.id] # NotDue
    /\ r.pc = "verify" /\ r.op = "expire" /\ r.tx # NoTx => r.tx \in reported[r.id]
    /\ r.pc = "rank" => r.to = "SUCCEEDED"
    /\ r.pc \in {"transition", "commit"} /\ r.to \in OpenFor => r.op = "api"
    /\ r.pc \in {"transition", "commit"} /\ r.to = "EXPIRED" /\ r.op # "api" =>
          r.op = "expire" /\ Excused(r.id)

\* A row's hash was reported while it is open; one the observer expired is excused.
ExpiryRow(i) ==
    /\ status[i] = "ABSENT" => txHash[i] = NoTx
    /\ due[i] # NotDue => due[i] <= Len(ledger)
    /\ status[i] \in OpenFor /\ txHash[i] # NoTx => txHash[i] \in reported[i]
    /\ status[i] = "EXPIRED" /\ audit[i] = "observer" => due[i] # NotDue /\ Excused(i)

\* The inductive invariant, on top of SafeInv.
ExpiryInv ==
    /\ \A i \in Ids : ExpiryRow(i)
    /\ \A w \in Workers : ExpiryTask(task[w])

\* What no step takes away.
Grows ==
    /\ \A i \in Ids : status[i] # "ABSENT" => made'[i] = made[i]
    /\ \A i \in Ids : due[i] # NotDue => due'[i] = due[i]
    /\ refused \subseteq refused'
    /\ \A i \in Ids : reported[i] \subseteq reported'[i]
    /\ Len(ledger) <= Len(ledger') /\ \A t \in Closed : ledger'[t] = ledger[t]

\* A non-empty set of transactions has a newest one.
LEMMA Newest ==
    ASSUME NEW S, S \subseteq Txs, S # {}
    PROVE  \E t \in S : \A u \in S : u <= t
<1> DEFINE R == OpToRel(<, Nat)
           T == {n \in Nat : MaxTxs - n \in S}
<1>1. S \subseteq 1..MaxTxs /\ MaxTxs \in Nat  BY BoundsAssumption DEF Txs
<1>2. PICK x \in S : TRUE  OBVIOUS
<1>3. MaxTxs - x \in Nat /\ MaxTxs - (MaxTxs - x) = x  BY <1>1, <1>2
<1>4. T \subseteq Nat /\ T # {}  BY <1>2, <1>3
<1>5. PICK n \in T : \A m \in T : ~(<<m, n>> \in R)
  <2>1. IsWellFoundedOn(R, Nat)  BY NatLessThanWellFounded
  <2> QED  BY <1>4, <2>1, WFMin
<1>6. \A m \in T : ~(m < n)
  BY <1>5 DEF OpToRel
<1>7. ASSUME NEW u \in S PROVE u <= MaxTxs - n
  <2>1. MaxTxs - u \in T  BY <1>1
  <2>2. ~(MaxTxs - u < n)  BY <1>6, <2>1
  <2> QED  BY <1>1, <2>2
<1> QED  BY <1>5, <1>7

\* findMatchingPayment answers when there is something within its scan to answer.
LEMMA ScanComplete ==
    ASSUME TypeOK, NEW i \in Ids, \A t \in Txs : ~(FindMatchingPayment(i, t) /\ Pays(i, t))
    PROVE  Found(i) = {}
<1>1. Closed \subseteq Txs  BY BoundsAssumption DEF TypeOK, Closed, Txs
<1>2. Found(i) \subseteq Txs  BY <1>1 DEF Found
<1>3. Found(i) # {} => \E t \in Found(i) : \A u \in Found(i) : u <= t
  BY <1>2, Newest
<1> QED  BY <1>2, <1>3 DEF FindMatchingPayment, Found

\* The payments that bury a transaction can be counted.
LEMMA BuriesFinite ==
    ASSUME TypeOK, NEW i, NEW t
    PROVE  IsFiniteSet(Buries(i, t)) /\ Cardinality(Buries(i, t)) \in Nat
<1>1. IsFiniteSet(Closed)
  <2>1. Len(ledger) \in Nat  BY DEF TypeOK
  <2> QED  BY <2>1, FS_Interval DEF Closed
<1>2. Buries(i, t) \subseteq Closed  BY DEF Buries
<1> QED  BY <1>1, <1>2, FS_Subset, FS_CardinalityType

\* An excuse, once given for a lapsed intent, stands.
LEMMA ExcuseStands ==
    ASSUME TypeOK, TypeOK', Grows, NEW i \in Ids, status[i] # "ABSENT",
           due[i] # NotDue, due[i] <= Len(ledger), Excused(i)
    PROVE  due'[i] = due[i] /\ Excused(i)'
<1>1. due'[i] = due[i] /\ made'[i] = made[i]  BY DEF Grows
<1>2. CASE i \in refused  BY <1>1, <1>2 DEF Excused, Grows
<1>3. CASE Unpaid(i)
  <2> SUFFICES ASSUME NEW t \in Txs, Pays(i, t)', t <= due'[i], reported'[i] \subseteq {t}
               PROVE  Cardinality(Buries(i, t)') >= ScanMax
    BY <1>1 DEF Excused, Unpaid
  <2>1. t \in Closed /\ Closed \subseteq Closed' /\ ledger'[t] = ledger[t]
    BY <1>1 DEF Closed, TypeOK, Grows, Txs, NotDue
  <2>2. Pays(i, t)  BY <1>1, <2>1 DEF Pays, PaymentOf
  <2>3. reported[i] \subseteq {t}  BY DEF Grows
  <2>4. Cardinality(Buries(i, t)) >= ScanMax  BY <1>1, <1>3, <2>2, <2>3 DEF Unpaid
  <2>5. Buries(i, t) \subseteq Buries(i, t)'
    BY <1>1, <2>1 DEF Buries, Grows
  <2>6. IsFiniteSet(Buries(i, t)') /\ Cardinality(Buries(i, t)') \in Nat
    <3>1. Len(ledger') \in Nat  BY DEF TypeOK
    <3>2. IsFiniteSet(Closed')  BY <3>1, FS_Interval DEF Closed
    <3>3. Buries(i, t)' \subseteq Closed'  BY DEF Buries
    <3> QED  BY <3>2, <3>3, FS_Subset, FS_CardinalityType
  <2>7. Cardinality(Buries(i, t)) <= Cardinality(Buries(i, t)')
    BY <2>5, <2>6, FS_Subset
  <2> QED  BY <2>4, <2>6, <2>7, BuriesFinite, BoundsAssumption
<1> QED  BY <1>2, <1>3 DEF Excused

\* What an expiring task relies on, no step takes away.
LEMMA ExpiryTaskFrame ==
    ASSUME SafeInv, TypeOK', ExpiryInv, Grows, NEW r, GoodTask(r), SafeTask(r), ExpiryTask(r)
    PROVE  ExpiryTask(r)'
<1>1. CASE r.pc = "idle"  BY <1>1 DEF ExpiryTask
<1>2. CASE r.pc # "idle"
  <2>1. r.id \in Ids /\ status[r.id] # "ABSENT"
    BY <1>2 DEF GoodTask, WellFormed, SafeTask
  <2>2. r.op = "expire" => due'[r.id] = due[r.id] /\ due[r.id] # NotDue /\ due[r.id] <= Len(ledger)
    BY <1>2, <2>1 DEF ExpiryTask, ExpiryInv, ExpiryRow, Grows
  <2>3. reported[r.id] \subseteq reported'[r.id]  BY <2>1 DEF Grows
  <2>4. r.pc \in {"transition", "commit"} /\ r.to = "EXPIRED" /\ r.op # "api" =>
            r.op = "expire" /\ Excused(r.id)'
    BY <2>1, <2>2, ExcuseStands DEF ExpiryTask, SafeInv
  <2> QED  BY <1>2, <2>2, <2>3, <2>4 DEF ExpiryTask, NotDue
<1> QED  BY <1>1, <1>2

\* A row whose columns stay, or whose lapse is recorded now, stays as it must be.
LEMMA ExpiryRowFrame ==
    ASSUME SafeInv, TypeOK', ExpiryInv, Grows, NEW i \in Ids,
           status'[i] = status[i], txHash'[i] = txHash[i], audit'[i] = audit[i],
           due'[i] \in {due[i], Len(ledger')}
    PROVE  ExpiryRow(i)'
<1>1. ExpiryRow(i)  BY DEF ExpiryInv
<1>2. due'[i] # NotDue => due'[i] <= Len(ledger')
  BY <1>1 DEF ExpiryRow, Grows, SafeInv, TypeOK, NotDue
<1>3. status[i] = "EXPIRED" /\ audit[i] = "observer" => due'[i] = due[i] /\ Excused(i)'
  BY <1>1, ExcuseStands DEF ExpiryRow, SafeInv
<1>4. reported[i] \subseteq reported'[i]  BY DEF Grows
<1> QED  BY <1>1, <1>2, <1>3, <1>4 DEF ExpiryRow, NotDue

\* What a task that goes on to say EXPIRED was refused: its settlement.
JustRefused(r) ==
    /\ r.pc = "transition" /\ r.op = "expire" /\ r.to = "EXPIRED"
    /\ due[r.id] # NotDue /\ r.id \in refused'

\* A step that only moves task w on, to a task that may rely on what it does.
LEMMA GotoExpiry ==
    ASSUME SafeInv, ExpiryInv, NEW w \in Workers, NEW r, Goto(w, r),
           refused \subseteq refused', UNCHANGED reported, ExpiryTask(r) \/ JustRefused(r)
    PROVE  ExpiryInv'
<1>1. UNCHANGED <<status, txHash, made, due, audit, ledger, reported>>
  BY DEF Goto, row
<1>2. \A i : Unpaid(i)' <=> Unpaid(i)
  BY <1>1 DEF Unpaid, Pays, PaymentOf, Closed, Buries
<1>3. \A i : Excused(i) => Excused(i)'  BY <1>2 DEF Excused
<1>4. ASSUME NEW x, ExpiryTask(x) PROVE ExpiryTask(x)'
  BY <1>1, <1>3, <1>4 DEF ExpiryTask, NotDue
<1>5. ExpiryTask(r)'
  <2>1. CASE ExpiryTask(r)  BY <1>4, <2>1
  <2>2. CASE JustRefused(r)
    BY <1>1, <2>2 DEF JustRefused, ExpiryTask, Excused, OpenFor, NotDue
  <2> QED  BY <2>1, <2>2
<1>6. ASSUME NEW v \in Workers PROVE ExpiryTask(task[v])'
  <2>1. CASE task'[v] = task[v]
    <3>1. ASSUME NEW x, x = task[v] PROVE ExpiryTask(x)'  BY <1>4, <3>1 DEF ExpiryInv
    <3> QED  BY <2>1, <3>1 DEF ExpiryTask
  <2>2. CASE task'[v] = r  BY <1>5, <2>2 DEF ExpiryTask
  <2> QED  BY <2>1, <2>2 DEF Goto, SafeInv, TypeOK
<1>7. \A i \in Ids : ExpiryRow(i)'
  BY <1>1, <1>3 DEF ExpiryInv, ExpiryRow, NotDue
<1> QED  BY <1>6, <1>7 DEF ExpiryInv

\* Nothing came of the settlement: an expiring task goes on excused.
LEMMA UnsettledExpiry ==
    ASSUME SafeInv, ExpiryInv, NEW w \in Workers, ~At(w, "idle")
    PROVE  /\ ExpiryTask(Idle)
           /\ task[w].op = "expire" /\ Excused(task[w].id) => ExpiryTask(Unsettled(w))
           /\ task[w].op = "expire" /\ task[w].id \in refused' => JustRefused(Unsettled(w))
           /\ task[w].op # "expire" => Unsettled(w) = Idle
<1>1. ExpiryTask(Idle)  BY DEF ExpiryTask, Idle
<1> DEFINE r == [task[w] EXCEPT !.pc = "transition", !.tx = NoTx, !.to = "EXPIRED"]
<1>2. /\ r.pc = "transition" /\ r.to = "EXPIRED" /\ r.id = task[w].id /\ r.op = task[w].op
  BY DEF SafeInv, TypeOK, Task
<1>3. task[w].op = "expire" => due[task[w].id] # NotDue
  BY DEF ExpiryInv, ExpiryTask, At
<1>4. task[w].op = "expire" /\ Excused(task[w].id) => ExpiryTask(r)
  BY <1>2, <1>3 DEF ExpiryTask, OpenFor
<1>5. task[w].op = "expire" /\ task[w].id \in refused' => JustRefused(r)
  BY <1>2, <1>3 DEF JustRefused
<1> QED  BY <1>1, <1>4, <1>5 DEF Unsettled

\* The verifier's no: an expiring intent has no payment left to find.
LEMMA NoAnswerUnpaid ==
    ASSUME SafeInv, ExpiryInv, NEW w \in Workers, At(w, "verify"), task[w].op = "expire",
           \A t \in Txs : ~Confirms(w, t)
    PROVE  Unpaid(task[w].id)
<1> DEFINE i == task[w].id
<1>1. i \in Ids  BY RunningType DEF SafeInv, At
<1>2. CASE task[w].tx # NoTx
  <2>1. task[w].tx \in reported[i]  BY <1>2 DEF ExpiryInv, ExpiryTask, At
  <2>2. \A t \in Txs : t = task[w].tx => ~Pays(i, t)  BY <1>2 DEF Confirms
  <2> QED  BY <2>1, <2>2 DEF Unpaid
<1>3. CASE task[w].tx = NoTx
  <2>1. \A t \in Txs : ~(FindMatchingPayment(i, t) /\ Pays(i, t))  BY <1>3 DEF Confirms
  <2>2. Found(i) = {}  BY <1>1, <2>1, ScanComplete DEF SafeInv
  <2>3. \A t : Pays(i, t) => ~(Cardinality(Buries(i, t)) < ScanMax)
    BY <2>2 DEF Found, Pays, PaymentOf
  <2> QED  BY <2>3, BuriesFinite, BoundsAssumption DEF Unpaid, SafeInv
<1> QED  BY <1>2, <1>3

\* The steps of a handler that only read.
LEMMA ReadsExpiry ==
    ASSUME SafeInv, ExpiryInv, NEW w \in Workers,
           Abort(w) \/ Reconcile(w) \/ Verify(w) \/ Rank(w) \/ Transition(w) \/ RollBack(w)
    PROVE  ExpiryInv'
<1>0. ~At(w, "idle")
  BY DEF Abort, Reconcile, Verify, Rank, Transition, RollBack, At
<1>1. task[w] \in Task /\ task[w].id \in Ids /\ ExpiryTask(task[w])
  BY <1>0, RunningType DEF SafeInv, ExpiryInv, GoodTask
<1>2. CASE Goto(w, Idle) /\ refused \subseteq refused' /\ UNCHANGED reported
  BY <1>0, <1>2, GotoExpiry, UnsettledExpiry
<1>3. CASE Goto(w, Unsettled(w)) /\ refused \subseteq refused' /\ UNCHANGED reported
           /\ (task[w].op = "expire" => Excused(task[w].id) \/ task[w].id \in refused')
  BY <1>0, <1>3, GotoExpiry, UnsettledExpiry
<1>4. CASE Abort(w)  BY <1>2, <1>4 DEF Abort, hist
<1>5. CASE Reconcile(w)
  <2> DEFINE r == [task[w] EXCEPT !.pc = "verify"]
  <2>1. CASE Goto(w, r) /\ due[task[w].id] = NotDue
    <3>1. r.pc = "verify" /\ r.op = task[w].op /\ r.id = task[w].id  BY <1>1 DEF Task
    <3>2. ExpiryTask(r)  BY <1>0, <1>1, <2>1, <3>1 DEF ExpiryTask, At
    <3> QED  BY <1>5, <2>1, <3>2, GotoExpiry DEF Reconcile, hist
  <2> QED  BY <1>2, <1>5, <2>1 DEF Reconcile, hist
<1>6. CASE Verify(w)
  <2>0. UNCHANGED <<refused, reported>> /\ task[w].pc = "verify"  BY <1>6 DEF Verify, hist, At
  <2>1. ASSUME NEW t \in Txs,
               Goto(w, [task[w] EXCEPT !.pc = "rank", !.tx = t, !.to = "SUCCEEDED"])
        PROVE  ExpiryInv'
    <3> DEFINE r == [task[w] EXCEPT !.pc = "rank", !.tx = t, !.to = "SUCCEEDED"]
    <3>1. r.pc = "rank" /\ r.id = task[w].id /\ r.op = task[w].op /\ r.to = "SUCCEEDED"
      BY <1>1 DEF Task
    <3>2. ExpiryTask(r)  BY <1>1, <2>0, <3>1 DEF ExpiryTask
    <3> QED  BY <2>0, <2>1, <3>2, GotoExpiry
  <2>2. CASE Goto(w, [task[w] EXCEPT !.pc = "transition", !.to = "FAILED"])
             /\ task[w].op = "validate"
    <3> DEFINE r == [task[w] EXCEPT !.pc = "transition", !.to = "FAILED"]
    <3>1. r.pc = "transition" /\ r.op = task[w].op /\ r.to = "FAILED"  BY <1>1 DEF Task
    <3>2. ExpiryTask(r)  BY <2>2, <3>1 DEF ExpiryTask, OpenFor
    <3> QED  BY <2>0, <2>2, <3>2, GotoExpiry
  <2>3. CASE Goto(w, Unsettled(w)) /\ \A t \in Txs : ~Confirms(w, t)
    BY <1>3, <2>0, <2>3, NoAnswerUnpaid DEF Excused, At
  <2> QED  BY <1>6, <2>1, <2>2, <2>3 DEF Verify
<1>7. CASE Rank(w)
  <2> DEFINE r == [task[w] EXCEPT !.pc = "transition"]
  <2>1. CASE Goto(w, r) /\ UNCHANGED refused
    <3>1. task[w].pc = "rank" /\ task[w].to = "SUCCEEDED"
      BY <1>1, <1>7 DEF Rank, At, ExpiryTask
    <3>2. r.pc = "transition" /\ r.op = task[w].op /\ r.to = task[w].to /\ r.id = task[w].id
      BY <1>1 DEF Task
    <3>3. ExpiryTask(r)  BY <1>1, <3>1, <3>2 DEF ExpiryTask, OpenFor
    <3> QED  BY <1>7, <2>1, <3>3, GotoExpiry DEF Rank
  <2> QED  BY <1>3, <1>7, <2>1 DEF Rank
<1>8. CASE Transition(w)
  <2> DEFINE hash == IF task[w].tx # NoTx THEN task[w].tx ELSE txHash[task[w].id]
             r == [task[w] EXCEPT !.pc = "commit", !.tx = hash, !.st = status[task[w].id]]
  <2>1. CASE Goto(w, r)
    <3>1. task[w].pc = "transition"  BY <1>8 DEF Transition, At
    <3>2. r.pc = "commit" /\ r.op = task[w].op /\ r.to = task[w].to /\ r.id = task[w].id
      BY <1>1 DEF Task
    <3>3. ExpiryTask(r)  BY <1>1, <3>1, <3>2 DEF ExpiryTask
    <3> QED  BY <1>8, <2>1, <3>3, GotoExpiry DEF Transition, hist
  <2> QED  BY <1>2, <1>8, <2>1 DEF Transition, hist
<1>9. CASE RollBack(w)
  BY <1>2, <1>3, <1>9 DEF RollBack
<1> QED  BY <1>4, <1>5, <1>6, <1>7, <1>8, <1>9

\* A request, or a pass of the observer, starts with what its row holds.
LEMMA StartsExpiry ==
    ASSUME SafeInv, ExpiryInv, NEW w \in Workers, Call(w) \/ Observe(w)
    PROVE  ExpiryInv'
<1>1. PICK i \in Ids :
          \/ \E t \in Txs : Validate(w, i, t) \/ SettleFromApi(w, i, t) \/ PatchTxHash(w, i, t)
          \/ \E to \in PatchTo, t \in Txs \cup {NoTx} : PatchStatus(w, i, to, t)
          \/ Remove(w, i) \/ SelectLapsed(w, i) \/ SelectPending(w, i)
  BY DEF Call, Observe
<1>2. ExpiryTask(Idle)  BY DEF ExpiryTask, Idle
<1>3. ASSUME NEW t \in Txs, Validate(w, i, t) PROVE ExpiryInv'
  <2> DEFINE r == [Idle EXCEPT !.pc = "verify", !.op = "validate",
                               !.id = i, !.tx = t, !.st = status[i]]
  <2>1. ExpiryTask(r)  BY DEF ExpiryTask, Idle
  <2> QED  BY <1>2, <1>3, <2>1, GotoExpiry DEF Validate, hist
<1>4. ASSUME NEW t \in Txs, SettleFromApi(w, i, t) PROVE ExpiryInv'
  <2> DEFINE r == [Idle EXCEPT !.pc = "settle", !.id = i, !.tx = t]
  <2>1. ExpiryTask(r)  BY DEF ExpiryTask, Idle
  <2> QED  BY <1>4, <2>1, GotoExpiry DEF SettleFromApi, hist
<1>5. ASSUME NEW t \in Txs, PatchTxHash(w, i, t) PROVE ExpiryInv'
  <2> DEFINE r == [Idle EXCEPT !.pc = "rewrite", !.op = "api", !.id = i, !.tx = t]
             q == [Idle EXCEPT !.pc = "patch", !.op = "api", !.id = i,
                               !.tx = t, !.st = status[i]]
  <2>1. ExpiryTask(r) /\ ExpiryTask(q)  BY DEF ExpiryTask, Idle
  <2> QED  BY <1>5, <2>1, GotoExpiry DEF PatchTxHash, hist
<1>6. ASSUME NEW to \in PatchTo, NEW t \in Txs \cup {NoTx}, PatchStatus(w, i, to, t)
      PROVE  ExpiryInv'
  <2> DEFINE r == [Idle EXCEPT !.pc = "transition", !.op = "api", !.id = i, !.tx = t, !.to = to]
  <2>1. ExpiryTask(r)  BY DEF ExpiryTask, Idle
  <2> QED  BY <1>6, <2>1, GotoExpiry DEF PatchStatus, hist
<1>7. CASE Remove(w, i)
  <2> DEFINE r == [Idle EXCEPT !.pc = "delete", !.op = "api", !.id = i, !.st = status[i]]
  <2>1. ExpiryTask(r)  BY DEF ExpiryTask, Idle
  <2> QED  BY <1>7, <2>1, GotoExpiry DEF Remove, hist
<1>8. CASE SelectLapsed(w, i)
  <2> DEFINE r == [Idle EXCEPT !.pc = "verify", !.op = "expire",
                               !.id = i, !.tx = txHash[i], !.st = status[i]]
  <2>1. status[i] \in OpenFor /\ due[i] # NotDue  BY <1>8 DEF SelectLapsed
  <2>2. txHash[i] # NoTx => txHash[i] \in reported[i]  BY <2>1 DEF ExpiryInv, ExpiryRow
  <2>3. r.pc = "verify" /\ r.id = i /\ r.tx = txHash[i]  BY DEF Idle
  <2>4. ExpiryTask(r)  BY <2>1, <2>2, <2>3 DEF ExpiryTask
  <2> QED  BY <1>8, <2>4, GotoExpiry DEF SelectLapsed, hist
<1>9. CASE SelectPending(w, i)
  <2> DEFINE r == [Idle EXCEPT !.pc = "reconcile", !.op = "reconcile",
                               !.id = i, !.tx = txHash[i], !.st = status[i]]
  <2>1. ExpiryTask(r)  BY DEF ExpiryTask, Idle
  <2> QED  BY <1>9, <2>1, GotoExpiry DEF SelectPending, hist
<1> QED  BY <1>1, <1>3, <1>4, <1>5, <1>6, <1>7, <1>8, <1>9

\* A step that ends or leaves each task alone keeps what the others rely on.
LEMMA OthersExpiry ==
    ASSUME SafeInv, TypeOK', ExpiryInv, Grows, NEW v \in Workers,
           task'[v] = task[v] \/ task'[v] = Idle
    PROVE  ExpiryTask(task[v])'
<1>1. GoodTask(task[v]) /\ SafeTask(task[v]) /\ ExpiryTask(task[v])
  BY DEF SafeInv, TypeOK, GoodTask, ExpiryInv
<1>2. CASE task'[v] = task[v]
  <2>1. ASSUME NEW r, r = task[v] PROVE ExpiryTask(r)'
    BY <1>1, <2>1, ExpiryTaskFrame
  <2> QED  BY <1>2, <2>1 DEF ExpiryTask
<1>3. CASE task'[v] = Idle  BY <1>3 DEF ExpiryTask, Idle
<1> QED  BY <1>2, <1>3

\* The steps of the world: a transaction closes, time passes, a row is inserted.
LEMMA WorldExpiry ==
    ASSUME SafeInv, TypeOK', ExpiryInv, World
    PROVE  ExpiryInv'
<1>1. ASSUME NEW p \in Payments, NEW ok \in BOOLEAN, Close(p, ok) PROVE ExpiryInv'
  <2>1. Grows  BY <1>1 DEF Close, Grows, Closed, SafeInv, TypeOK, row, hist
  <2>2. \A i \in Ids : ExpiryRow(i)'  BY <1>1, <2>1, ExpiryRowFrame DEF Close, row
  <2>3. \A v \in Workers : ExpiryTask(task[v])'  BY <1>1, <2>1, OthersExpiry DEF Close
  <2> QED  BY <2>2, <2>3 DEF ExpiryInv
<1>2. ASSUME NEW i \in Ids, Lapse(i) PROVE ExpiryInv'
  <2>1. Grows  BY <1>2 DEF Lapse, Grows, Closed, SafeInv, TypeOK, hist
  <2>2. \A k \in Ids : due'[k] \in {due[k], Len(ledger')}  BY <1>2 DEF Lapse, SafeInv, TypeOK
  <2>3. \A k \in Ids : ExpiryRow(k)'  BY <1>2, <2>1, <2>2, ExpiryRowFrame DEF Lapse
  <2>4. \A v \in Workers : ExpiryTask(task[v])'  BY <1>2, <2>1, OthersExpiry DEF Lapse
  <2> QED  BY <2>3, <2>4 DEF ExpiryInv
<1>3. ASSUME NEW c \in Consumers, NEW tm \in Terms, NEW born \in 0..MaxTxs, Create(c, tm, born)
      PROVE  ExpiryInv'
  <2>1. PICK i \in Ids :
            /\ status[i] = "ABSENT"
            /\ status' = [status EXCEPT ![i] = "PENDING"]
            /\ made' = [made EXCEPT ![i] = [consumer |-> c, terms |-> tm, born |-> born]]
            /\ UNCHANGED <<txHash, due, audit, ledger, task, refused, reported>>
    BY <1>3 DEF Create, hist
  <2>2. Grows  BY <2>1 DEF Grows, Closed, SafeInv, TypeOK
  <2>3. \A k \in Ids : k # i => ExpiryRow(k)'
    BY <2>1, <2>2, ExpiryRowFrame DEF SafeInv, TypeOK
  <2>4. ExpiryRow(i)'
    BY <2>1 DEF ExpiryRow, ExpiryInv, SafeInv, TypeOK, NotDue
  <2>5. \A v \in Workers : ExpiryTask(task[v])'  BY <2>1, <2>2, OthersExpiry
  <2> QED  BY <2>3, <2>4, <2>5 DEF ExpiryInv
<1> QED  BY <1>1, <1>2, <1>3 DEF World

\* patchTxHash's write, the delete and the emission.
LEMMA OtherWritesExpiry ==
    ASSUME SafeInv, TypeOK', ExpiryInv, NEW w \in Workers, WriteTxHash(w) \/ Delete(w) \/ Emit(w)
    PROVE  ExpiryInv'
<1> DEFINE i == task[w].id
           t == task[w].tx
<1>0. ~At(w, "idle")  BY DEF WriteTxHash, Delete, Emit, At
<1>1. GoodTask(task[w]) /\ i \in Ids /\ SafeTask(task[w])  BY <1>0, RunningType DEF SafeInv
<1>2. \A v \in Workers : task'[v] = task[v] \/ task'[v] = Idle
  BY DEF WriteTxHash, Delete, Emit, SafeInv, TypeOK
<1>3. Grows
  <2>1. UNCHANGED <<made, due, ledger, refused>>
    BY DEF WriteTxHash, Delete, Emit, row, hist
  <2>2. \/ UNCHANGED reported
        \/ reported' = [reported EXCEPT ![i] = @ \cup {t}]
    BY DEF WriteTxHash, Delete, Emit, hist
  <2>3. ASSUME NEW k \in Ids PROVE reported[k] \subseteq reported'[k]
    <3>1. reported \in [Ids -> SUBSET Txs]  BY DEF SafeInv, TypeOK
    <3>2. reported'[k] \in {reported[k], reported[k] \cup {t}}  BY <1>1, <2>2, <3>1
    <3> QED  BY <3>2
  <2> QED  BY <2>1, <2>3 DEF Grows, Closed, SafeInv, TypeOK
<1>4. \A v \in Workers : ExpiryTask(task[v])'  BY <1>2, <1>3, OthersExpiry
<1>5. CASE Emit(w)
  <2>1. \A k \in Ids : ExpiryRow(k)'  BY <1>3, <1>5, ExpiryRowFrame DEF Emit, row
  <2> QED  BY <1>4, <2>1 DEF ExpiryInv
<1>6. CASE Delete(w)
  <2>1. ASSUME NEW k \in Ids, status'[k] = status[k] PROVE ExpiryRow(k)'
    BY <1>3, <1>6, <2>1, ExpiryRowFrame DEF Delete
  <2>2. ASSUME NEW k \in Ids, status'[k] # status[k] PROVE ExpiryRow(k)'
    <3>1. status'[k] = "DELETED" /\ UNCHANGED <<due, ledger>>
      BY <1>1, <1>6, <2>2 DEF Delete, SafeInv, TypeOK
    <3> QED  BY <3>1 DEF ExpiryRow, ExpiryInv, OpenFor, NotDue
  <2> QED  BY <1>4, <2>1, <2>2 DEF ExpiryInv
<1>7. CASE WriteTxHash(w)
  <2>0. UNCHANGED <<status, due, audit, ledger>>  BY <1>7 DEF WriteTxHash
  <2>1. ASSUME NEW k \in Ids, txHash'[k] = txHash[k] PROVE ExpiryRow(k)'
    BY <1>3, <2>0, <2>1, ExpiryRowFrame
  <2>2. ASSUME NEW k \in Ids, txHash'[k] # txHash[k] PROVE ExpiryRow(k)'
    <3>1. k = i /\ Exists(i) /\ txHash'[i] = t /\ t \in reported'[i]
      BY <1>1, <1>7, <2>2 DEF WriteTxHash, SafeInv, TypeOK
    <3>2. status[k] # "ABSENT" /\ ExpiryRow(k)  BY <3>1 DEF Exists, Statuses, ExpiryInv
    <3>3. status[k] = "EXPIRED" /\ audit[k] = "observer" => due'[k] = due[k] /\ Excused(k)'
      BY <1>3, <3>2, ExcuseStands DEF ExpiryRow, SafeInv
    <3> QED  BY <2>0, <3>1, <3>2, <3>3 DEF ExpiryRow, NotDue
  <2> QED  BY <1>4, <2>1, <2>2 DEF ExpiryInv
<1> QED  BY <1>5, <1>6, <1>7

\* transition's commit: EXPIRED is written by the observer with an excuse.
LEMMA CommitExpiry ==
    ASSUME SafeInv, TypeOK', ExpiryInv, NEW w \in Workers, Commit(w)
    PROVE  ExpiryInv'
<1> DEFINE i == task[w].id
           t == task[w].tx
           to == task[w].to
<1>1. /\ GoodTask(task[w]) /\ i \in Ids /\ SafeTask(task[w]) /\ ExpiryTask(task[w])
      /\ task[w].pc = "commit"
  <2>1. ~At(w, "idle")  BY DEF Commit, At
  <2> QED  BY <2>1, RunningType DEF SafeInv, ExpiryInv, Commit, At
<1>2. CanTransition(status[i], to)
  BY <1>1 DEF Commit, At, Unmoved, SafeTask
<1>3. status[i] \in {"PENDING", "SUBMITTED", "EXPIRED"} /\ to \in Statuses \ {"PENDING"}
  BY <1>2, GraphFacts
<1>4. /\ status' = [status EXCEPT ![i] = to]
      /\ txHash' = IF t = NoTx THEN txHash ELSE [txHash EXCEPT ![i] = t]
      /\ audit' = [audit EXCEPT ![i] = Actor(task[w].op)]
      /\ UNCHANGED <<made, due, ledger, refused>>
  BY DEF Commit
<1>5. Grows
  BY <1>1, <1>4 DEF Commit, Grows, Closed, SafeInv, TypeOK
<1>6. ASSUME NEW v \in Workers PROVE ExpiryTask(task[v])'
  <2>1. CASE task'[v] = task[v] \/ task'[v] = Idle  BY <1>5, <2>1, OthersExpiry
  <2>2. CASE v = w /\ to \in TerminalEvents
    <3>1. task'[w].pc = "emit" /\ task'[w].id = i /\ task'[w].op = task[w].op
      BY <1>1, <2>2 DEF Commit, SafeInv, TypeOK, GoodTask, Task
    <3>2. task[w].op = "expire" => due[i] # NotDue  BY <1>1 DEF ExpiryTask
    <3> QED  BY <1>4, <2>2, <3>1, <3>2 DEF ExpiryTask, NotDue
  <2> QED  BY <2>1, <2>2 DEF Commit, SafeInv, TypeOK
<1>7. ASSUME NEW k \in Ids, k # i PROVE ExpiryRow(k)'
  BY <1>1, <1>4, <1>5, <1>7, ExpiryRowFrame DEF SafeInv, TypeOK
<1>8. ASSUME NEW k \in Ids, k = i PROVE ExpiryRow(k)'
  <2>0. status'[k] = to /\ audit'[k] = Actor(task[w].op) /\ ExpiryRow(k) /\ status[k] # "ABSENT"
    BY <1>1, <1>3, <1>4, <1>8 DEF SafeInv, TypeOK, ExpiryInv
  <2>1. due'[k] # NotDue => due'[k] <= Len(ledger')
    BY <1>4, <2>0 DEF ExpiryRow
  <2>2. to \in OpenFor /\ txHash'[k] # NoTx => txHash'[k] \in reported'[k]
    <3> SUFFICES ASSUME to \in OpenFor, txHash'[k] # NoTx PROVE txHash'[k] \in reported'[k]
      OBVIOUS
    <3>1. task[w].op = "api"  BY <1>1 DEF ExpiryTask
    <3>2. to = "SUBMITTED" /\ status[k] = "PENDING"
      BY <1>2, <1>3, <1>8, GraphFacts DEF OpenFor
    <3>3. CASE t # NoTx
      BY <1>1, <1>4, <1>8, <3>1, <3>3 DEF Commit, SafeInv, TypeOK
    <3>4. CASE t = NoTx
      BY <1>1, <1>4, <1>5, <2>0, <3>2, <3>4 DEF ExpiryRow, OpenFor, Grows
    <3> QED  BY <3>3, <3>4
  <2>3. to = "EXPIRED" /\ audit'[k] = "observer" => due'[k] # NotDue /\ Excused(k)'
    <3> SUFFICES ASSUME to = "EXPIRED", audit'[k] = "observer"
                 PROVE  due'[k] # NotDue /\ Excused(k)'
      OBVIOUS
    <3>1. task[w].op # "api"  BY <2>0 DEF Actor
    <3>2. task[w].op = "expire" /\ Excused(k)  BY <1>1, <1>8, <3>1 DEF ExpiryTask
    <3>3. due[k] # NotDue  BY <1>1, <1>8, <3>2 DEF ExpiryTask
    <3> QED  BY <1>1, <1>4, <1>5, <2>0, <3>2, <3>3, ExcuseStands DEF ExpiryRow, SafeInv
  <2> QED  BY <1>3, <1>8, <2>0, <2>1, <2>2, <2>3 DEF ExpiryRow, Statuses, NotDue
<1> QED  BY <1>6, <1>7, <1>8 DEF ExpiryInv

\* Every step keeps the expiry invariant.
LEMMA StepExpiry ==
    ASSUME SafeInv, TypeOK', ExpiryInv, [Next]_vars
    PROVE  ExpiryInv'
<1>1. CASE UNCHANGED vars
  <2>1. Grows  BY <1>1 DEF Grows, Closed, vars, row, hist, SafeInv, TypeOK
  <2>2. \A i \in Ids : ExpiryRow(i)'  BY <1>1, <2>1, ExpiryRowFrame DEF vars, row
  <2>3. \A v \in Workers : ExpiryTask(task[v])'  BY <1>1, <2>1, OthersExpiry DEF vars
  <2> QED  BY <2>2, <2>3 DEF ExpiryInv
<1>2. CASE World  BY <1>2, WorldExpiry
<1>3. ASSUME NEW w \in Workers, Call(w) \/ Observe(w) PROVE ExpiryInv'
  BY <1>3, StartsExpiry
<1>4. ASSUME NEW w \in Workers, Step(w) \/ Abort(w) PROVE ExpiryInv'
  BY <1>4, ReadsExpiry, OtherWritesExpiry, CommitExpiry DEF Step
<1> QED  BY <1>1, <1>2, <1>3, <1>4 DEF Next, Workers

\* "EXPIRED only once the verifier has answered and found none" (settleOrExpire,
\* markExpired), for every interleaving and any number of concurrent PATCHes: an
\* intent the observer expired had no payment the verifier was bound to find.
THEOREM ExpirySound == Spec => []ExpiredWasUnpaid
<1>1. Init => ExpiryInv
  BY DEF Init, ExpiryInv, ExpiryRow, ExpiryTask, Idle, OpenFor, NotDue
<1>2. SafeInv /\ TypeOK' /\ ExpiryInv /\ [Next]_vars => ExpiryInv'  BY StepExpiry
<1>3. ExpiryInv => ExpiredWasUnpaid
  BY DEF ExpiryInv, ExpiryRow, Excused, Unpaid, ExpiredWasUnpaid
<1> QED  BY <1>1, <1>2, <1>3, SafetyInvariant, TypeCorrect, PTL DEF Spec
=============================================================================
