------------------------ MODULE PaymentIntentsProofs ------------------------
(***************************************************************************)
(* What the runs check of PaymentIntents on small instances, proved for    *)
(* every number of intents, transactions, consumers and tasks.             *)
(***************************************************************************)
EXTENDS PaymentIntents, FiniteSetTheorems, TLAPS

\* The locals a handler may hold.
GoodTask(r) == r \in Task /\ WellFormed(r)

\* Idle, the state of a task slot between two requests, is a good task.
LEMMA IdleType == GoodTask(Idle)
BY DEF Idle, Task, NoIntent, NoTx, GoodTask, WellFormed

\* A running handler works on one of the intents.
LEMMA RunningType ==
    ASSUME TypeOK, NEW w \in Workers, ~At(w, "idle")
    PROVE  GoodTask(task[w]) /\ task[w].id \in Ids
BY DEF TypeOK, At, GoodTask, WellFormed

\* What a task does when its settlement did not happen is a good next step.
LEMMA UnsettledType ==
    ASSUME TypeOK, NEW w \in Workers, task[w].id \in Ids
    PROVE  GoodTask(Unsettled(w))
<1> DEFINE r == [task[w] EXCEPT !.pc = "transition", !.tx = NoTx, !.to = "EXPIRED"]
<1>1. task[w] \in Task  BY DEF TypeOK
<1>2. r \in Task  BY <1>1 DEF Task, Statuses, NoTx
<1>3. WellFormed(r)  BY <1>1 DEF Task, Statuses, WellFormed, TerminalEvents
<1> QED  BY <1>2, <1>3, IdleType DEF Unsettled, GoodTask

\* A step that only moves task w on to a good task preserves the types.
LEMMA GotoType ==
    ASSUME TypeOK, NEW w \in Workers, NEW r, GoodTask(r),
           Goto(w, r), refused' \in SUBSET Ids, reported' \in [Ids -> SUBSET Txs]
    PROVE  TypeOK'
<1>1. task' \in [Workers -> Task]  BY DEF TypeOK, Goto, GoodTask
<1>2. \A v \in Workers : WellFormed(task'[v])
  BY DEF TypeOK, Goto, GoodTask
<1> QED  BY <1>1, <1>2 DEF TypeOK, Goto, row

\* Type correctness of the payment-intent handlers and the observer: the code's
\* columns and a handler's locals only ever hold values of their types.
THEOREM TypeCorrect == Spec => []TypeOK
<1>1. Init => TypeOK
  BY IdleType, BoundsAssumption, InputsAssumption
     DEF Init, TypeOK, Ids, Txs, NotDue, NoTx, NoIntent, TerminalEvents, GoodTask
<1>2. TypeOK /\ [Next]_vars => TypeOK'
  <2> SUFFICES ASSUME TypeOK, [Next]_vars PROVE TypeOK'
    OBVIOUS
  <2>1. CASE UNCHANGED vars
    BY <2>1 DEF TypeOK, vars, row, hist
  <2>2. ASSUME NEW p \in Payments, NEW ok \in BOOLEAN, Close(p, ok) PROVE TypeOK'
    <3>1. [payment |-> p, successful |-> ok] \in [payment : Payments, successful : BOOLEAN]
      OBVIOUS
    <3>2. ledger' \in Seq([payment : Payments, successful : BOOLEAN]) /\ Len(ledger') <= MaxTxs
      BY <2>2, <3>1, BoundsAssumption DEF Close, TypeOK
    <3> QED  BY <2>2, <3>2 DEF Close, TypeOK, row, hist
  <2>3. ASSUME NEW i \in Ids, Lapse(i) PROVE TypeOK'
    <3>1. Len(ledger) \in 0..NotDue
      BY BoundsAssumption DEF TypeOK, NotDue
    <3> QED  BY <2>3, <3>1 DEF Lapse, TypeOK, hist
  <2>4. ASSUME NEW c \in Consumers, NEW tm \in Terms, NEW born \in 0..MaxTxs,
               Create(c, tm, born)
        PROVE  TypeOK'
    BY <2>4 DEF Create, TypeOK, hist, Statuses
  <2>5. ASSUME NEW w \in Api, Call(w) PROVE TypeOK'
    <3>0. w \in Workers  BY DEF Workers
    <3>1. ASSUME NEW i \in Ids, NEW t \in Txs, Validate(w, i, t) PROVE TypeOK'
      <4> DEFINE r == [Idle EXCEPT !.pc = "verify", !.op = "validate",
                                   !.id = i, !.tx = t, !.st = status[i]]
      <4>1. Exists(i) => GoodTask(r)
        BY DEF GoodTask, WellFormed, Task, Idle, Exists
      <4>2. (Exists(i) /\ Goto(w, r)) \/ Goto(w, Idle)  BY <3>1 DEF Validate
      <4> QED  BY <3>0, <3>1, <4>1, <4>2, GotoType, IdleType DEF Validate, TypeOK, hist
    <3>2. ASSUME NEW i \in Ids, NEW t \in Txs, SettleFromApi(w, i, t) PROVE TypeOK'
      <4> DEFINE r == [Idle EXCEPT !.pc = "settle", !.id = i, !.tx = t]
      <4>1. GoodTask(r)  BY DEF GoodTask, WellFormed, Task, Idle
      <4> QED  BY <3>0, <3>2, <4>1, GotoType DEF SettleFromApi, TypeOK, hist
    <3>3. ASSUME NEW i \in Ids, NEW t \in Txs, PatchTxHash(w, i, t) PROVE TypeOK'
      <4> DEFINE r == [Idle EXCEPT !.pc = "rewrite", !.op = "api", !.id = i, !.tx = t]
                 q == [Idle EXCEPT !.pc = "patch", !.op = "api", !.id = i,
                                   !.tx = t, !.st = status[i]]
      <4>1. GoodTask(r) /\ (Exists(i) => GoodTask(q))
        BY DEF GoodTask, WellFormed, Task, Idle, Exists
      <4>2. Exists(i) /\ (Goto(w, r) \/ Goto(w, q))  BY <3>3 DEF PatchTxHash
      <4> QED  BY <3>0, <3>3, <4>1, <4>2, GotoType DEF PatchTxHash, TypeOK, hist
    <3>4. ASSUME NEW i \in Ids, NEW to \in PatchTo, NEW t \in Txs \cup {NoTx},
                 PatchStatus(w, i, to, t)
          PROVE  TypeOK'
      <4> DEFINE r == [Idle EXCEPT !.pc = "transition", !.op = "api",
                                   !.id = i, !.tx = t, !.to = to]
      <4>1. GoodTask(r)
        BY InputsAssumption DEF GoodTask, WellFormed, Task, Idle
      <4> QED  BY <3>0, <3>4, <4>1, GotoType DEF PatchStatus, TypeOK, hist
    <3>5. ASSUME NEW i \in Ids, Remove(w, i) PROVE TypeOK'
      <4> DEFINE r == [Idle EXCEPT !.pc = "delete", !.op = "api", !.id = i, !.st = status[i]]
      <4>1. GoodTask(r)
        BY <3>5 DEF GoodTask, WellFormed, Task, Idle, Remove, Exists
      <4> QED  BY <3>0, <3>5, <4>1, GotoType DEF Remove, TypeOK, hist
    <3> QED  BY <2>5, <3>1, <3>2, <3>3, <3>4, <3>5 DEF Call
  <2>6. ASSUME NEW w \in Observers, Observe(w) PROVE TypeOK'
    <3>0. w \in Workers  BY DEF Workers
    <3>1. PICK i \in Ids : SelectLapsed(w, i) \/ SelectPending(w, i)
      BY <2>6 DEF Observe
    <3> DEFINE r == [Idle EXCEPT !.pc = "verify", !.op = "expire",
                                 !.id = i, !.tx = txHash[i], !.st = status[i]]
               q == [Idle EXCEPT !.pc = "reconcile", !.op = "reconcile",
                                 !.id = i, !.tx = txHash[i], !.st = status[i]]
    <3>2. GoodTask(r) /\ GoodTask(q)
      BY <3>1 DEF SelectLapsed, SelectPending, TypeOK, GoodTask, WellFormed, Task, Idle,
                  OpenFor, Statuses
    <3>3. Goto(w, r) \/ Goto(w, q)
      BY <3>1 DEF SelectLapsed, SelectPending
    <3> QED
      BY <3>0, <3>1, <3>2, <3>3, GotoType DEF SelectLapsed, SelectPending, TypeOK, hist
  <2>7. ASSUME NEW w \in Workers, Step(w) \/ Abort(w) PROVE TypeOK'
    <3>0. GoodTask(task[w]) /\ task[w].id \in Ids
      BY <2>7, RunningType
         DEF Step, Abort, At, Reconcile, Verify, Rank, Transition, Commit, RollBack, Emit,
             WriteTxHash, Delete
    <3>1. CASE Abort(w)
      BY <3>1, GotoType, IdleType DEF Abort, TypeOK, hist
    <3>2. CASE Reconcile(w)
      <4> DEFINE r == [task[w] EXCEPT !.pc = "verify"]
      <4>1. GoodTask(r)  BY <3>0 DEF Task, GoodTask, WellFormed
      <4>2. Goto(w, Idle) \/ Goto(w, r)  BY <3>2 DEF Reconcile
      <4> QED  BY <3>2, <4>1, <4>2, GotoType, IdleType DEF Reconcile, TypeOK, hist
    <3>3. CASE Verify(w)
      <4>0. UNCHANGED hist  BY <3>3 DEF Verify
      <4>1. ASSUME NEW t \in Txs,
                   Goto(w, [task[w] EXCEPT !.pc = "rank", !.tx = t, !.to = "SUCCEEDED"])
            PROVE  TypeOK'
        <5> DEFINE r == [task[w] EXCEPT !.pc = "rank", !.tx = t, !.to = "SUCCEEDED"]
        <5>1. GoodTask(r)  BY <3>0 DEF Task, Statuses, GoodTask, WellFormed
        <5> QED  BY <4>0, <4>1, <5>1, GotoType DEF TypeOK, hist
      <4>2. CASE Goto(w, [task[w] EXCEPT !.pc = "transition", !.to = "FAILED"])
        <5> DEFINE r == [task[w] EXCEPT !.pc = "transition", !.to = "FAILED"]
        <5>1. GoodTask(r)  BY <3>0 DEF Task, Statuses, GoodTask, WellFormed
        <5> QED  BY <4>0, <4>2, <5>1, GotoType DEF TypeOK, hist
      <4>3. CASE Goto(w, Unsettled(w))
        BY <3>0, <4>0, <4>3, UnsettledType, GotoType DEF TypeOK, hist
      <4> QED  BY <3>3, <4>1, <4>2, <4>3 DEF Verify
    <3>4. CASE Rank(w)
      <4> DEFINE r == [task[w] EXCEPT !.pc = "transition"]
      <4>0. refused' \in SUBSET Ids /\ reported' \in [Ids -> SUBSET Txs]
        BY <3>0, <3>4 DEF Rank, TypeOK
      <4>1. GoodTask(r)
        BY <3>0, <3>4 DEF Rank, At, Task, GoodTask, WellFormed
      <4>2. Goto(w, Unsettled(w)) \/ Goto(w, r)  BY <3>4 DEF Rank
      <4> QED  BY <3>0, <4>0, <4>1, <4>2, GotoType, UnsettledType
    <3>5. CASE Transition(w)
      <4> DEFINE hash == IF task[w].tx # NoTx THEN task[w].tx ELSE txHash[task[w].id]
                 r == [task[w] EXCEPT !.pc = "commit", !.tx = hash, !.st = status[task[w].id]]
      <4>1. hash \in Txs \cup {NoTx}
        BY <3>0 DEF TypeOK, GoodTask, Task
      <4>2. CASE AssertTransition(status[task[w].id], task[w].to, hash, task[w].op # "api")
        <5>1. GoodTask(r)
          BY <3>0, <3>5, <4>1, <4>2
             DEF Transition, At, Task, GoodTask, WellFormed, AssertTransition, CanTransition
        <5>2. Goto(w, r)  BY <3>5, <4>2 DEF Transition
        <5> QED  BY <3>5, <5>1, <5>2, GotoType DEF Transition, TypeOK, hist
      <4>3. CASE ~AssertTransition(status[task[w].id], task[w].to, hash, task[w].op # "api")
        BY <3>5, <4>3, IdleType, GotoType DEF Transition, TypeOK, hist
      <4> QED  BY <4>2, <4>3
    <3>6. CASE Commit(w)
      <4>1. task[w].to \in Statuses /\ (task[w].to = "SUCCEEDED" => task[w].tx \in Txs)
        BY <3>0, <3>6 DEF Commit, At, GoodTask, WellFormed
      <4>2. Actor(task[w].op) \in {"none", "api", "validate", "observer"}
        BY <3>0 DEF GoodTask, Task, Actor
      <4>3. /\ status' \in [Ids -> Statuses \cup {"ABSENT", "DELETED"}]
            /\ txHash' \in [Ids -> Txs \cup {NoTx}]
            /\ audit' \in [Ids -> {"none", "api", "validate", "observer"}]
        BY <3>0, <3>6, <4>1, <4>2 DEF Commit, TypeOK, GoodTask, Task
      <4>4. claim' \in [Txs -> Ids \cup {NoIntent}]
        BY <3>0, <3>6, <4>1 DEF Commit, TypeOK
      <4>5. reported' \in [Ids -> SUBSET Txs]
        BY <3>0, <3>6 DEF Commit, TypeOK, GoodTask, Task
      <4> DEFINE r == IF task[w].to \in TerminalEvents
                      THEN [task[w] EXCEPT !.pc = "emit"] ELSE Idle
      <4>6. GoodTask(r)
        BY <3>0, IdleType DEF GoodTask, Task, WellFormed
      <4>7. task' = [task EXCEPT ![w] = r]
        BY <3>6 DEF Commit, TypeOK
      <4>8. task' \in [Workers -> Task] /\ \A v \in Workers : WellFormed(task'[v])
        BY <4>6, <4>7 DEF TypeOK, GoodTask
      <4> QED  BY <3>6, <4>3, <4>4, <4>5, <4>8 DEF Commit, TypeOK
    <3>7. CASE RollBack(w)
      <4>0. refused' \in SUBSET Ids /\ reported' \in [Ids -> SUBSET Txs]
        BY <3>0, <3>7 DEF RollBack, TypeOK
      <4>1. Goto(w, Unsettled(w)) \/ Goto(w, Idle)  BY <3>7 DEF RollBack
      <4> QED  BY <3>0, <4>0, <4>1, GotoType, UnsettledType, IdleType
    <3>8. task' = [task EXCEPT ![w] = Idle] =>
             task' \in [Workers -> Task] /\ \A v \in Workers : WellFormed(task'[v])
      BY IdleType DEF TypeOK, GoodTask
    <3>9. CASE Emit(w)
      <4>1. task[w].to \in TerminalEvents
        BY <3>0, <3>9 DEF Emit, At, GoodTask, WellFormed
      <4>2. notified' \in [Ids -> SUBSET TerminalEvents]
        BY <3>0, <3>9, <4>1 DEF Emit, TypeOK
      <4> QED  BY <3>8, <3>9, <4>2 DEF Emit, TypeOK, row, hist
    <3>10. CASE WriteTxHash(w)
      <4>1. task[w].tx \in Txs
        BY <3>0, <3>10 DEF WriteTxHash, At, GoodTask, WellFormed
      <4>2. txHash' \in [Ids -> Txs \cup {NoTx}] /\ reported' \in [Ids -> SUBSET Txs]
        BY <3>0, <3>10, <4>1 DEF WriteTxHash, TypeOK
      <4> QED  BY <3>8, <3>10, <4>2 DEF WriteTxHash, TypeOK
    <3>11. CASE Delete(w)
      <4>1. status' \in [Ids -> Statuses \cup {"ABSENT", "DELETED"}]
        BY <3>0, <3>11 DEF Delete, TypeOK
      <4> QED  BY <3>8, <3>11, <4>1 DEF Delete, TypeOK, hist
    <3> QED
      BY <2>7, <3>1, <3>2, <3>3, <3>4, <3>5, <3>6, <3>7, <3>9, <3>10, <3>11 DEF Step
  <2> QED  BY <2>1, <2>2, <2>3, <2>4, <2>5, <2>6, <2>7 DEF Next, World
<1> QED  BY <1>1, <1>2, PTL DEF Spec

-----------------------------------------------------------------------------
(***************************************************************************)
(* Safety.  Settling takes a handler four steps - verify, rank, read,      *)
(* commit - and every other handler may run between them.  SafeTask says   *)
(* what a handler still knows at each of its steps; the argument is that   *)
(* nobody can take that knowledge away: closed transactions and inserted   *)
(* terms never change, and an intent that left PENDING and SUBMITTED never *)
(* comes back to them.                                                     *)
(***************************************************************************)

\* Every intent that comes before i for t is out of the running.
GaveUp(i, t) == \A j \in Ids : Outranks(j, i, t) => status[j] \notin OpenFor

SafeTask(r) ==
    /\ r.pc # "idle" => status[r.id] # "ABSENT"
    /\ r.pc \in {"rank", "transition", "commit"} /\ r.to = "SUCCEEDED" => Pays(r.id, r.tx)
    /\ r.pc \in {"transition", "commit"} /\ r.to = "SUCCEEDED" /\ Exists(r.id) =>
          GaveUp(r.id, r.tx)
    /\ r.pc = "commit" => CanTransition(r.st, r.to)
    /\ r.pc = "delete" => r.st \in Statuses \ {"SUCCEEDED"}
    /\ r.pc = "emit" =>
          status[r.id] \in (IF r.to = "SUCCEEDED" THEN {"SUCCEEDED"} ELSE {"FAILED", "DELETED"})

\* Ids are handed out in order.
InOrder == \A i, j \in Ids : j < i /\ status[i] # "ABSENT" => status[j] # "ABSENT"

\* The inductive invariant.
SafeInv ==
    /\ TypeOK
    /\ InOrder
    /\ \A w \in Workers : SafeTask(task[w])
    /\ SettledByOwnPayment
    /\ OlderRivalGaveUp
    /\ NotifiedOutcomeStands

\* What no step takes away.
Evolves ==
    /\ \A i \in Ids : status[i] # "ABSENT" => made'[i] = made[i] /\ status'[i] # "ABSENT"
    /\ \A i \in Ids : status[i] \notin OpenFor \cup {"ABSENT"} => status'[i] \notin OpenFor
    /\ \A i \in Ids : status[i] \in {"SUCCEEDED", "DELETED"} => status'[i] = status[i]
    /\ \A i \in Ids : status[i] = "FAILED" => status'[i] \in {"FAILED", "DELETED"}
    /\ Closed \subseteq Closed' /\ \A t \in Closed : ledger'[t] = ledger[t]

\* The declared graph: who may leave, and where to.
LEMMA GraphFacts ==
    ASSUME NEW from, NEW to, CanTransition(from, to)
    PROVE  /\ from \in {"PENDING", "SUBMITTED", "EXPIRED"}
           /\ to \in Statuses \ {"PENDING"}
           /\ to = "SUBMITTED" => from = "PENDING"
           /\ from = "EXPIRED" => to = "SUCCEEDED"
BY DEF CanTransition, Transitions, Statuses

\* settlementRivalsQuery's filter loses nobody: an older intent paid by the same
\* operation describes the same payment.
LEMMA FilterComplete ==
    ASSUME TypeOK, NEW i \in Ids, NEW j \in Ids, NEW t, Pays(i, t),
           Outranks(j, i, t), status[j] # "ABSENT"
    PROVE  j \in Elders(i)
<1> DEFINE tm == made[i].terms
           older == made[j].terms
           p == ledger[t].payment
<1>1. Matches(tm, p) /\ Matches(older, p)
  BY DEF Pays, Outranks, PaymentOf
<1>2. older.memo = tm.memo  BY <1>1 DEF Matches
<1>3. older.dest = tm.dest  BY DEF Outranks
<1>4. PICK o \in p.ops : o.to = tm.dest /\ tm.leg \in {Open, o.amount}
  BY <1>1 DEF Matches
<1>5. PICK q \in p.ops : q.to = older.dest /\ older.leg \in {Open, q.amount}
  BY <1>1 DEF Matches
<1>6. o = q  BY <1>3, <1>4, <1>5 DEF Outranks
<1>7. older \in Terms  BY DEF TypeOK
<1>8. older.fee = {} => older.leg = older.amount
  BY <1>7, InputsAssumption DEF TermsOK
<1>9. SamePayment(tm, older)
  BY <1>2, <1>3, <1>4, <1>5, <1>6, <1>8 DEF SamePayment
<1> QED  BY <1>9 DEF Elders, Outranks

\* assertOldestClaimant: when no rival in the query is paid, everyone who comes
\* before the intent is out of the running.
LEMMA RankedGaveUp ==
    ASSUME TypeOK, InOrder, NEW i \in Ids, NEW t, status[i] # "ABSENT", Pays(i, t),
           \A j \in Rivals(i) : ~Pays(j, t)
    PROVE  GaveUp(i, t)
<1> SUFFICES ASSUME NEW j \in Ids, Outranks(j, i, t), status[j] \in OpenFor
             PROVE  FALSE
  BY DEF GaveUp
<1> DEFINE S == {k \in Elders(i) : status[k] \in OpenFor \cup {"SUCCEEDED"}}
<1>1. status[j] # "ABSENT" /\ Pays(j, t)
  BY DEF OpenFor, Outranks
<1>2. j \in S  BY <1>1, FilterComplete
<1>3. IsFiniteSet({k \in Elders(i) : k < j})
  <2>1. IsFiniteSet(Ids)  BY FS_Interval, BoundsAssumption DEF Ids
  <2>2. {k \in Elders(i) : k < j} \subseteq Ids  BY DEF Elders
  <2> QED  BY <2>1, <2>2, FS_Subset
<1>4. Cardinality({k \in S : k < j}) <= Cardinality({k \in Elders(i) : k < j})
  <2>1. {k \in S : k < j} \subseteq {k \in Elders(i) : k < j}  OBVIOUS
  <2> QED  BY <1>3, <2>1, FS_Subset
<1>5. Cardinality({k \in Elders(i) : k < j}) < RivalsMax  BY DEF Outranks
<1>6. Cardinality({k \in S : k < j}) \in Nat /\ Cardinality({k \in Elders(i) : k < j}) \in Nat
  <2>1. {k \in S : k < j} \subseteq {k \in Elders(i) : k < j}  OBVIOUS
  <2>2. IsFiniteSet({k \in S : k < j})  BY <1>3, <2>1, FS_Subset
  <2> QED  BY <1>3, <2>2, FS_CardinalityType
<1>7. Cardinality({k \in S : k < j}) < RivalsMax
  BY <1>4, <1>5, <1>6, BoundsAssumption
<1>8. j \in Rivals(i)  BY <1>2, <1>7 DEF Rivals, Oldest
<1> QED  BY <1>1, <1>8

\* What is known of a closed transaction and an inserted intent stays known.
LEMMA Frame ==
    ASSUME TypeOK, InOrder, Evolves, NEW i \in Ids, NEW t, status[i] # "ABSENT", Pays(i, t)
    PROVE  Pays(i, t)' /\ (GaveUp(i, t) => GaveUp(i, t)')
<1>1. t \in Closed /\ t \in Closed' /\ ledger'[t] = ledger[t]
  BY DEF Pays, PaymentOf, Evolves
<1>2. Pays(i, t)'  BY <1>1 DEF Pays, PaymentOf, Evolves
<1>3. \A j \in Ids : j < i => status[j] # "ABSENT" /\ made'[j] = made[j] /\ status'[j] # "ABSENT"
  BY DEF InOrder, Evolves
<1>4. made'[i] = made[i]  BY DEF Evolves
<1>5. Elders(i)' = Elders(i)  BY <1>3, <1>4 DEF Elders
<1>6. \A j \in Ids : Outranks(j, i, t)' => Outranks(j, i, t)
  BY <1>1, <1>3, <1>4, <1>5 DEF Outranks, Pays, PaymentOf
<1>7. \A j \in Ids : Outranks(j, i, t) /\ status[j] \notin OpenFor => status'[j] \notin OpenFor
  BY <1>3 DEF Outranks, Evolves
<1> QED  BY <1>2, <1>6, <1>7 DEF GaveUp

\* What a handler knows, it still knows after any step of another.
LEMMA TaskFrame ==
    ASSUME TypeOK, TypeOK', InOrder, Evolves, NEW r, GoodTask(r), SafeTask(r)
    PROVE  SafeTask(r)'
<1>1. CASE r.pc = "idle"  BY <1>1 DEF SafeTask
<1>2. CASE r.pc # "idle"
  <2>1. r.id \in Ids /\ status[r.id] # "ABSENT" /\ status'[r.id] # "ABSENT"
    BY <1>2 DEF GoodTask, WellFormed, SafeTask, Evolves
  <2>2. Exists(r.id)' => Exists(r.id)
    BY <2>1 DEF Exists, TypeOK, Evolves, Statuses
  <2>3. r.pc \in {"rank", "transition", "commit"} /\ r.to = "SUCCEEDED" => Pays(r.id, r.tx)'
    BY <2>1, Frame DEF SafeTask
  <2>4. r.pc \in {"transition", "commit"} /\ r.to = "SUCCEEDED" /\ Exists(r.id)' =>
            GaveUp(r.id, r.tx)'
    BY <2>1, <2>2, Frame DEF SafeTask
  <2>5. r.pc = "emit" =>
          status'[r.id] \in (IF r.to = "SUCCEEDED" THEN {"SUCCEEDED"} ELSE {"FAILED", "DELETED"})
    BY <2>1 DEF SafeTask, Evolves
  <2> QED  BY <2>1, <2>3, <2>4, <2>5 DEF SafeTask
<1> QED  BY <1>1, <1>2

\* A step that only moves task w on to a task that knows enough is safe.
LEMMA GotoSafe ==
    ASSUME SafeInv, TypeOK', NEW w \in Workers, NEW r, SafeTask(r), Goto(w, r)
    PROVE  SafeInv' /\ GraphStep /\ Evolves
<1>1. UNCHANGED <<status, txHash, made, due, audit, claim, notified, ledger>>
  BY DEF Goto, row
<1>2. \A i, t : Pays(i, t)' <=> Pays(i, t)  BY <1>1 DEF Pays, PaymentOf, Closed
<1>3. \A i, t : GaveUp(i, t) => GaveUp(i, t)'
  <2>1. \A i : Elders(i)' = Elders(i)  BY <1>1 DEF Elders
  <2>2. \A j, i, t : Outranks(j, i, t)' <=> Outranks(j, i, t)
    BY <1>1, <1>2, <2>1 DEF Outranks
  <2> QED  BY <1>1, <2>2 DEF GaveUp
<1>4. ASSUME NEW x, SafeTask(x) PROVE SafeTask(x)'
  BY <1>1, <1>2, <1>3, <1>4 DEF SafeTask, Exists
<1>5. ASSUME NEW v \in Workers PROVE SafeTask(task[v])'
  <2>1. task'[v] = task[v] \/ task'[v] = r  BY DEF Goto, SafeInv, TypeOK
  <2> QED  BY <1>4, <2>1 DEF SafeInv, SafeTask
<1>6. SettledByOwnPayment' /\ OlderRivalGaveUp' /\ NotifiedOutcomeStands' /\ InOrder'
  BY <1>1 DEF SafeInv, SettledByOwnPayment, OlderRivalGaveUp, NotifiedOutcomeStands, InOrder,
              Pays, PaymentOf, Closed, Outranks, Elders
<1>7. GraphStep /\ Evolves
  BY <1>1 DEF GraphStep, Evolves, Closed
<1> QED  BY <1>5, <1>6, <1>7 DEF SafeInv

\* Idle knows nothing, and a settlement that did not happen needs nothing.
LEMMA UnsettledSafe ==
    ASSUME SafeInv, NEW w \in Workers, ~At(w, "idle")
    PROVE  SafeTask(Idle) /\ SafeTask(Unsettled(w))
<1>1. SafeTask(Idle)  BY DEF SafeTask, Idle
<1> DEFINE r == [task[w] EXCEPT !.pc = "transition", !.tx = NoTx, !.to = "EXPIRED"]
<1>2. r.pc = "transition" /\ r.to = "EXPIRED" /\ r.id = task[w].id
  BY DEF SafeInv, TypeOK, Task
<1>3. SafeTask(r)  BY <1>2 DEF SafeInv, SafeTask, At
<1> QED  BY <1>1, <1>3 DEF Unsettled

\* The steps of a handler that only read: each learns what SafeTask says.
LEMMA ReadsSafe ==
    ASSUME SafeInv, TypeOK', NEW w \in Workers,
           Abort(w) \/ Reconcile(w) \/ Verify(w) \/ Rank(w) \/ Transition(w) \/ RollBack(w)
    PROVE  SafeInv' /\ GraphStep /\ Evolves
<1>0. ~At(w, "idle")
  BY DEF Abort, Reconcile, Verify, Rank, Transition, RollBack, At
<1>1. /\ task[w] \in Task /\ task[w].id \in Ids /\ status[task[w].id] # "ABSENT"
      /\ SafeTask(task[w])
  BY <1>0, RunningType DEF SafeInv, At, SafeTask, GoodTask
<1>2. CASE Goto(w, Idle) \/ Goto(w, Unsettled(w))
  BY <1>0, <1>2, GotoSafe, UnsettledSafe
<1>3. CASE Reconcile(w)
  <2> DEFINE r == [task[w] EXCEPT !.pc = "verify"]
  <2>1. SafeTask(r)  BY <1>1 DEF SafeTask, Task
  <2> QED  BY <1>2, <1>3, <2>1, GotoSafe DEF Reconcile
<1>4. CASE Verify(w)
  <2>1. ASSUME NEW t \in Txs, Confirms(w, t),
               Goto(w, [task[w] EXCEPT !.pc = "rank", !.tx = t, !.to = "SUCCEEDED"])
        PROVE  SafeInv' /\ GraphStep /\ Evolves
    <3> DEFINE r == [task[w] EXCEPT !.pc = "rank", !.tx = t, !.to = "SUCCEEDED"]
    <3>1. r.pc = "rank" /\ r.id = task[w].id /\ r.tx = t  BY <1>1 DEF Task
    <3>2. SafeTask(r)  BY <1>1, <2>1, <3>1 DEF SafeTask, Confirms
    <3> QED  BY <2>1, <3>2, GotoSafe
  <2>2. CASE Goto(w, [task[w] EXCEPT !.pc = "transition", !.to = "FAILED"])
    <3> DEFINE r == [task[w] EXCEPT !.pc = "transition", !.to = "FAILED"]
    <3>1. SafeTask(r)  BY <1>1 DEF SafeTask, Task
    <3> QED  BY <2>2, <3>1, GotoSafe
  <2> QED  BY <1>2, <1>4, <2>1, <2>2 DEF Verify
<1>5. CASE Rank(w)
  <2> DEFINE r == [task[w] EXCEPT !.pc = "transition"]
             i == task[w].id
  <2>1. CASE Goto(w, r) /\ ~(Exists(i) /\ \E j \in Rivals(i) : Pays(j, task[w].tx))
    <3>1. task[w].pc = "rank"  BY <1>5 DEF Rank, At
    <3>2. task[w].to = "SUCCEEDED" => Pays(i, task[w].tx)  BY <1>1, <3>1 DEF SafeTask
    <3>3. task[w].to = "SUCCEEDED" /\ Exists(i) => GaveUp(i, task[w].tx)
      BY <1>1, <2>1, <3>2, RankedGaveUp DEF SafeInv
    <3>4. r.pc = "transition" /\ r.id = i /\ r.tx = task[w].tx /\ r.to = task[w].to
      BY <1>1 DEF Task
    <3>5. SafeTask(r)  BY <1>1, <3>2, <3>3, <3>4 DEF SafeTask
    <3> QED  BY <2>1, <3>5, GotoSafe
  <2> QED  BY <1>2, <1>5, <2>1 DEF Rank
<1>6. CASE Transition(w)
  <2> DEFINE hash == IF task[w].tx # NoTx THEN task[w].tx ELSE txHash[task[w].id]
             r == [task[w] EXCEPT !.pc = "commit", !.tx = hash, !.st = status[task[w].id]]
  <2>1. CASE /\ AssertTransition(status[task[w].id], task[w].to, hash, task[w].op # "api")
             /\ Goto(w, r)
    <3>1. task[w].pc = "transition"  BY <1>6 DEF Transition, At
    <3>2. /\ r.pc = "commit" /\ r.id = task[w].id /\ r.tx = hash /\ r.to = task[w].to
          /\ r.st = status[task[w].id]
      BY <1>1 DEF Task
    <3>3. task[w].to = "SUCCEEDED" => Pays(task[w].id, task[w].tx) /\ hash = task[w].tx
      BY <1>1, <3>1 DEF SafeTask, Pays, PaymentOf, Closed, NoTx, SafeInv, TypeOK
    <3>4. SafeTask(r)
      BY <1>1, <2>1, <3>1, <3>2, <3>3 DEF SafeTask, AssertTransition
    <3> QED  BY <2>1, <3>4, GotoSafe
  <2> QED  BY <1>2, <1>6, <2>1 DEF Transition
<1>7. CASE Abort(w) \/ RollBack(w)
  BY <1>2, <1>7 DEF Abort, RollBack
<1> QED  BY <1>3, <1>4, <1>5, <1>6, <1>7

\* A request or a pass of the observer starts knowing only that its row exists.
LEMMA StartsSafe ==
    ASSUME SafeInv, TypeOK', NEW w \in Workers, Call(w) \/ Observe(w)
    PROVE  SafeInv' /\ GraphStep /\ Evolves
<1>1. PICK i \in Ids :
          \/ \E t \in Txs : Validate(w, i, t) \/ SettleFromApi(w, i, t) \/ PatchTxHash(w, i, t)
          \/ \E to \in PatchTo, t \in Txs \cup {NoTx} : PatchStatus(w, i, to, t)
          \/ Remove(w, i) \/ SelectLapsed(w, i) \/ SelectPending(w, i)
  BY DEF Call, Observe
<1>2. SafeTask(Idle)  BY DEF SafeTask, Idle
<1>3. CASE \E t \in Txs : Validate(w, i, t)
  <2>1. PICK t \in Txs : Validate(w, i, t)  BY <1>3
  <2> DEFINE r == [Idle EXCEPT !.pc = "verify", !.op = "validate",
                               !.id = i, !.tx = t, !.st = status[i]]
  <2>2. Exists(i) => SafeTask(r)  BY DEF SafeTask, Idle, Exists, Statuses
  <2> QED  BY <1>2, <2>1, <2>2, GotoSafe DEF Validate
<1>4. CASE \E t \in Txs : SettleFromApi(w, i, t)
  <2>1. PICK t \in Txs : SettleFromApi(w, i, t)  BY <1>4
  <2> DEFINE r == [Idle EXCEPT !.pc = "settle", !.id = i, !.tx = t]
  <2>2. status[i] # "ABSENT"
    BY <2>1, GraphFacts DEF SettleFromApi, AssertTransition
  <2>3. SafeTask(r)  BY <2>2 DEF SafeTask, Idle
  <2> QED  BY <2>1, <2>3, GotoSafe DEF SettleFromApi
<1>5. CASE \E t \in Txs : PatchTxHash(w, i, t)
  <2>1. PICK t \in Txs : PatchTxHash(w, i, t)  BY <1>5
  <2> DEFINE r == [Idle EXCEPT !.pc = "rewrite", !.op = "api", !.id = i, !.tx = t]
             q == [Idle EXCEPT !.pc = "patch", !.op = "api", !.id = i,
                               !.tx = t, !.st = status[i]]
  <2>2. SafeTask(r) /\ SafeTask(q)
    BY <2>1 DEF SafeTask, Idle, PatchTxHash, Exists, Statuses
  <2> QED  BY <2>1, <2>2, GotoSafe DEF PatchTxHash
<1>6. CASE \E to \in PatchTo, t \in Txs \cup {NoTx} : PatchStatus(w, i, to, t)
  <2>1. PICK to \in PatchTo, t \in Txs \cup {NoTx} : PatchStatus(w, i, to, t)  BY <1>6
  <2> DEFINE r == [Idle EXCEPT !.pc = "transition", !.op = "api", !.id = i, !.tx = t, !.to = to]
  <2>2. to # "SUCCEEDED"  BY InputsAssumption
  <2>3. SafeTask(r)  BY <2>1, <2>2 DEF SafeTask, Idle, PatchStatus, Exists, Statuses
  <2> QED  BY <2>1, <2>3, GotoSafe DEF PatchStatus
<1>7. CASE Remove(w, i)
  <2> DEFINE r == [Idle EXCEPT !.pc = "delete", !.op = "api", !.id = i, !.st = status[i]]
  <2>1. SafeTask(r)  BY <1>7 DEF SafeTask, Idle, Remove, Exists, Statuses
  <2> QED  BY <1>7, <2>1, GotoSafe DEF Remove
<1>8. CASE SelectLapsed(w, i)
  <2> DEFINE r == [Idle EXCEPT !.pc = "verify", !.op = "expire",
                               !.id = i, !.tx = txHash[i], !.st = status[i]]
  <2>1. SafeTask(r)  BY <1>8 DEF SafeTask, Idle, SelectLapsed, OpenFor
  <2> QED  BY <1>8, <2>1, GotoSafe DEF SelectLapsed
<1>9. CASE SelectPending(w, i)
  <2> DEFINE r == [Idle EXCEPT !.pc = "reconcile", !.op = "reconcile",
                               !.id = i, !.tx = txHash[i], !.st = status[i]]
  <2>1. SafeTask(r)  BY <1>9 DEF SafeTask, Idle, SelectPending
  <2> QED  BY <1>9, <2>1, GotoSafe DEF SelectPending
<1> QED  BY <1>1, <1>3, <1>4, <1>5, <1>6, <1>7, <1>8, <1>9

\* A claimed transaction pays the intent that claimed it.
LEMMA ClaimPays ==
    ASSUME SafeInv, NEW t \in Txs, claim[t] # NoIntent
    PROVE  claim[t] \in Ids /\ status[claim[t]] = "SUCCEEDED" /\ Pays(claim[t], t)
<1>1. claim[t] \in Ids /\ status[claim[t]] = "SUCCEEDED"
  BY DEF SafeInv, TypeOK, SettledByOwnPayment
<1>2. PICK u \in Txs : claim[u] = claim[t] /\ Pays(claim[t], u)
  BY <1>1 DEF SafeInv, SettledByOwnPayment
<1>3. u = t  BY <1>2 DEF SafeInv, SettledByOwnPayment
<1> QED  BY <1>1, <1>2, <1>3

\* The older rivals of every earlier settlement stay out of the running.
LEMMA ClaimsFrame ==
    ASSUME SafeInv, Evolves, NEW t \in Txs, NEW i, claim[t] = i, i # NoIntent
    PROVE  i \in Ids /\ status'[i] = "SUCCEEDED" /\ Pays(i, t)' /\ GaveUp(i, t)'
<1>1. i \in Ids /\ status[i] = "SUCCEEDED" /\ Pays(i, t)  BY ClaimPays
<1>2. GaveUp(i, t)  BY DEF SafeInv, OlderRivalGaveUp, GaveUp
<1>3. status'[i] = "SUCCEEDED"  BY <1>1 DEF Evolves
<1> QED  BY <1>1, <1>2, <1>3, Frame DEF SafeInv

\* A write that claims nothing, notifies nobody and ends its task is safe.
LEMMA WriteSafe ==
    ASSUME SafeInv, TypeOK', Evolves, InOrder', UNCHANGED <<claim, notified>>,
           \A i \in Ids : status'[i] = "SUCCEEDED" => status[i] = "SUCCEEDED",
           \A v \in Workers : task'[v] = task[v] \/ task'[v] = Idle
    PROVE  SafeInv'
<1>1. ASSUME NEW v \in Workers PROVE SafeTask(task[v])'
  <2>1. GoodTask(task[v]) /\ SafeTask(task[v])  BY DEF SafeInv, TypeOK, GoodTask
  <2>2. CASE task'[v] = task[v]
    <3>1. ASSUME NEW r, r = task[v] PROVE SafeTask(r)'
      BY <2>1, <3>1, TaskFrame DEF SafeInv
    <3> QED  BY <2>2, <3>1 DEF SafeTask
  <2>3. CASE task'[v] = Idle  BY <2>3 DEF SafeTask, Idle
  <2> QED  BY <2>2, <2>3
<1>2. SettledByOwnPayment'
  <2>1. ASSUME NEW i \in Ids, status'[i] = "SUCCEEDED"
        PROVE  \E t \in Txs : claim'[t] = i /\ Pays(i, t)'
    <3>1. PICK t \in Txs : claim[t] = i  BY <2>1 DEF SafeInv, SettledByOwnPayment
    <3> QED  BY <3>1, ClaimsFrame DEF Ids, NoIntent
  <2>2. \A t \in Txs : claim'[t] # NoIntent => status'[claim'[t]] = "SUCCEEDED"
    BY ClaimsFrame
  <2>3. \A t, u \in Txs : claim'[t] # NoIntent /\ claim'[t] = claim'[u] => t = u
    BY DEF SafeInv, SettledByOwnPayment
  <2> QED  BY <2>1, <2>2, <2>3 DEF SettledByOwnPayment
<1>3. OlderRivalGaveUp'
  BY ClaimsFrame DEF OlderRivalGaveUp, GaveUp
<1>4. NotifiedOutcomeStands'
  BY DEF SafeInv, NotifiedOutcomeStands, Evolves
<1> QED  BY <1>1, <1>2, <1>3, <1>4 DEF SafeInv

\* The steps of the world: a transaction closes, time passes, a row is inserted.
LEMMA WorldSafe ==
    ASSUME SafeInv, TypeOK', World
    PROVE  SafeInv' /\ GraphStep
<1>1. ASSUME NEW p \in Payments, NEW ok \in BOOLEAN, Close(p, ok) PROVE SafeInv' /\ GraphStep
  <2>1. Closed \subseteq Closed' /\ \A t \in Closed : ledger'[t] = ledger[t]
    BY <1>1 DEF Close, Closed, SafeInv, TypeOK
  <2>2. Evolves /\ GraphStep  BY <1>1, <2>1 DEF Close, Evolves, GraphStep, row
  <2> QED  BY <1>1, <2>2, WriteSafe DEF Close, row, SafeInv, InOrder
<1>2. ASSUME NEW i \in Ids, Lapse(i) PROVE SafeInv' /\ GraphStep
  <2>1. Evolves /\ GraphStep  BY <1>2 DEF Lapse, Evolves, GraphStep, Closed
  <2> QED  BY <1>2, <2>1, WriteSafe DEF Lapse, SafeInv, InOrder
<1>3. ASSUME NEW c \in Consumers, NEW tm \in Terms, NEW born \in 0..MaxTxs, Create(c, tm, born)
      PROVE  SafeInv' /\ GraphStep
  <2>1. PICK i \in Ids :
            /\ status[i] = "ABSENT"
            /\ \A j \in Ids : j < i => status[j] # "ABSENT"
            /\ status' = [status EXCEPT ![i] = "PENDING"]
            /\ made' = [made EXCEPT ![i] = [consumer |-> c, terms |-> tm, born |-> born]]
            /\ UNCHANGED <<claim, notified, ledger, task>>
    BY <1>3 DEF Create
  <2>2. Evolves
    BY <2>1 DEF Evolves, SafeInv, TypeOK, OpenFor, Closed
  <2>3. InOrder'  BY <2>1 DEF InOrder, SafeInv, TypeOK
  <2>4. GraphStep  BY <2>1 DEF GraphStep, SafeInv, TypeOK
  <2> QED  BY <2>1, <2>2, <2>3, <2>4, WriteSafe DEF SafeInv, TypeOK
<1> QED  BY <1>1, <1>2, <1>3 DEF World

\* patchTxHash's write, the delete and the emission.
LEMMA OtherWritesSafe ==
    ASSUME SafeInv, TypeOK', NEW w \in Workers, WriteTxHash(w) \/ Delete(w) \/ Emit(w)
    PROVE  SafeInv' /\ GraphStep
<1>0. ~At(w, "idle")  BY DEF WriteTxHash, Delete, Emit, At
<1>1. GoodTask(task[w]) /\ SafeTask(task[w]) /\ task[w].id \in Ids
  BY <1>0, RunningType DEF SafeInv
<1>2. CASE WriteTxHash(w)
  <2>1. Evolves /\ GraphStep  BY <1>2 DEF WriteTxHash, Evolves, GraphStep, Closed
  <2> QED  BY <1>2, <2>1, WriteSafe DEF WriteTxHash, SafeInv, InOrder, TypeOK
<1>3. CASE Delete(w)
  <2> DEFINE i == task[w].id
  <2>1. task[w].st \in Statuses \ {"SUCCEEDED"}  BY <1>1, <1>3 DEF SafeTask, Delete, At
  <2>2. CASE Unmoved(w)
    <3>1. status[i] \in Statuses \ {"SUCCEEDED"} /\ status' = [status EXCEPT ![i] = "DELETED"]
      BY <1>3, <2>1, <2>2 DEF Delete, Unmoved
    <3>2. UNCHANGED <<made, ledger, claim, notified>>  BY <1>3 DEF Delete
    <3>3. Evolves  BY <1>1, <3>1, <3>2 DEF Evolves, SafeInv, TypeOK, OpenFor, Closed, Statuses
    <3>4. GraphStep  BY <1>1, <3>1 DEF GraphStep, Exists, SafeInv, TypeOK
    <3>5. InOrder'  BY <1>1, <3>1 DEF InOrder, SafeInv, TypeOK, Statuses
    <3>6. \A k \in Ids : status'[k] = "SUCCEEDED" => status[k] = "SUCCEEDED"
      BY <1>1, <3>1 DEF SafeInv, TypeOK
    <3> QED  BY <1>3, <3>2, <3>3, <3>4, <3>5, <3>6, WriteSafe DEF Delete, SafeInv, TypeOK
  <2>3. CASE ~Unmoved(w)
    <3>1. Evolves /\ GraphStep  BY <1>3, <2>3 DEF Delete, Evolves, GraphStep, Closed
    <3> QED  BY <1>3, <2>3, <3>1, WriteSafe DEF Delete, SafeInv, InOrder, TypeOK
  <2> QED  BY <2>2, <2>3
<1>4. CASE Emit(w)
  <2>1. UNCHANGED <<status, made, ledger, claim>>  BY <1>4 DEF Emit, row
  <2>2. Evolves /\ GraphStep  BY <2>1 DEF Evolves, GraphStep, Closed
  <2>3. NotifiedOutcomeStands'
    BY <1>1, <1>4, <2>1 DEF Emit, At, SafeTask, SafeInv, TypeOK, NotifiedOutcomeStands
  <2>4. SettledByOwnPayment' /\ OlderRivalGaveUp' /\ InOrder'
    BY <2>1 DEF SafeInv, SettledByOwnPayment, OlderRivalGaveUp, InOrder,
                Pays, PaymentOf, Closed, Outranks, Elders
  <2>5. ASSUME NEW v \in Workers PROVE SafeTask(task[v])'
    <3>1. GoodTask(task[v]) /\ SafeTask(task[v])  BY DEF SafeInv, TypeOK, GoodTask
    <3>2. ASSUME NEW r, r = task[v] PROVE SafeTask(r)'
      BY <2>2, <3>1, <3>2, TaskFrame DEF SafeInv
    <3>3. task'[v] = task[v] \/ task'[v] = Idle  BY <1>4 DEF Emit, SafeInv, TypeOK
    <3> QED  BY <3>2, <3>3 DEF SafeTask, Idle
  <2> QED  BY <2>2, <2>3, <2>4, <2>5 DEF SafeInv
<1> QED  BY <1>2, <1>3, <1>4

\* The settlement itself.
LEMMA CommitSafe ==
    ASSUME SafeInv, TypeOK', NEW w \in Workers, Commit(w)
    PROVE  SafeInv' /\ GraphStep
<1> DEFINE i == task[w].id
           t == task[w].tx
           to == task[w].to
<1>1. GoodTask(task[w]) /\ SafeTask(task[w]) /\ i \in Ids
  <2>1. ~At(w, "idle")  BY DEF Commit, At
  <2> QED  BY <2>1, RunningType DEF SafeInv
<1>2. CanTransition(status[i], to)
  BY <1>1 DEF Commit, At, Unmoved, SafeTask
<1>3. /\ status[i] \in {"PENDING", "SUBMITTED", "EXPIRED"}
      /\ to \in Statuses \ {"PENDING"}
      /\ to = "SUBMITTED" => status[i] = "PENDING"
      /\ status[i] = "EXPIRED" => to = "SUCCEEDED"
  BY <1>2, GraphFacts
<1>4. status' = [status EXCEPT ![i] = to] /\ UNCHANGED <<made, ledger, notified>>
  BY DEF Commit
<1>5. Evolves
  <2>1. Closed' = Closed  BY <1>4 DEF Closed
  <2>2. \A k \in Ids : status[k] # "ABSENT" => made'[k] = made[k] /\ status'[k] # "ABSENT"
    BY <1>1, <1>3, <1>4 DEF SafeInv, TypeOK, Statuses
  <2>3. \A k \in Ids : status[k] \notin OpenFor \cup {"ABSENT"} => status'[k] \notin OpenFor
    BY <1>1, <1>3, <1>4 DEF SafeInv, TypeOK, OpenFor
  <2> QED  BY <1>1, <1>3, <1>4, <2>1, <2>2, <2>3 DEF Evolves, SafeInv, TypeOK
<1>6. GraphStep  BY <1>1, <1>2, <1>4 DEF GraphStep, SafeInv, TypeOK
<1>7. InOrder'
  <2>1. \A k \in Ids : status[k] # "ABSENT" => status'[k] # "ABSENT"  BY <1>5 DEF Evolves
  <2>2. \A k \in Ids : status'[k] # "ABSENT" => status[k] # "ABSENT"
    BY <1>1, <1>3, <1>4 DEF SafeInv, TypeOK
  <2> QED  BY <2>1, <2>2 DEF InOrder, SafeInv
<1>8. NotifiedOutcomeStands'
  BY <1>1, <1>3, <1>4 DEF SafeInv, TypeOK, NotifiedOutcomeStands
<1>9. to = "SUCCEEDED" => Pays(i, t) /\ GaveUp(i, t) /\ t \in Txs
  BY <1>1, <1>3 DEF SafeTask, Commit, At, Exists, Statuses, GoodTask, WellFormed
<1>10. to = "SUCCEEDED" =>
         /\ claim[t] = NoIntent /\ claim' = [claim EXCEPT ![t] = i]
         /\ \A u \in Txs : claim[u] # i
  BY <1>1, <1>3 DEF Commit, Claimable, SafeInv, SettledByOwnPayment, Ids, NoIntent
<1>11. to # "SUCCEEDED" => claim' = claim  BY DEF Commit
<1>12. to = "SUCCEEDED" => \A k \in Ids, u \in Txs : k = i /\ u = t => Pays(k, u)' /\ GaveUp(k, u)'
  BY <1>1, <1>3, <1>5, <1>9, Frame DEF SafeInv
<1>13. SettledByOwnPayment'
  <2>1. ASSUME NEW k \in Ids, status'[k] = "SUCCEEDED"
        PROVE  \E u \in Txs : claim'[u] = k /\ Pays(k, u)'
    <3>1. CASE status[k] = "SUCCEEDED"
      <4>1. PICK u \in Txs : claim[u] = k  BY <3>1 DEF SafeInv, SettledByOwnPayment
      <4>2. claim'[u] = k  BY <4>1, <1>10, <1>11 DEF SafeInv, TypeOK, Ids, NoIntent
      <4> QED  BY <4>1, <4>2, <1>5, ClaimsFrame DEF Ids, NoIntent
    <3>2. CASE status[k] # "SUCCEEDED"
      <4>1. k = i /\ to = "SUCCEEDED"  BY <2>1, <3>2, <1>1, <1>4 DEF SafeInv, TypeOK
      <4> QED  BY <4>1, <1>9, <1>10, <1>12 DEF SafeInv, TypeOK
    <3> QED  BY <3>1, <3>2
  <2>2. ASSUME NEW u \in Txs, claim'[u] # NoIntent PROVE status'[claim'[u]] = "SUCCEEDED"
    <3>1. CASE to = "SUCCEEDED" /\ u = t
      BY <3>1, <1>1, <1>4, <1>9, <1>10 DEF SafeInv, TypeOK
    <3>2. CASE claim'[u] = claim[u]
      BY <2>2, <3>2, <1>5, ClaimsFrame
    <3> QED  BY <3>1, <3>2, <1>10, <1>11 DEF SafeInv, TypeOK
  <2>3. \A u, x \in Txs : claim'[u] # NoIntent /\ claim'[u] = claim'[x] => u = x
    <3>1. CASE to # "SUCCEEDED"
      BY <3>1, <1>11 DEF SafeInv, SettledByOwnPayment
    <3>2. CASE to = "SUCCEEDED"
      <4>1. \A u \in Txs : claim'[u] = IF u = t THEN i ELSE claim[u]
        BY <3>2, <1>10 DEF SafeInv, TypeOK
      <4> QED  BY <3>2, <4>1, <1>10 DEF SafeInv, SettledByOwnPayment
    <3> QED  BY <3>1, <3>2
  <2> QED  BY <2>1, <2>2, <2>3 DEF SettledByOwnPayment
<1>14. OlderRivalGaveUp'
  <2>1. ASSUME NEW u \in Txs, NEW k, k = claim'[u], k # NoIntent PROVE GaveUp(k, u)'
    <3>1. CASE to = "SUCCEEDED" /\ u = t
      BY <2>1, <3>1, <1>1, <1>9, <1>10, <1>12 DEF SafeInv, TypeOK
    <3>2. CASE claim'[u] = claim[u]
      BY <2>1, <3>2, <1>5, ClaimsFrame
    <3> QED  BY <3>1, <3>2, <1>10, <1>11 DEF SafeInv, TypeOK
  <2> QED  BY <2>1 DEF OlderRivalGaveUp, GaveUp
<1>15. ASSUME NEW v \in Workers PROVE SafeTask(task[v])'
  <2>1. CASE v # w
    <3>1. GoodTask(task[v]) /\ SafeTask(task[v])  BY DEF SafeInv, TypeOK, GoodTask
    <3>2. ASSUME NEW r, r = task[v] PROVE SafeTask(r)'
      BY <1>5, <3>1, <3>2, TaskFrame DEF SafeInv
    <3>3. task'[v] = task[v]  BY <2>1 DEF Commit, SafeInv, TypeOK
    <3> QED  BY <3>2, <3>3 DEF SafeTask
  <2>2. CASE v = w /\ to \in TerminalEvents
    <3>1. /\ task'[w].pc = "emit" /\ task'[w].id = i /\ task'[w].to = to
      BY <1>1, <2>2 DEF Commit, SafeInv, TypeOK, GoodTask, Task
    <3>2. status'[i] = to  BY <1>1, <1>4 DEF SafeInv, TypeOK
    <3> QED  BY <1>3, <2>2, <3>1, <3>2 DEF SafeTask, TerminalEvents
  <2>3. CASE v = w /\ to \notin TerminalEvents
    <3>1. task'[w] = Idle  BY <2>3 DEF Commit, SafeInv, TypeOK
    <3> QED  BY <2>3, <3>1 DEF SafeTask, Idle
  <2> QED  BY <2>1, <2>2, <2>3
<1> QED  BY <1>6, <1>7, <1>8, <1>13, <1>14, <1>15 DEF SafeInv

\* Every step keeps the invariant and moves along the graph.
LEMMA StepSafe ==
    ASSUME SafeInv, TypeOK', [Next]_vars
    PROVE  SafeInv' /\ [GraphStep]_vars
<1>1. CASE UNCHANGED vars
  <2>1. UNCHANGED <<status, made, ledger, claim, notified, task>>
    BY <1>1 DEF vars, row
  <2>2. Evolves  BY <2>1 DEF Evolves, Closed
  <2> QED  BY <1>1, <2>1, <2>2, WriteSafe DEF SafeInv, InOrder
<1>2. CASE World  BY <1>2, WorldSafe
<1>3. ASSUME NEW w \in Workers, Call(w) \/ Observe(w) PROVE SafeInv' /\ GraphStep
  BY <1>3, StartsSafe
<1>4. ASSUME NEW w \in Workers, Step(w) \/ Abort(w) PROVE SafeInv' /\ GraphStep
  BY <1>4, ReadsSafe, OtherWritesSafe, CommitSafe DEF Step
<1> QED  BY <1>1, <1>2, <1>3, <1>4 DEF Next, Workers

\* No handler has run, nothing is settled.
LEMMA InitSafe == Init /\ TypeOK => SafeInv
BY DEF Init, SafeInv, InOrder, SafeTask, Idle, SettledByOwnPayment, OlderRivalGaveUp,
       NotifiedOutcomeStands, NoIntent

\* SafeInv holds in every reachable state, on any number of intents,
\* transactions and concurrent handlers.
THEOREM SafetyInvariant == Spec => []SafeInv
<1>1. Init /\ TypeOK => SafeInv  BY InitSafe
<1>2. SafeInv /\ TypeOK' /\ [Next]_vars => SafeInv'  BY StepSafe
<1> QED  BY <1>1, <1>2, TypeCorrect, PTL DEF Spec

\* One payment settles at most one intent, and an intent settles only on a
\* payment of its own that the chain confirmed (markSucceeded, claimSettlement).
THEOREM SettlementSound == Spec => []SettledByOwnPayment
<1>1. SafeInv => SettledByOwnPayment  BY DEF SafeInv
<1> QED  BY <1>1, SafetyInvariant, PTL

\* assertOldestClaimant keeps its promise without a lock: a payment never goes
\* to a younger intent while one that comes before it is open.
THEOREM OldestWins == Spec => []OlderRivalGaveUp
<1>1. SafeInv => OlderRivalGaveUp  BY DEF SafeInv
<1> QED  BY <1>1, SafetyInvariant, PTL

\* A claimed terminal event always describes the intent's final outcome.
THEOREM NotificationsTruthful == Spec => []NotifiedOutcomeStands
<1>1. SafeInv => NotifiedOutcomeStands  BY DEF SafeInv
<1> QED  BY <1>1, SafetyInvariant, PTL

\* Whatever the handlers read, the statuses they write follow the declared
\* graph, and a paid intent is never deleted.
THEOREM GraphRespected == Spec => StatusFollowsGraph
<1>1. SafeInv /\ TypeOK' /\ [Next]_vars => [GraphStep]_vars  BY StepSafe
<1> QED  BY <1>1, SafetyInvariant, TypeCorrect, PTL DEF Spec, StatusFollowsGraph
=============================================================================
