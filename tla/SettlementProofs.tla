-------------------------- MODULE SettlementProofs --------------------------
(***************************************************************************)
(* What Settlement guarantees for any number of rows, relays and sweepers, *)
(* any cap on resubmissions and any batch size.                            *)
(***************************************************************************)
EXTENDS Settlement, TLAPS

\* The type invariant of everything but the handlers.
StateOK ==
    /\ status \in [Rows -> Statuses \cup {"ABSENT"}]
    /\ epoch \in [Rows -> Nat]
    /\ lapsed \in SUBSET Rows
    /\ basis \in SUBSET Deposits
    /\ chain \in [Rows -> {"none", "succeeded", "failed"}]
    /\ ingested \in SUBSET Rows
    /\ notified \in [Rows -> SUBSET ({"SUCCEEDED", "FAILED"} \X Nat)]
    /\ lagged \in SUBSET Rows

\* What Horizon could not show when the row's deadline passed is remembered.
LagKnown(r) ==
    r \in lapsed /\ chain[r] # "none" /\ r \notin ingested => r \in lagged

NeverLanded(r) == r \in lapsed /\ (chain[r] = "none" \/ r \in lagged)

RowSafe(r) ==
    /\ status[r] = "SUCCEEDED" => chain[r] = "succeeded"
    /\ r \in basis => status[r] = "SUCCEEDED"
    /\ status[r] = "EXPIRED" => NeverLanded(r)
    /\ LagKnown(r)
    /\ epoch[r] <= MaxResubmits
    /\ \A k \in notified[r] :
          /\ k[2] <= epoch[r]
          /\ k[1] = "SUCCEEDED" => status[r] = "SUCCEEDED" /\ k[2] = epoch[r]

\* What a handler has established by the time it reaches each of its steps.
Good(t) ==
    /\ t \in Task
    /\ t.pc # "idle" => t.id \in Rows
    /\ t.pc \in {"reread", "emit"} => t.to # "none"
    /\ t.pc = "succeed" => chain[t.id] = "succeeded"
    /\ t.pc = "look" /\ t.flag => t.id \in lapsed
    /\ t.pc = "expire" => NeverLanded(t.id)
    /\ t.pc \in {"reread", "emit"} /\ t.to = "SUCCEEDED" => status[t.id] = "SUCCEEDED"
    /\ t.pc = "emit" => t.ep <= epoch[t.id]
    /\ t.pc = "emit" /\ t.to = "SUCCEEDED" => t.ep = epoch[t.id]

\* The inductive invariant: every row is safe because every handler about to
\* write has established, and nobody can take away, what its write needs.
Inv ==
    /\ StateOK
    /\ \A r \in Rows : RowSafe(r)
    /\ task \in [Workers -> Task]
    /\ \A w \in Workers : Good(task[w])

\* What no step takes away from another handler.
Kept ==
    /\ lapsed \subseteq lapsed' /\ lagged \subseteq lagged'
    /\ \A r \in Rows :
          /\ chain[r] # "none" \/ r \in lapsed => chain'[r] = chain[r]
          /\ epoch[r] <= epoch'[r]
          /\ status[r] = "SUCCEEDED" => status'[r] = "SUCCEEDED" /\ epoch'[r] = epoch[r]

-----------------------------------------------------------------------------
\* The initial states are safe.
LEMMA InitInv == Init => Inv
BY SettlementBounds, SMT
   DEF Init, Inv, StateOK, Task, Idle, RowSafe, Good, LagKnown, NeverLanded, Rows, Workers,
       Statuses

\* An idle handler needs nothing.
LEMMA IdleGood == Good(Idle) /\ Good(Idle)'
BY SMT DEF Good, Idle, Task

\* A handler's knowledge survives the steps of the others.
LEMMA GoodKept ==
    ASSUME StateOK, StateOK', Kept, NEW t, Good(t)
    PROVE  Good(t)'
<1>1. CASE t.pc = "idle"  BY <1>1 DEF Good, Task
<1>2. CASE t.pc # "idle"
  <2>1. t \in Task /\ t.id \in Rows /\ t.ep \in Nat  BY <1>2 DEF Good, Task
  <2>2. epoch[t.id] \in Nat /\ epoch'[t.id] \in Nat  BY <2>1 DEF StateOK
  <2>3. t.pc = "expire" => NeverLanded(t.id)'
    BY <2>1 DEF Good, NeverLanded, Kept
  <2> QED  BY <2>1, <2>2, <2>3, <1>2 DEF Good, Kept
<1> QED  BY <1>1, <1>2

\* A step that leaves the rows safe and moves one handler to a good task keeps
\* the invariant.
LEMMA MoveInv ==
    ASSUME Inv, StateOK', \A r \in Rows : RowSafe(r)', Kept,
           NEW w \in Workers, NEW t, Step(w, t), Good(t)'
    PROVE  Inv'
<1>1. task' = [task EXCEPT ![w] = t]  BY DEF Step
<1>2. t \in Task  BY DEF Good
<1>3. task' \in [Workers -> Task]  BY <1>1, <1>2 DEF Inv
<1>4. ASSUME NEW x, Good(x) PROVE Good(x)'  BY <1>4, GoodKept DEF Inv
<1>5. ASSUME NEW v \in Workers PROVE Good(task[v])'
  <2>1. task'[v] = task[v] \/ task'[v] = t  BY <1>1 DEF Inv
  <2> QED  BY <1>4, <2>1 DEF Inv, Good, NeverLanded
<1> QED  BY <1>3, <1>5 DEF Inv

\* A step that writes nothing and moves one handler to a good task keeps it too.
LEMMA ReadInv ==
    ASSUME Inv, UNCHANGED <<row, world, notified, lagged>>,
           NEW w \in Workers, NEW t, Step(w, t), Good(t)
    PROVE  Inv'
<1>1. UNCHANGED <<status, epoch, lapsed, basis, chain, ingested, notified, lagged>>
  BY DEF row, world
<1>2. StateOK'  BY <1>1 DEF Inv, StateOK
<1>3. \A r \in Rows : RowSafe(r)'  BY <1>1 DEF Inv, RowSafe, NeverLanded, LagKnown
<1>4. Kept  BY <1>1 DEF Kept, Inv, StateOK
<1>5. Good(t)'  BY <1>2, <1>4, GoodKept DEF Inv
<1> QED  BY <1>2, <1>3, <1>4, <1>5, MoveInv

\* What is known of a handler that is not idle.
LEMMA Running ==
    ASSUME Inv, NEW w \in Workers, ~At(w, "idle")
    PROVE  /\ task[w] \in Task /\ task[w].id \in Rows /\ Good(task[w])
           /\ RowSafe(task[w].id)
BY DEF Inv, Good, At

-----------------------------------------------------------------------------
\* The customer, the network and the clock: a landed transaction stays landed, and
\* none lands after its deadline.
LEMMA WorldInv ==
    ASSUME Inv, NEW r \in Rows, NEW result \in {"succeeded", "failed"},
           Create(r) \/ Ingest(r) \/ Lapse(r) \/ Land(r, result)
    PROVE  Inv'
<1> USE DEF Inv, StateOK, Create, Ingest, Lapse, Land, CanLand, row, world, Statuses
<1>1. StateOK'  OBVIOUS
<1>2. \A q \in Rows : RowSafe(q)'  BY DEF RowSafe, NeverLanded, LagKnown
<1>3. Kept  BY DEF Kept
<1>4. ASSUME NEW x, Good(x) PROVE Good(x)'  BY <1>1, <1>3, <1>4, GoodKept
<1>5. task' = task  OBVIOUS
<1> QED  BY <1>1, <1>2, <1>4, <1>5 DEF Good, NeverLanded

\* A handler that starts, or gives up, has nothing to show yet.
LEMMA StartInv ==
    ASSUME Inv, NEW r \in Rows, NEW w \in Workers,
           \/ Submit(w, r) \/ Reconcile(w, r) \/ Heal(w, r) \/ BackfillDepositBasis(w, r)
           \/ Abort(w)
    PROVE  Inv'
<1>1. CASE Submit(w, r)
  <2> DEFINE t == [Idle EXCEPT !.pc = "resend", !.op = "relay", !.id = r]
  <2>1. Good(t)  BY DEF Good, Idle, Task
  <2> QED  BY <1>1, <2>1, ReadInv DEF Submit
<1>2. CASE Reconcile(w, r)
  <2> DEFINE t(f) == [Idle EXCEPT !.pc = "look", !.op = "reconcile", !.id = r, !.flag = f]
  <2>1. \A f \in BOOLEAN : t(f) \in Task /\ t(f).pc = "look" /\ t(f).id = r /\ t(f).flag = f
    BY DEF Idle, Task
  <2>2. (r \in lapsed) \in BOOLEAN  OBVIOUS
  <2>3. Good(t(r \in lapsed))  BY <2>1, <2>2, Zenon DEF Good
  <2> QED  BY <1>2, <2>3, ReadInv DEF Reconcile
<1>3. CASE Heal(w, r)
  <2> DEFINE t == [Idle EXCEPT !.pc = "look", !.op = "heal", !.id = r]
  <2>1. Good(t)  BY DEF Good, Idle, Task
  <2> QED  BY <1>3, <2>1, ReadInv DEF Heal
<1>4. CASE BackfillDepositBasis(w, r)
  <2> DEFINE t == [Idle EXCEPT !.pc = "basis", !.op = "backfill", !.id = r]
  <2>1. Good(t)  BY DEF Good, Idle, Task
  <2> QED  BY <1>4, <2>1, ReadInv DEF BackfillDepositBasis
<1>5. CASE Abort(w)
  BY <1>5, IdleGood, ReadInv DEF Abort, Done
<1> QED  BY <1>1, <1>2, <1>3, <1>4, <1>5

\* The relay's own steps: a confirmed broadcast is on the ledger, and a rejected one
\* settles only on the ledger's word.
LEMMA RelayInv ==
    ASSUME Inv, NEW w \in Workers,
           \/ Resend(w) \/ Mark(w) \/ Marked(w)
           \/ Confirmed(w) \/ Rejected(w) \/ SettleRejected(w)
    PROVE  Inv'
<1>0. ~At(w, "idle")
  BY DEF Resend, Mark, Marked, Confirmed, Rejected, SettleRejected, At
<1>r. /\ task[w] \in Task /\ task[w].id \in Rows /\ Good(task[w])
      /\ RowSafe(task[w].id)
  BY <1>0, Running
<1>1. CASE Resend(w)
  <2> USE <1>1 DEF Resend, CanResend, Goto, Step, At
  <2>1. PICK t : t = [task[w] EXCEPT !.pc = IF CanResend(task[w].id) THEN "marked" ELSE "mark"]  OBVIOUS
  <2>2. t \in Task /\ t.id = task[w].id /\ t.pc \in {"marked", "mark"}
    BY <1>r, <2>1 DEF Task
  <2>3. Step(w, t)  BY <2>1
  <2>4. StateOK'  BY <1>r DEF Inv, StateOK, row, world, Statuses
  <2>5. \A r \in Rows : RowSafe(r)'
    BY <1>r, SettlementBounds DEF RowSafe, NeverLanded, LagKnown, Good, Inv, StateOK, row, world, Statuses
  <2>6. Kept  BY <1>r DEF Kept, RowSafe, Inv, StateOK, row, world, Statuses
  <2>7. Good(t)'  BY <1>r, <2>2, <2>6 DEF Good, NeverLanded, RowSafe, LagKnown, Inv, StateOK, row, world, Statuses
  <2> QED  BY <2>3, <2>4, <2>5, <2>6, <2>7, MoveInv
<1>2. CASE Mark(w)
  <2> USE <1>2 DEF Mark, Goto, Step, At
  <2>1. PICK t : t = [task[w] EXCEPT !.pc = "marked"]  OBVIOUS
  <2>2. t \in Task /\ t.id = task[w].id /\ t.pc = "marked"
    BY <1>r, <2>1 DEF Task
  <2>3. Step(w, t)  BY <2>1
  <2>4. StateOK'  BY <1>r DEF Inv, StateOK, row, world, Statuses
  <2>5. \A r \in Rows : RowSafe(r)'
    BY <1>r, SettlementBounds DEF RowSafe, NeverLanded, LagKnown, Good, Inv, StateOK, row, world, Statuses
  <2>6. Kept  BY <1>r DEF Kept, RowSafe, Inv, StateOK, row, world, Statuses
  <2>7. Good(t)'  BY <1>r, <2>2, <2>6 DEF Good, NeverLanded, RowSafe, LagKnown, Inv, StateOK, row, world, Statuses
  <2> QED  BY <2>3, <2>4, <2>5, <2>6, <2>7, MoveInv
<1>3. CASE Marked(w)
  <2>1. Good([task[w] EXCEPT !.pc = "broadcast"])  BY <1>r DEF Good, Task
  <2> QED  BY <1>3, <2>1, IdleGood, ReadInv DEF Marked, Goto, Done
<1>4. CASE Confirmed(w)
  <2> USE <1>4 DEF Confirmed, CanLand, Goto, Step, At
  <2>1. PICK t : t = [task[w] EXCEPT !.pc = "succeed"]  OBVIOUS
  <2>2. t \in Task /\ t.id = task[w].id /\ t.pc = "succeed"
    BY <1>r, <2>1 DEF Task
  <2>3. Step(w, t)  BY <2>1
  <2>4. StateOK'  BY <1>r DEF Inv, StateOK, row, world, Statuses
  <2>5. \A r \in Rows : RowSafe(r)'
    BY <1>r, SettlementBounds DEF RowSafe, NeverLanded, LagKnown, Good, Inv, StateOK, row, world, Statuses
  <2>6. Kept  BY <1>r DEF Kept, RowSafe, Inv, StateOK, row, world, Statuses
  <2>7. Good(t)'  BY <1>r, <2>2, <2>6 DEF Good, NeverLanded, RowSafe, LagKnown, Inv, StateOK, row, world, Statuses
  <2> QED  BY <2>3, <2>4, <2>5, <2>6, <2>7, MoveInv
<1>5. CASE Rejected(w)
  <2>1. PICK f \in BOOLEAN : Step(w, [task[w] EXCEPT !.pc = "rejected", !.flag = f])
    BY <1>5 DEF Rejected
  <2>2. PICK t : t = [task[w] EXCEPT !.pc = "rejected", !.flag = f]  OBVIOUS
  <2>3. t \in Task /\ t.id = task[w].id /\ t.pc = "rejected"  BY <1>r, <2>2 DEF Task
  <2> USE <1>5 DEF Rejected, CanLand
  <2>4. StateOK'  BY <1>r DEF Inv, StateOK, row, world
  <2>5. \A r \in Rows : RowSafe(r)'
    BY <1>r DEF RowSafe, NeverLanded, LagKnown, Inv, StateOK, row, world
  <2>6. Kept  BY <1>r DEF Kept, Inv, StateOK, row, world
  <2>7. Good(t)'  BY <1>r, <2>3 DEF Good
  <2> QED  BY <2>1, <2>2, <2>4, <2>5, <2>6, <2>7, MoveInv
<1>6. CASE SettleRejected(w)
  <2>1. PICK v \in Verdicts(task[w].id) :
            LET pc == AfterRejection(v, task[w].flag)
            IN  IF pc = "idle" THEN Done(w) ELSE Goto(w, pc)
    BY <1>6 DEF SettleRejected
  <2> DEFINE pc == AfterRejection(v, task[w].flag)
             t == [task[w] EXCEPT !.pc = pc]
  <2>2. pc \in {"succeed", "idle", "fail"}  BY DEF AfterRejection
  <2>3. pc = "succeed" => chain[task[w].id] = "succeeded"
    BY DEF AfterRejection, Verdicts
  <2>4. Good(t)  BY <1>r, <2>2, <2>3 DEF Good, Task
  <2> QED  BY <1>6, <2>1, <2>4, IdleGood, ReadInv DEF SettleRejected, Done, Goto
<1> QED  BY <1>1, <1>2, <1>3, <1>4, <1>5, <1>6

\* The observer's lookup: only a success on the ledger settles, and only a 404 after
\* the deadline expires.
LEMMA LookInv ==
    ASSUME Inv, NEW w \in Workers, NEW v \in Lookups, Look(w, v)
    PROVE  Inv'
<1> DEFINE pc == Outcome(task[w].op, v, task[w].flag)
           t == [task[w] EXCEPT !.pc = pc]
<1>r. /\ task[w] \in Task /\ task[w].id \in Rows /\ Good(task[w])
      /\ RowSafe(task[w].id)
  BY Running DEF Look, At
<1>1. pc \in {"succeed", "fail", "expire", "idle"}  BY DEF Outcome
<1>2. pc = "succeed" => chain[task[w].id] = "succeeded"
  BY DEF Outcome, Look, Verdicts
<1>3. pc = "expire" => NeverLanded(task[w].id)
  <2>1. SUFFICES ASSUME pc = "expire" PROVE NeverLanded(task[w].id)  OBVIOUS
  <2>2. v = "absent" /\ task[w].flag  BY <2>1 DEF Outcome
  <2>3. task[w].id \in lapsed  BY <1>r, <2>2 DEF Good, Look, At
  <2>4. chain[task[w].id] \in {"none", "succeeded", "failed"}  BY <1>r DEF Inv, StateOK
  <2>5. task[w].id \notin ingested  BY <2>2, <2>4 DEF Look, Verdicts
  <2> QED  BY <1>r, <2>3, <2>5 DEF NeverLanded, RowSafe, LagKnown
<1>4. Good(t)  BY <1>r, <1>1, <1>2, <1>3 DEF Good, Task
<1> QED  BY <1>4, IdleGood, ReadInv DEF Look, Done, Goto

\* The compare-and-swaps and what follows them.
LEMMA FinalizeInv ==
    ASSUME Inv, NEW w \in Workers,
           \/ FinalizeSucceeded(w) \/ FinalizeFailed(w) \/ FinalizeExpired(w)
           \/ Reread(w) \/ Emit(w) \/ CaptureDepositBasis(w)
    PROVE  Inv'
<1>0. ~At(w, "idle")
  BY DEF FinalizeSucceeded, FinalizeFailed, FinalizeExpired, Reread, Emit,
         CaptureDepositBasis, At
<1>r. /\ task[w] \in Task /\ task[w].id \in Rows /\ Good(task[w])
      /\ RowSafe(task[w].id)
  BY <1>0, Running
<1>1. CASE FinalizeSucceeded(w) /\ status[task[w].id] \in CanSucceed
  <2> USE <1>1 DEF FinalizeSucceeded, CanSucceed, Step, At
  <2>1. PICK t : t = [task[w] EXCEPT !.pc = "reread", !.to = "SUCCEEDED"]  OBVIOUS
  <2>2. t \in Task /\ t.id = task[w].id /\ t.pc = "reread" /\ t.to = "SUCCEEDED"
    BY <1>r, <2>1 DEF Task
  <2>3. Step(w, t)  BY <2>1
  <2>4. StateOK'  BY <1>r DEF Inv, StateOK, row, world, Statuses
  <2>5. \A r \in Rows : RowSafe(r)'
    BY <1>r, SettlementBounds DEF RowSafe, NeverLanded, LagKnown, Good, Inv, StateOK, row, world, Statuses
  <2>6. Kept  BY <1>r DEF Kept, RowSafe, Inv, StateOK, row, world, Statuses
  <2>7. Good(t)'  BY <1>r, <2>2, <2>6 DEF Good, NeverLanded, RowSafe, LagKnown, Inv, StateOK, row, world, Statuses
  <2> QED  BY <2>3, <2>4, <2>5, <2>6, <2>7, MoveInv
<1>2. CASE FinalizeSucceeded(w) /\ status[task[w].id] \notin CanSucceed
  <2>1. Good([task[w] EXCEPT !.pc = "basis"])  BY <1>r DEF Good, Task
  <2> QED  BY <1>2, <2>1, ReadInv DEF FinalizeSucceeded, Goto, row
<1>3. CASE FinalizeFailed(w) /\ status[task[w].id] \in InFlight
  <2> USE <1>3 DEF FinalizeFailed, InFlight, Step, At
  <2>1. PICK t : t = [task[w] EXCEPT !.pc = "reread", !.to = "FAILED"]  OBVIOUS
  <2>2. t \in Task /\ t.id = task[w].id /\ t.pc = "reread" /\ t.to = "FAILED"
    BY <1>r, <2>1 DEF Task
  <2>3. Step(w, t)  BY <2>1
  <2>4. StateOK'  BY <1>r DEF Inv, StateOK, row, world, Statuses
  <2>5. \A r \in Rows : RowSafe(r)'
    BY <1>r, SettlementBounds DEF RowSafe, NeverLanded, LagKnown, Good, Inv, StateOK, row, world, Statuses
  <2>6. Kept  BY <1>r DEF Kept, RowSafe, Inv, StateOK, row, world, Statuses
  <2>7. Good(t)'  BY <1>r, <2>2, <2>6 DEF Good, NeverLanded, RowSafe, LagKnown, Inv, StateOK, row, world, Statuses
  <2> QED  BY <2>3, <2>4, <2>5, <2>6, <2>7, MoveInv
<1>4. CASE FinalizeFailed(w) /\ status[task[w].id] \notin InFlight
  BY <1>4, IdleGood, ReadInv DEF FinalizeFailed, Done, row
<1>5. CASE FinalizeExpired(w)
  <2> USE <1>5 DEF FinalizeExpired, InFlight, Done, Step, At
  <2>1. PICK t : t = Idle  OBVIOUS
  <2>2. t = Idle
    BY <1>r, <2>1 DEF Task
  <2>3. Step(w, t)  BY <2>1
  <2>4. StateOK'  BY <1>r DEF Inv, StateOK, row, world, Statuses
  <2>5. \A r \in Rows : RowSafe(r)'
    BY <1>r, SettlementBounds DEF RowSafe, NeverLanded, LagKnown, Good, Inv, StateOK, row, world, Statuses
  <2>6. Kept  BY <1>r DEF Kept, RowSafe, Inv, StateOK, row, world, Statuses
  <2>7. Good(t)'  BY <2>2, IdleGood
  <2> QED  BY <2>3, <2>4, <2>5, <2>6, <2>7, MoveInv
<1>6. CASE Reread(w)
  <2> DEFINE t == [task[w] EXCEPT !.pc = "emit", !.ep = epoch[task[w].id]]
  <2>1. epoch[task[w].id] \in Nat  BY <1>r DEF Inv, StateOK
  <2>2. t \in Task /\ t.pc = "emit" /\ t.id = task[w].id /\ t.to = task[w].to
        /\ t.ep = epoch[task[w].id]
    BY <1>r, <2>1 DEF Task
  <2>3. Good(t)  BY <1>r, <1>6, <2>1, <2>2 DEF Good, Reread, At
  <2> QED  BY <1>6, <2>3, ReadInv DEF Reread
<1>7. CASE Emit(w)
  <2> DEFINE i == task[w].id
             k == <<task[w].to, task[w].ep>>
  <2>1. PICK t : /\ Step(w, t)
                 /\ t = IF task[w].to = "SUCCEEDED" THEN [task[w] EXCEPT !.pc = "basis"] ELSE Idle
    BY <1>7 DEF Emit, Goto, Done
  <2>2. task[w].pc = "emit"  BY <1>7 DEF Emit, At
  <2>3. /\ task[w].to \in {"SUCCEEDED", "FAILED"} /\ task[w].ep \in Nat
        /\ task[w].ep <= epoch[i]
        /\ task[w].to = "SUCCEEDED" => status[i] = "SUCCEEDED" /\ task[w].ep = epoch[i]
    <3>1. task[w].to \in {"none", "SUCCEEDED", "FAILED"} /\ task[w].ep \in Nat
      BY <1>r DEF Task
    <3>2. /\ task[w].to # "none" /\ task[w].ep <= epoch[i]
          /\ task[w].to = "SUCCEEDED" => status[i] = "SUCCEEDED" /\ task[w].ep = epoch[i]
      BY <1>r, <2>2 DEF Good
    <3> QED  BY <3>1, <3>2
  <2>4. k \in {"SUCCEEDED", "FAILED"} \X Nat /\ k[1] = task[w].to /\ k[2] = task[w].ep
    BY <2>3
  <2>5. /\ UNCHANGED <<status, epoch, lapsed, basis, chain, ingested, lagged>>
        /\ notified' = [notified EXCEPT ![i] = @ \cup {k}]
    BY <1>7 DEF Emit, row, world
  <2>6. StateOK'  BY <1>r, <2>4, <2>5 DEF Inv, StateOK
  <2>7. ASSUME NEW r \in Rows PROVE RowSafe(r)'
    <3>1. ASSUME NEW q \in notified'[r]
          PROVE  /\ q[2] <= epoch[r]
                 /\ q[1] = "SUCCEEDED" => status[r] = "SUCCEEDED" /\ q[2] = epoch[r]
      <4>1. q \in notified[r] \/ (r = i /\ q = k)  BY <1>r, <2>5 DEF Inv, StateOK
      <4>2. CASE q \in notified[r]  BY <4>2 DEF Inv, RowSafe
      <4>3. CASE r = i /\ q = k  BY <4>3, <2>3, <2>4
      <4> QED  BY <4>1, <4>2, <4>3
    <3> QED  BY <2>5, <3>1 DEF Inv, RowSafe, NeverLanded, LagKnown
  <2>8. Kept  BY <2>5 DEF Kept, Inv, StateOK
  <2>9. Good(t)'
    <3>1. CASE task[w].to = "SUCCEEDED"
      <4>1. t \in Task /\ t.pc = "basis" /\ t.id = i  BY <1>r, <2>1, <3>1 DEF Task
      <4> QED  BY <1>r, <4>1 DEF Good
    <3>2. CASE task[w].to # "SUCCEEDED"  BY <2>1, <3>2, IdleGood
    <3> QED  BY <3>1, <3>2
  <2> QED  BY <2>1, <2>6, <2>7, <2>8, <2>9, MoveInv
<1>8. CASE CaptureDepositBasis(w)
  <2> USE <1>8 DEF CaptureDepositBasis, Done, Step, At
  <2>1. PICK t : t = Idle  OBVIOUS
  <2>2. t = Idle
    BY <1>r, <2>1 DEF Task
  <2>3. Step(w, t)  BY <2>1
  <2>4. StateOK'  BY <1>r DEF Inv, StateOK, row, world, Statuses
  <2>5. \A r \in Rows : RowSafe(r)'
    BY <1>r, SettlementBounds DEF RowSafe, NeverLanded, LagKnown, Good, Inv, StateOK, row, world, Statuses
  <2>6. Kept  BY <1>r DEF Kept, RowSafe, Inv, StateOK, row, world, Statuses
  <2>7. Good(t)'  BY <2>2, IdleGood
  <2> QED  BY <2>3, <2>4, <2>5, <2>6, <2>7, MoveInv
<1> QED  BY <1>1, <1>2, <1>3, <1>4, <1>5, <1>6, <1>7, <1>8

-----------------------------------------------------------------------------
\* Every step keeps the invariant.
LEMMA NextInv == Inv /\ [Next]_vars => Inv'
<1> SUFFICES ASSUME Inv, [Next]_vars PROVE Inv'  OBVIOUS
<1>1. CASE UNCHANGED vars
  BY <1>1 DEF vars, row, world, Inv, StateOK, RowSafe, Good, LagKnown, NeverLanded
<1>2. ASSUME NEW r \in Rows,
             \/ Create(r) \/ Ingest(r) \/ Lapse(r)
             \/ \E result \in {"succeeded", "failed"} : Land(r, result)
      PROVE  Inv'
  BY <1>2, WorldInv
<1>3. ASSUME NEW r \in Rows, NEW w \in Workers,
             Submit(w, r) \/ Reconcile(w, r) \/ Heal(w, r) \/ BackfillDepositBasis(w, r)
      PROVE  Inv'
  BY <1>3, StartInv
<1>4. ASSUME NEW w \in Workers, Abort(w) PROVE Inv'
  BY <1>4, StartInv, SettlementBounds DEF Rows
<1>5. ASSUME NEW w \in Workers, Continue(w) PROVE Inv'
  BY <1>5, RelayInv, LookInv, FinalizeInv DEF Continue
<1> QED  BY <1>1, <1>2, <1>3, <1>4, <1>5 DEF Next, Workers

\* Every reachable state of the relay and the observer satisfies the inductive
\* invariant.
THEOREM SettlementInvariant == Spec => []Inv
BY InitInv, NextInv, PTL DEF Spec

\* Type correctness, for every number of rows and handlers.
THEOREM SettlementTypes == Spec => []TypeOK
<1>1. Inv => TypeOK  BY DEF Inv, StateOK, TypeOK, Good, At
<1> QED  BY <1>1, SettlementInvariant, PTL

\* A row is settled, announced as settled and given a basis only if the ledger says
\* so, and announced under one key.
THEOREM LedgerDecides == Spec => []SettledOnLedger
<1>1. Inv => SettledOnLedger  BY DEF Inv, RowSafe, SettledOnLedger
<1> QED  BY <1>1, SettlementInvariant, PTL

\* An expired row's transaction never landed, unless Horizon lagged the ledger at
\* its deadline.
THEOREM ExpirySound == Spec => []ExpiredNeverLanded
<1>1. Inv => ExpiredNeverLanded  BY DEF Inv, RowSafe, NeverLanded, ExpiredNeverLanded
<1> QED  BY <1>1, SettlementInvariant, PTL

\* However many resubmissions race, the epoch stays at the cap and no event is
\* announced beyond it.
THEOREM ResubmitCapHolds == Spec => []ResubmitsCapped
<1>1. Inv => ResubmitsCapped  BY DEF Inv, RowSafe, ResubmitsCapped
<1> QED  BY <1>1, SettlementInvariant, PTL

\* Every write of a status is an edge of the declared graph.
THEOREM DeclaredGraphRespected == Spec => StatusFollowsDeclaredGraph
<1> DEFINE Edge ==
        \A r \in Rows : status'[r] # status[r] =>
          \/ status[r] = "ABSENT" /\ status'[r] = "PENDING"
          \/ status[r] \in Statuses /\ status'[r] \in DeclaredGraph[status[r]]
<1>1. ASSUME Inv, [Next]_vars PROVE [Edge]_vars
  <2>0. /\ DeclaredGraph["PENDING"] = {"SUBMITTED", "SUCCEEDED", "FAILED", "EXPIRED"}
        /\ DeclaredGraph["SUBMITTED"] = {"SUCCEEDED", "FAILED", "EXPIRED"}
        /\ DeclaredGraph["FAILED"] = {"SUBMITTED", "SUCCEEDED"}
        /\ DeclaredGraph["EXPIRED"] = {"SUCCEEDED", "FAILED"}
    BY DEF DeclaredGraph, Statuses
  <2> USE <1>1, <2>0 DEF Inv, StateOK, Statuses
  <2>1. CASE \E r \in Rows : Create(r)  BY <2>1 DEF Create
  <2>2. CASE \E w \in Workers : Resend(w)  BY <2>2 DEF Resend, CanResend
  <2>3. CASE \E w \in Workers : Mark(w)  BY <2>3 DEF Mark
  <2>4. CASE \E w \in Workers : FinalizeSucceeded(w)
    <3>1. PICK w \in Workers : FinalizeSucceeded(w)  BY <2>4
    <3>2. \/ UNCHANGED status
          \/ /\ status[task[w].id] \in CanSucceed
             /\ status' = [status EXCEPT ![task[w].id] = "SUCCEEDED"]
      BY <3>1 DEF FinalizeSucceeded
    <3>3. ASSUME NEW r \in Rows, status'[r] # status[r]
          PROVE  status[r] \in CanSucceed /\ status'[r] = "SUCCEEDED"
      BY <3>2, <3>3
    <3> QED  BY <3>3 DEF CanSucceed
  <2>5. CASE \E w \in Workers : FinalizeFailed(w)
    <3>1. PICK w \in Workers : FinalizeFailed(w)  BY <2>5
    <3>2. \/ UNCHANGED status
          \/ /\ status[task[w].id] \in InFlight
             /\ status' = [status EXCEPT ![task[w].id] = "FAILED"]
      BY <3>1 DEF FinalizeFailed
    <3>3. ASSUME NEW r \in Rows, status'[r] # status[r]
          PROVE  status[r] \in InFlight /\ status'[r] = "FAILED"
      BY <3>2, <3>3
    <3> QED  BY <3>3 DEF InFlight
  <2>6. CASE \E w \in Workers : FinalizeExpired(w)  BY <2>6 DEF FinalizeExpired, InFlight
  <2>7. CASE UNCHANGED status  BY <2>7
  <2>8. CASE \E w \in Workers : Continue(w) /\ ~(\/ Resend(w) \/ Mark(w) \/ FinalizeFailed(w)
                                                \/ FinalizeSucceeded(w) \/ FinalizeExpired(w))
    BY <2>7, <2>8 DEF Continue, Marked, Confirmed, Rejected, SettleRejected, Look, Reread, Emit,
                      CaptureDepositBasis, row
  <2>9. CASE \/ UNCHANGED vars
             \/ \E r \in Rows : \/ Ingest(r) \/ Lapse(r)
                                \/ \E result \in {"succeeded", "failed"} : Land(r, result)
    BY <2>7, <2>9 DEF vars, Ingest, Lapse, Land, row
  <2>10. CASE \E r \in Rows, w \in Workers :
                 \/ Submit(w, r) \/ Reconcile(w, r) \/ Heal(w, r)
                 \/ BackfillDepositBasis(w, r) \/ Abort(w)
    BY <2>7, <2>10 DEF Submit, Reconcile, Heal, BackfillDepositBasis, Abort, row
  <2>11. CASE \E w \in Workers : Abort(w)  BY <2>7, <2>11 DEF Abort, row
  <2> QED
    <3> HIDE <1>1, <2>0 DEF Edge, Inv
    <3> QED
      BY <1>1, <2>1, <2>2, <2>3, <2>4, <2>5, <2>6, <2>8, <2>9, <2>10, <2>11, Zenon DEF Next, Workers
<1> QED  BY <1>1, SettlementInvariant, PTL DEF Spec, StatusFollowsDeclaredGraph
=============================================================================
