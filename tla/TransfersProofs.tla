--------------------------- MODULE TransfersProofs ---------------------------
(***************************************************************************)
(* Money followed off Stellar's classic ledger: what a row says against    *)
(* what its chain or its provider did, and that a final status stays.      *)
(* Each component's theorem is about that component alone; the last ones   *)
(* carry them over to the server that runs all of them.                    *)
(***************************************************************************)
EXTENDS MCTransfers, FiniteSetTheorems, TLAPS

-----------------------------------------------------------------------------
(***************************************************************************)
(* EVM deposits.  The forwarder settles on an amount it read before it     *)
(* sent.  What was paid is at the address or has left it, and an included  *)
(* forward leaves nothing there: once the forward of a recorded amount is  *)
(* included, at least that amount has left.                                *)
(***************************************************************************)

ForwardTx ==
    [kind : {"none", "deploy", "flush"}, state : {"none", "pending", "ok", "reverted", "dropped"}]

Cycle ==
    [pc : {"idle", "next", "balance", "code", "send", "record", "receipt", "settle"},
     d : Deposits \cup {0}, todo : SUBSET Deposits,
     intent : [Deposits -> IntentStatuses] \cup {<<>>}, balance : Nat,
     kind : {"none", "deploy", "flush"}]

DepositsType ==
    /\ depStatus \in [Deposits -> {"ABSENT", "AWAITING", "FORWARDING", "FORWARDED"}]
    /\ depAmount \in [Deposits -> Nat] /\ depBalance \in [Deposits -> Nat]
    /\ depOut \in [Deposits -> Nat] /\ depPaid \in [Deposits -> Nat]
    /\ depTx \in [Deposits -> ForwardTx]
    /\ depLoose \in [Deposits -> SUBSET {"none", "deploy", "flush"}]
    /\ depIntent \in [Deposits -> IntentStatuses]
    /\ forwarder \in Cycle

\* What a row and its address add up to.
Accounted(d) ==
    /\ depOut[d] + depBalance[d] = depPaid[d]
    /\ depAmount[d] <= depPaid[d]
    /\ depStatus[d] = "FORWARDING" /\ depTx[d].state = "ok" => depAmount[d] <= depOut[d]

\* What the running cycle r may count on.
CycleKnows(r) ==
    /\ r.pc \notin {"idle", "next"} => r.d \in Deposits
    /\ r.pc \in {"code", "send", "record"} => r.balance <= depPaid[r.d]
    /\ r.pc = "record" /\ depTx[r.d].state = "ok" => r.balance <= depOut[r.d]
    /\ r.pc = "receipt" => depStatus[r.d] = "FORWARDING"
    /\ r.pc = "settle" => depAmount[r.d] <= depOut[r.d]

DepositsInv ==
    /\ DepositsType
    /\ \A d \in Deposits : Accounted(d)
    /\ CycleKnows(forwarder)
    /\ depByForward \subseteq Deposits
    /\ ForwardSettlesPaid

\* The locals a cycle writes keep their types.
LEMMA CycleFields ==
    ASSUME DepositsInv
    PROVE  /\ Resting \in Cycle /\ CycleKnows(Resting)
           /\ RowDone \in Cycle /\ CycleKnows(RowDone) /\ RowDone.pc \in {"idle", "next"}
<1>1. Resting \in Cycle /\ Resting.pc = "idle"  BY DEF Resting, Cycle
<1>2. forwarder.todo \in SUBSET Deposits /\ forwarder.intent \in [Deposits -> IntentStatuses] \cup {<<>>}
  BY DEF DepositsInv, DepositsType, Cycle
<1>3. [Resting EXCEPT !.pc = "next", !.todo = forwarder.todo, !.intent = forwarder.intent] \in Cycle
      /\ [Resting EXCEPT !.pc = "next", !.todo = forwarder.todo, !.intent = forwarder.intent].pc = "next"
  BY <1>2 DEF Resting, Cycle
<1>4. RowDone \in Cycle /\ RowDone.pc \in {"idle", "next"}  BY <1>1, <1>3 DEF RowDone
<1> QED  BY <1>1, <1>4 DEF CycleKnows

\* A step of the cycle that writes nothing but its locals.
LEMMA CycleGoes ==
    ASSUME DepositsInv, NEW r \in Cycle, CycleKnows(r), forwarder' = r,
           UNCHANGED <<depRow, depChain, depWorld, depByForward>>
    PROVE  DepositsInv'
<1> USE DEF depRow, depChain, depWorld
<1>1. CycleKnows(forwarder)'  BY DEF CycleKnows
<1> QED  BY <1>1 DEF DepositsInv, DepositsType, Accounted, ForwardSettlesPaid

\* An included forward moves the whole balance, or nothing.
LEMMA IncludeMoves ==
    ASSUME DepositsInv, NEW d \in Deposits, NEW kind, Include(d, kind), UNCHANGED depPaid
    PROVE  /\ depOut' \in [Deposits -> Nat] /\ depBalance' \in [Deposits -> Nat]
           /\ \A e \in Deposits : depOut[e] <= depOut'[e] /\ depOut'[e] + depBalance'[e] = depPaid'[e]
           /\ Moves(d, kind) => depOut'[d] = depPaid[d]
<1>0. \A e \in Deposits : /\ depOut[e] \in Nat /\ depBalance[e] \in Nat /\ depPaid[e] \in Nat
                          /\ depOut[e] + depBalance[e] = depPaid[e]
  BY DEF DepositsInv, DepositsType, Accounted
<1>1. CASE ~Moves(d, kind)
  BY <1>0, <1>1 DEF Include, DepositsInv, DepositsType
<1>2. CASE Moves(d, kind)
  <2>1. /\ depOut' = [depOut EXCEPT ![d] = depOut[d] + depBalance[d]]
        /\ depBalance' = [depBalance EXCEPT ![d] = 0]
    BY <1>2 DEF Include
  <2> QED  BY <1>0, <1>2, <2>1 DEF DepositsInv, DepositsType
<1> QED  BY <1>1, <1>2

\* The chain includes, drops and receives; the intent moves; time passes.
LEMMA DepositsWorldStep ==
    ASSUME DepositsInv,
           \/ \E d \in Deposits : PayIn(d) \/ LapseIntent(d) \/ \E token \in BOOLEAN : Mint(d, token)
           \/ \E d \in Deposits, to \in IntentStatuses : IntentMoves(d, to)
           \/ \E d \in Deposits : MineForward(d) \/ DropForward(d)
           \/ \E d \in Deposits, kind \in {"deploy", "flush"} : MineLoose(d, kind)
    PROVE  DepositsInv'
<1> USE DEF DepositsInv, DepositsType
<1>0. \A e \in Deposits : /\ depOut[e] \in Nat /\ depBalance[e] \in Nat /\ depPaid[e] \in Nat
                          /\ depAmount[e] \in Nat /\ depTx[e] \in ForwardTx /\ Accounted(e)
  OBVIOUS
<1>1. ASSUME NEW d \in Deposits, PayIn(d) PROVE DepositsInv'
  <2>1. /\ depPaid' = [depPaid EXCEPT ![d] = depPaid[d] + 1]
        /\ UNCHANGED <<depStatus, depAmount, depTx, depLoose, depIntent, depByForward, forwarder>>
    BY <1>1 DEF PayIn, depRow, depWorld
  <2>2. \/ depOut' = [depOut EXCEPT ![d] = depOut[d] + 1] /\ depBalance' = depBalance
        \/ depOut' = depOut /\ depBalance' = [depBalance EXCEPT ![d] = depBalance[d] + 1]
    BY <1>1 DEF PayIn
  <2>3. /\ depOut' \in [Deposits -> Nat] /\ depBalance' \in [Deposits -> Nat] /\ depPaid' \in [Deposits -> Nat]
        /\ \A e \in Deposits : /\ depOut[e] <= depOut'[e] /\ depPaid[e] <= depPaid'[e]
                               /\ depOut'[e] + depBalance'[e] = depPaid'[e]
    BY <1>0, <2>1, <2>2 DEF Accounted
  <2>4. \A e \in Deposits : Accounted(e)'  BY <1>0, <2>1, <2>3 DEF Accounted
  <2>5. CycleKnows(forwarder)'
    <3>1. forwarder.balance \in Nat  BY DEF Cycle
    <3> QED  BY <1>0, <2>1, <2>3, <3>1 DEF CycleKnows
  <2>6. ForwardSettlesPaid'  BY <1>0, <2>1, <2>3, DepositBounds DEF ForwardSettlesPaid
  <2> QED  BY <2>1, <2>3, <2>4, <2>5, <2>6
<1>2. ASSUME NEW d \in Deposits, LapseIntent(d) PROVE DepositsInv'
  <2>1. UNCHANGED <<depStatus, depAmount, depTx, depLoose, depIntent, depByForward, forwarder,
                    depOut, depBalance, depPaid>>
    BY <1>2 DEF LapseIntent, depRow, depChain
  <2> QED  BY <2>1 DEF Accounted, CycleKnows, ForwardSettlesPaid
<1>3. ASSUME NEW d \in Deposits, NEW to \in IntentStatuses, IntentMoves(d, to) PROVE DepositsInv'
  <2>1. UNCHANGED <<depStatus, depAmount, depTx, depLoose, depByForward, forwarder,
                    depOut, depBalance, depPaid>>
        /\ depIntent' = [depIntent EXCEPT ![d] = to]
    BY <1>3 DEF IntentMoves, depRow, depChain
  <2> QED  BY <2>1 DEF Accounted, CycleKnows, ForwardSettlesPaid
<1>4. ASSUME NEW d \in Deposits, NEW token \in BOOLEAN, Mint(d, token) PROVE DepositsInv'
  <2>1. /\ depStatus[d] = "ABSENT" /\ depStatus' = [depStatus EXCEPT ![d] = "AWAITING"]
        /\ UNCHANGED <<depAmount, depTx, depLoose, depIntent, depByForward, forwarder,
                       depOut, depBalance, depPaid>>
    BY <1>4 DEF Mint, depChain, depWorld
  <2>2. \A e \in Deposits : Accounted(e)'  BY <1>0, <2>1 DEF Accounted
  <2> QED  BY <2>1, <2>2 DEF CycleKnows, ForwardSettlesPaid
<1>5. ASSUME NEW d \in Deposits, MineForward(d) PROVE DepositsInv'
  <2>1. /\ Include(d, depTx[d].kind) /\ depTx[d].state = "pending"
        /\ UNCHANGED <<depStatus, depAmount, depLoose, depIntent, depByForward, forwarder, depPaid>>
    BY <1>5 DEF MineForward, depRow, depWorld
  <2>2. PICK st \in {"ok", "reverted"} :
          depTx' = [depTx EXCEPT ![d].state = st] /\ (st = "ok" => Moves(d, depTx[d].kind))
    BY <1>5 DEF MineForward
  <2>3. /\ depTx' \in [Deposits -> ForwardTx] /\ depTx'[d].state = st
        /\ \A e \in Deposits \ {d} : depTx'[e] = depTx[e]
    BY <2>2 DEF ForwardTx
  <2>4. /\ depOut' \in [Deposits -> Nat] /\ depBalance' \in [Deposits -> Nat]
        /\ \A e \in Deposits : depOut[e] <= depOut'[e] /\ depOut'[e] + depBalance'[e] = depPaid[e]
        /\ st = "ok" => depOut'[d] = depPaid[d]
    BY <2>1, <2>2, IncludeMoves
  <2>5. \A e \in Deposits : Accounted(e)'  BY <1>0, <2>1, <2>3, <2>4 DEF Accounted
  <2>6. CycleKnows(forwarder)'
    <3>1. forwarder.balance \in Nat  BY DEF Cycle
    <3> QED  BY <1>0, <2>1, <2>3, <2>4, <3>1 DEF CycleKnows
  <2>7. ForwardSettlesPaid'  BY <1>0, <2>1, <2>4, DepositBounds DEF ForwardSettlesPaid
  <2> QED  BY <2>1, <2>3, <2>4, <2>5, <2>6, <2>7
<1>6. ASSUME NEW d \in Deposits, NEW kind \in {"deploy", "flush"}, MineLoose(d, kind) PROVE DepositsInv'
  <2>0. Include(d, kind) /\ depLoose' \in [Deposits -> SUBSET {"none", "deploy", "flush"}]
    BY <1>6 DEF MineLoose
  <2>1. UNCHANGED <<depStatus, depAmount, depTx, depIntent, depByForward, forwarder, depPaid>>
    BY <1>6 DEF MineLoose, depRow, depWorld
  <2>2. /\ depOut' \in [Deposits -> Nat] /\ depBalance' \in [Deposits -> Nat]
        /\ \A e \in Deposits : depOut[e] <= depOut'[e] /\ depOut'[e] + depBalance'[e] = depPaid[e]
    BY <2>0, <2>1, IncludeMoves
  <2>3. \A e \in Deposits : Accounted(e)'  BY <1>0, <2>1, <2>2 DEF Accounted
  <2>4. CycleKnows(forwarder)'
    <3>1. forwarder.balance \in Nat  BY DEF Cycle
    <3> QED  BY <1>0, <2>1, <2>2, <3>1 DEF CycleKnows
  <2>5. ForwardSettlesPaid'  BY <1>0, <2>1, <2>2, DepositBounds DEF ForwardSettlesPaid
  <2> QED  BY <2>0, <2>1, <2>2, <2>3, <2>4, <2>5
<1>7. ASSUME NEW d \in Deposits, DropForward(d) PROVE DepositsInv'
  <2>1. /\ depTx' = [depTx EXCEPT ![d].state = "dropped"]
        /\ UNCHANGED <<depStatus, depAmount, depLoose, depIntent, depByForward, forwarder,
                       depOut, depBalance, depPaid>>
    BY <1>7 DEF DropForward, depRow, depWorld
  <2>2. /\ depTx' \in [Deposits -> ForwardTx] /\ depTx'[d].state = "dropped"
        /\ \A e \in Deposits \ {d} : depTx'[e] = depTx[e]
    BY <2>1 DEF ForwardTx
  <2>3. \A e \in Deposits : Accounted(e)'  BY <1>0, <2>1, <2>2 DEF Accounted
  <2>4. CycleKnows(forwarder)'  BY <2>1, <2>2 DEF CycleKnows
  <2> QED  BY <2>1, <2>2, <2>3, <2>4 DEF ForwardSettlesPaid
<1> QED  BY <1>1, <1>2, <1>3, <1>4, <1>5, <1>6, <1>7

\* The steps of the forwarder's cycle.
LEMMA ForwarderKeeps ==
    ASSUME DepositsInv, ForwarderStep \/ Overdue \/ FailDeposit
    PROVE  DepositsInv'
<1> USE DEF DepositsInv, DepositsType
<1>0. \A e \in Deposits : /\ depOut[e] \in Nat /\ depBalance[e] \in Nat /\ depPaid[e] \in Nat
                          /\ depAmount[e] \in Nat /\ depTx[e] \in ForwardTx /\ Accounted(e)
  OBVIOUS
<1>1. forwarder \in Cycle /\ CycleKnows(forwarder)  OBVIOUS
<1>2. CASE ReadDeposits
  <2> DEFINE r == [Resting EXCEPT !.pc = "next", !.todo = BatchOf(Watched), !.intent = depIntent]
  <2>1. BatchOf(Watched) \in SUBSET Deposits  BY DEF BatchOf, Watched
  <2>2. r \in Cycle /\ r.pc = "next"  BY <2>1 DEF Resting, Cycle
  <2>3. CycleKnows(r)  BY <2>2 DEF CycleKnows
  <2> QED  BY <1>2, <2>2, <2>3, CycleGoes DEF ReadDeposits
<1>3. ASSUME NEW d \in Deposits, NextDeposit(d) PROVE DepositsInv'
  <2>1. PICK pc \in {"receipt", "balance"} :
          /\ pc = "receipt" => depStatus[d] = "FORWARDING"
          /\ forwarder' = [forwarder EXCEPT !.d = d, !.todo = @ \ {d}, !.pc = pc]
          /\ UNCHANGED <<depRow, depChain, depWorld, depByForward>>
    BY <1>3 DEF NextDeposit, Forwarding
  <2>2. PICK S \in SUBSET Deposits : S = forwarder.todo \ {d}  BY <1>1 DEF Cycle
  <2> DEFINE r == [forwarder EXCEPT !.d = d, !.todo = S, !.pc = pc]
  <2>3. r \in Cycle /\ r.pc = pc /\ r.d = d  BY <1>1 DEF Cycle
  <2>4. CycleKnows(r)  BY <2>1, <2>3 DEF CycleKnows
  <2> QED  BY <2>1, <2>2, <2>3, <2>4, CycleGoes
<1>4. CASE ReadBalance
  <2>1. /\ forwarder.pc = "balance" /\ UNCHANGED <<depRow, depChain, depWorld, depByForward>>
        /\ \/ forwarder' = RowDone
           \/ forwarder' = [forwarder EXCEPT !.pc = "code", !.balance = depBalance[forwarder.d]]
    BY <1>4 DEF ReadBalance, Forwarding
  <2>2. PICK d \in Deposits : d = forwarder.d  BY <1>1, <2>1 DEF CycleKnows
  <2> DEFINE r == [forwarder EXCEPT !.pc = "code", !.balance = depBalance[d]]
  <2>3. r \in Cycle /\ r.pc = "code" /\ r.d = d /\ r.balance = depBalance[d]
    BY <1>0, <1>1, <2>2 DEF Cycle
  <2>4. CycleKnows(r)  BY <1>0, <2>3 DEF CycleKnows, Accounted
  <2> QED  BY <2>1, <2>2, <2>3, <2>4, CycleFields, CycleGoes
<1>5. CASE ReadCode
  <2>1. PICK kind \in {"flush", "deploy"} :
          /\ forwarder.pc = "code" /\ UNCHANGED <<depRow, depChain, depWorld, depByForward>>
          /\ \/ forwarder' = RowDone
             \/ forwarder' = [forwarder EXCEPT !.pc = "send", !.kind = kind]
    BY <1>5 DEF ReadCode, Forwarding
  <2> DEFINE r == [forwarder EXCEPT !.pc = "send", !.kind = kind]
  <2>2. r \in Cycle /\ r.pc = "send" /\ r.d = forwarder.d /\ r.balance = forwarder.balance
    BY <1>1 DEF Cycle
  <2>3. CycleKnows(r)  BY <1>1, <2>1, <2>2 DEF CycleKnows
  <2> QED  BY <2>1, <2>2, <2>3, CycleFields, CycleGoes
<1>6. CASE Send
  <2>1. PICK d \in Deposits : d = forwarder.d /\ forwarder.pc = "send" /\ forwarder.balance <= depPaid[d]
    BY <1>1, <1>6 DEF Send, CycleKnows
  <2>2. /\ depTx' = [depTx EXCEPT ![d] = [kind |-> forwarder.kind, state |-> "pending"]]
        /\ forwarder' = [forwarder EXCEPT !.pc = "record"]
        /\ UNCHANGED <<depStatus, depAmount, depIntent, depByForward, depOut, depBalance, depPaid>>
    BY <1>6, <2>1 DEF Send, depRow, depWorld
  <2>3. /\ depTx' \in [Deposits -> ForwardTx] /\ depTx'[d].state = "pending"
        /\ \A e \in Deposits \ {d} : depTx'[e] = depTx[e]
    BY <1>1, <2>2 DEF ForwardTx, Cycle
  <2>4. depLoose' \in [Deposits -> SUBSET {"none", "deploy", "flush"}]
    <3>1. depTx[d].kind \in {"none", "deploy", "flush"}  BY <1>0 DEF ForwardTx
    <3>2. PICK L \in SUBSET {"none", "deploy", "flush"} : depLoose' = [depLoose EXCEPT ![d] = L]
      BY <1>6, <2>1, <3>1 DEF Send
    <3> QED  BY <3>2
  <2>5. \A e \in Deposits : Accounted(e)'  BY <1>0, <2>2, <2>3 DEF Accounted
  <2>6. /\ forwarder' \in Cycle /\ forwarder'.pc = "record" /\ forwarder'.d = d
        /\ forwarder'.balance = forwarder.balance
    BY <1>1, <2>1, <2>2 DEF Cycle
  <2>7. CycleKnows(forwarder)'  BY <2>1, <2>2, <2>3, <2>6 DEF CycleKnows
  <2> QED  BY <2>2, <2>3, <2>4, <2>5, <2>6, <2>7 DEF ForwardSettlesPaid
<1>7. CASE RecordForward
  <2>1. PICK d \in Deposits : /\ d = forwarder.d /\ forwarder.pc = "record" /\ forwarder.balance <= depPaid[d]
                              /\ depTx[d].state = "ok" => forwarder.balance <= depOut[d]
    BY <1>1, <1>7 DEF RecordForward, CycleKnows
  <2>2. /\ depStatus' = [depStatus EXCEPT ![d] = "FORWARDING"]
        /\ depAmount' = [depAmount EXCEPT ![d] = forwarder.balance] /\ forwarder' = RowDone
        /\ UNCHANGED <<depTx, depLoose, depIntent, depByForward, depOut, depBalance, depPaid>>
    BY <1>7, <2>1 DEF RecordForward, depChain, depWorld
  <2>3. forwarder.balance \in Nat  BY <1>1 DEF Cycle
  <2>4. \A e \in Deposits : Accounted(e)'  BY <1>0, <2>1, <2>2, <2>3 DEF Accounted
  <2>5. forwarder' \in Cycle /\ forwarder'.pc \in {"idle", "next"}  BY <2>2, CycleFields
  <2>6. CycleKnows(forwarder)'  BY <2>5 DEF CycleKnows
  <2> QED  BY <2>2, <2>3, <2>4, <2>5, <2>6 DEF ForwardSettlesPaid
<1>8. CASE Confirm \/ Overdue
  <2>1. PICK d \in Deposits : d = forwarder.d /\ forwarder.pc = "receipt" /\ depStatus[d] = "FORWARDING"
    BY <1>1, <1>8 DEF Confirm, Overdue, CycleKnows
  <2>2. UNCHANGED <<depAmount, depTx, depLoose, depIntent, depByForward, depOut, depBalance, depPaid>>
    BY <1>8 DEF Confirm, Overdue, depChain, depWorld
  <2>3. CASE /\ depTx[d].state = "ok" /\ depStatus' = [depStatus EXCEPT ![d] = "FORWARDED"]
             /\ forwarder' = [forwarder EXCEPT !.pc = "settle"]
    <3>1. depAmount[d] <= depOut[d]  BY <1>0, <2>1, <2>3 DEF Accounted
    <3>2. forwarder' \in Cycle /\ forwarder'.pc = "settle" /\ forwarder'.d = d
      BY <1>1, <2>1, <2>3 DEF Cycle
    <3>3. CycleKnows(forwarder)'  BY <2>2, <3>1, <3>2 DEF CycleKnows
    <3>4. \A e \in Deposits : Accounted(e)'  BY <1>0, <2>2, <2>3 DEF Accounted
    <3> QED  BY <2>2, <2>3, <3>2, <3>3, <3>4 DEF ForwardSettlesPaid
  <2>4. CASE /\ depStatus' = depStatus \/ depStatus' = [depStatus EXCEPT ![d] = "AWAITING"]
             /\ forwarder' = RowDone
    <3>1. forwarder' \in Cycle /\ forwarder'.pc \in {"idle", "next"}  BY <2>4, CycleFields
    <3>2. CycleKnows(forwarder)'  BY <3>1 DEF CycleKnows
    <3>3. \A e \in Deposits : Accounted(e)'  BY <1>0, <2>2, <2>4 DEF Accounted
    <3> QED  BY <2>2, <2>4, <3>1, <3>2, <3>3 DEF ForwardSettlesPaid
  <2> QED  BY <1>8, <2>1, <2>3, <2>4 DEF Confirm, Overdue, HasReceipt
<1>9. CASE Settle
  <2>1. PICK d \in Deposits : d = forwarder.d /\ depAmount[d] <= depOut[d]
    BY <1>1, <1>9 DEF Settle, CycleKnows
  <2>2. /\ UNCHANGED <<depStatus, depAmount, depTx, depLoose, depOut, depBalance, depPaid>>
        /\ forwarder' = RowDone
    BY <1>9 DEF Settle, depRow, depChain
  <2>3. \/ UNCHANGED <<depIntent, depByForward>>
        \/ /\ depAmount[d] >= Expected /\ depIntent' = [depIntent EXCEPT ![d] = "SUCCEEDED"]
           /\ depByForward' = depByForward \cup {d}
    BY <1>9, <2>1 DEF Settle, ForwardCovers
  <2>4. depIntent' \in [Deposits -> IntentStatuses]  BY <2>3 DEF IntentStatuses, ClosedIntent
  <2>5. forwarder' \in Cycle /\ forwarder'.pc \in {"idle", "next"}  BY <2>2, CycleFields
  <2>6. CycleKnows(forwarder)'  BY <2>5 DEF CycleKnows
  <2>7. ForwardSettlesPaid' /\ depByForward' \subseteq Deposits
    BY <1>0, <2>1, <2>2, <2>3, DepositBounds DEF ForwardSettlesPaid
  <2>8. \A e \in Deposits : Accounted(e)'  BY <2>2 DEF Accounted
  <2> QED  BY <2>2, <2>4, <2>5, <2>6, <2>7, <2>8
<1>10. CASE FailDeposit
  BY <1>10, CycleFields, CycleGoes DEF FailDeposit
<1> QED
  BY <1>2, <1>3, <1>4, <1>5, <1>6, <1>7, <1>8, <1>9, <1>10 DEF ForwarderStep

\* An intent the forwarder settled was paid in full to the merchant, for any number of
\* deposit addresses, any amounts, and whatever is re-sent, reverted, dropped or mined late
\* (EvmDepositForwarderService: the balance read, the record, the receipt, the settlement).
THEOREM SettledByForward ==
    EvmDepositsInit /\ [][EvmDepositsNext]_depVars => []ForwardSettlesPaid
<1>1. EvmDepositsInit => DepositsInv
  <2> SUFFICES ASSUME EvmDepositsInit PROVE DepositsInv  OBVIOUS
  <2>1. Resting \in Cycle /\ Resting.pc = "idle" /\ NoForward \in ForwardTx /\ NoForward.state = "none"
    BY DEF Resting, Cycle, NoForward, ForwardTx
  <2>2. DepositsType  BY <2>1 DEF EvmDepositsInit, DepositsType, IntentStatuses
  <2>3. CycleKnows(forwarder)  BY <2>1 DEF EvmDepositsInit, CycleKnows
  <2>4. \A d \in Deposits : Accounted(d)  BY DEF EvmDepositsInit, Accounted
  <2> QED  BY <2>2, <2>3, <2>4 DEF EvmDepositsInit, DepositsInv, ForwardSettlesPaid
<1>2. DepositsInv /\ [EvmDepositsNext]_depVars => DepositsInv'
  <2> SUFFICES ASSUME DepositsInv, [EvmDepositsNext]_depVars PROVE DepositsInv'  OBVIOUS
  <2>1. CASE UNCHANGED depVars
    BY <2>1, CycleGoes DEF depVars, DepositsInv, DepositsType
  <2> QED  BY <2>1, DepositsWorldStep, ForwarderKeeps DEF EvmDepositsNext
<1>3. DepositsInv => ForwardSettlesPaid  BY DEF DepositsInv
<1> QED  BY <1>1, <1>2, <1>3, PTL

-----------------------------------------------------------------------------
(***************************************************************************)
(* USDT0 transfers.  EXPIRED rests on a call that was late before it asked *)
(* and on an answer that showed nothing: past the grace period the RPC     *)
(* shows nothing new and the ledger applies nothing more, so what the call *)
(* found stays so until it writes.                                         *)
(***************************************************************************)

TransferCall ==
    [pc : {"idle", "ask", "apply", "scan", "record", "send", "await"}, t : Transfers \cup {0},
     status : {"none", "PENDING", "SUBMITTED"}, guid : BOOLEAN, late : BOOLEAN,
     outcome : {"none", "queued", "ok", "failed", "absent", "travelling", "delivered"},
     accepted : BOOLEAN]

Usdt0Type ==
    /\ u0Status \in [Transfers -> {"ABSENT", "PENDING", "SUBMITTED"} \cup Usdt0Final]
    /\ u0Age \in [Transfers -> 0..2]
    /\ u0Ledger \in [Transfers -> {"none", "queued", "ok", "failed"}]
    /\ u0Scan \in [Transfers -> {"none", "travelling", "delivered", "failed"}]
    /\ u0Call \in [Usdt0Callers -> TransferCall]

\* Too late for the ledger, and nothing to be shown any more.
Lapsed(t) == u0Age[t] = 2 /\ t \notin u0Shown

CallKnows(r) ==
    /\ r.pc # "idle" => r.t \in Transfers /\ r.status \in {"PENDING", "SUBMITTED"}
    /\ r.pc \in {"send", "await"} => r.status = "PENDING"
    /\ r.pc = "await" => r.accepted
    /\ r.pc \in {"ask", "apply"} /\ r.late => u0Age[r.t] = 2
    /\ r.pc = "apply" /\ LedgerNext(r) = "EXPIRED" => Lapsed(r.t)

Usdt0Inv ==
    /\ Usdt0Type
    /\ \A c \in Usdt0Callers : CallKnows(u0Call[c])
    /\ \A t \in Transfers : t \in u0Shown => Applied(t)
    /\ \A t \in Transfers : u0Status[t] = "EXPIRED" => Lapsed(t)

\* A step that moves one call on and writes no row.
LEMMA CallGoes ==
    ASSUME Usdt0Inv, NEW c \in Usdt0Callers, NEW r \in TransferCall, CallKnows(r),
           u0Call' = [u0Call EXCEPT ![c] = r],
           UNCHANGED <<u0Status, u0Age, u0Ledger, u0Shown, u0Scan>>
    PROVE  Usdt0Inv'
<1>1. ASSUME NEW x, CallKnows(x) PROVE CallKnows(x)'
  BY <1>1 DEF CallKnows, Lapsed, LedgerNext
<1>2. ASSUME NEW d \in Usdt0Callers PROVE CallKnows(u0Call[d])'
  <2>1. u0Call'[d] = u0Call[d] \/ u0Call'[d] = r  BY DEF Usdt0Inv, Usdt0Type
  <2>2. ASSUME NEW x, x = u0Call[d] PROVE CallKnows(x)'  BY <1>1, <2>2 DEF Usdt0Inv
  <2> QED  BY <1>1, <2>1, <2>2 DEF CallKnows, LedgerNext, Lapsed
<1> QED  BY <1>2 DEF Usdt0Inv, Usdt0Type, Lapsed, Applied

\* Rows that come, the chain, its RPC and time take nothing back from a call.
LEMMA Usdt0WorldStep ==
    ASSUME Usdt0Inv,
           \/ \E t \in Transfers : CreateTransfer(t) \/ WalletSends(t) \/ LedgerApplies(t) \/ RpcShows(t)
           \/ \E t \in Transfers : RpcForgets(t) \/ ScanMoves(t) \/ AgeTransfer(t) \/ WindowPasses(t)
    PROVE  Usdt0Inv'
<1> USE DEF Usdt0Inv
<1> SUFFICES ASSUME Usdt0Type', UNCHANGED u0Call, \A t \in Transfers : t \in u0Shown' => Applied(t)',
                    \A t \in Transfers : u0Age[t] = 2 => u0Age'[t] = 2,
                    \A t \in Transfers : Lapsed(t) => Lapsed(t)',
                    \A t \in Transfers : u0Status'[t] = "EXPIRED" => u0Status[t] = "EXPIRED"
             PROVE  Usdt0Inv'
  <2> USE DEF Usdt0Type, u0Row, u0World, Applied, Lapsed
  <2>1. ASSUME NEW t \in Transfers, CreateTransfer(t) PROVE Usdt0Inv'
    BY <2>1 DEF CreateTransfer
  <2>2. ASSUME NEW t \in Transfers, WalletSends(t) \/ LedgerApplies(t) PROVE Usdt0Inv'
    BY <2>2 DEF WalletSends, LedgerApplies
  <2>3. ASSUME NEW t \in Transfers, RpcShows(t) \/ RpcForgets(t) PROVE Usdt0Inv'
    BY <2>3 DEF RpcShows, RpcForgets
  <2>4. ASSUME NEW t \in Transfers, ScanMoves(t) PROVE Usdt0Inv'
    BY <2>4 DEF ScanMoves
  <2>5. ASSUME NEW t \in Transfers, AgeTransfer(t) PROVE Usdt0Inv'
    BY <2>5 DEF AgeTransfer
  <2>6. ASSUME NEW t \in Transfers, WindowPasses(t) PROVE Usdt0Inv'
    BY <2>6 DEF WindowPasses
  <2> QED  BY <2>1, <2>2, <2>3, <2>4, <2>5, <2>6
<1>1. ASSUME NEW c \in Usdt0Callers PROVE CallKnows(u0Call[c])'
  <2>1. CallKnows(u0Call[c])  OBVIOUS
  <2> QED  BY <2>1 DEF CallKnows, LedgerNext
<1> QED  BY <1>1

\* transition: a verdict written over the status the call holds, then the call goes on.
LEMMA TransitionKeeps ==
    ASSUME Usdt0Inv, NEW c \in Usdt0Callers, NEW next \in {"PENDING", "SUBMITTED"} \cup Usdt0Final,
           NEW guid \in BOOLEAN, Transition(c, next, guid), u0Call[c].pc # "idle",
           next = "EXPIRED" => Lapsed(u0Call[c].t), NEW r \in TransferCall,
           r.pc \in {"idle", "scan"}, r.pc # "idle" => r.t \in Transfers /\ r.status \in {"PENDING", "SUBMITTED"},
           u0Call' = [u0Call EXCEPT ![c] = r]
    PROVE  /\ Usdt0Inv'
           /\ \A t \in Transfers : u0Status[t] \in Usdt0Final => u0Status'[t] = u0Status[t]
<1>1. PICK t \in Transfers : t = u0Call[c].t /\ u0Call[c].status \in {"PENDING", "SUBMITTED"}
  BY DEF Usdt0Inv, CallKnows
<1>2. /\ \/ u0Status' = u0Status
         \/ u0Status[t] \in {"PENDING", "SUBMITTED"} /\ u0Status' = [u0Status EXCEPT ![t] = next]
      /\ UNCHANGED <<u0Age, u0Ledger, u0Shown, u0Scan>>
  BY <1>1 DEF Transition, TransferAsRead, u0World
<1>3. \A s : Lapsed(s)' <=> Lapsed(s)  BY <1>2 DEF Lapsed
<1>4. /\ u0Status' \in [Transfers -> {"ABSENT", "PENDING", "SUBMITTED"} \cup Usdt0Final]
      /\ \A s \in Transfers : u0Status'[s] = "EXPIRED" => Lapsed(s)'
  BY <1>1, <1>2, <1>3 DEF Usdt0Inv, Usdt0Type
<1>5. ASSUME NEW d \in Usdt0Callers PROVE CallKnows(u0Call[d])'
  <2>1. u0Call'[d] = u0Call[d] \/ u0Call'[d] = r  BY DEF Usdt0Inv, Usdt0Type
  <2>2. CASE u0Call'[d] = r  BY <2>2 DEF CallKnows
  <2>3. CASE u0Call'[d] = u0Call[d]
    BY <1>2, <1>3, <2>3 DEF Usdt0Inv, CallKnows, LedgerNext
  <2> QED  BY <2>1, <2>2, <2>3
<1>6. \A s \in Transfers : u0Status[s] \in Usdt0Final => u0Status'[s] = u0Status[s]
  BY <1>2 DEF Usdt0Inv, Usdt0Type, Usdt0Final
<1> QED  BY <1>2, <1>4, <1>5, <1>6 DEF Usdt0Inv, Usdt0Type, Applied

\* The steps of a read or a submit.
LEMMA Usdt0CallStep ==
    ASSUME Usdt0Inv, NEW c \in Usdt0Callers,
           \/ Usdt0Step(c) \/ SendAccepted(c) \/ SendRefused(c)
           \/ AwaitLedger(c) \/ FailTransferCall(c) \/ \E t \in Transfers : ReadForSend(c, t)
    PROVE  /\ Usdt0Inv'
           /\ \A t \in Transfers : u0Status[t] \in Usdt0Final => u0Status'[t] = u0Status[t]
<1> USE DEF u0Row, u0World
<1>0. /\ u0Call[c] \in TransferCall /\ CallKnows(u0Call[c])
      /\ NoCall \in TransferCall /\ NoCall.pc = "idle" /\ CallKnows(NoCall)
  <2>1. NoCall \in TransferCall /\ NoCall.pc = "idle"  BY DEF NoCall, TransferCall
  <2> QED  BY <2>1 DEF Usdt0Inv, Usdt0Type, CallKnows
<1>1. ASSUME NEW t \in Transfers, ClaimWindow(c, t) PROVE Usdt0Inv' /\ UNCHANGED u0Status
  <2>0. PICK g \in BOOLEAN : g = (t \in u0Guid)
    <3>1. CASE t \in u0Guid
      <4>1. TRUE = (t \in u0Guid)  BY <3>1
      <4> QED  BY <4>1, Zenon
    <3>2. CASE t \notin u0Guid
      <4>1. FALSE = (t \in u0Guid)  BY <3>2
      <4> QED  BY <4>1, Zenon
    <3> QED  BY <3>1, <3>2
  <2>1. PICK l \in BOOLEAN : l = (u0Age[t] = 2)  OBVIOUS
  <2>2. u0Status[t] \in {"PENDING", "SUBMITTED"}
    BY <1>1 DEF ClaimWindow, Usdt0Inv, Usdt0Type
  <2> DEFINE r == [NoCall EXCEPT !.pc = "ask", !.t = t, !.status = u0Status[t], !.guid = g, !.late = l]
  <2>3. r \in TransferCall /\ r.pc = "ask" /\ r.t = t /\ r.status = u0Status[t] /\ r.late = l
    BY <2>2 DEF NoCall, TransferCall
  <2>4. CallKnows(r)  BY <2>1, <2>2, <2>3 DEF CallKnows
  <2>5. u0Call' = [u0Call EXCEPT ![c] = r]  BY <1>1, <2>0, <2>1 DEF ClaimWindow
  <2> QED  BY <1>1, <2>3, <2>4, <2>5, CallGoes DEF ClaimWindow
<1>2. CASE AskLedger(c)
  <2>1. u0Call[c].pc = "ask" /\ u0Call[c].t \in Transfers  BY <1>0, <1>2 DEF AskLedger, CallKnows
  <2>2. CASE ~AsksLedger(c)
    <3> DEFINE r == [u0Call[c] EXCEPT !.pc = "scan"]
    <3>1. r \in TransferCall /\ r.pc = "scan" /\ r.t = u0Call[c].t /\ r.status = u0Call[c].status
      BY <1>0 DEF TransferCall
    <3>2. CallKnows(r)  BY <1>0, <2>1, <3>1 DEF CallKnows
    <3> QED  BY <1>2, <2>2, <3>1, <3>2, CallGoes DEF AskLedger
  <2>3. CASE AsksLedger(c)
    <3>1. PICK o \in {"ok", "failed", "absent"} :
            o = LedgerOutcome(u0Call[c].t) /\ (o = "absent" => u0Call[c].t \notin u0Shown)
      BY <2>1 DEF LedgerOutcome, Usdt0Inv, Applied
    <3> DEFINE r == [u0Call[c] EXCEPT !.pc = "apply", !.outcome = o]
    <3>2. /\ r \in TransferCall /\ r.pc = "apply" /\ r.t = u0Call[c].t /\ r.status = u0Call[c].status
          /\ r.outcome = o /\ r.late = u0Call[c].late
      BY <1>0 DEF TransferCall
    <3>3. CallKnows(r)
      <4>1. LedgerNext(r) = "EXPIRED" => o = "absent" /\ r.late
        BY <1>0, <2>1, <3>2 DEF LedgerNext, CallKnows
      <4> QED  BY <1>0, <2>1, <3>1, <3>2, <4>1 DEF CallKnows, Lapsed
    <3> QED  BY <1>2, <2>3, <3>1, <3>2, <3>3, CallGoes DEF AskLedger
  <2> QED  BY <2>2, <2>3
<1>3. CASE AskScan(c)
  <2>1. u0Call[c].pc = "scan" /\ u0Call[c].t \in Transfers  BY <1>0, <1>3 DEF AskScan, CallKnows
  <2> DEFINE r == [u0Call[c] EXCEPT !.pc = "record", !.outcome = u0Scan[u0Call[c].t]]
  <2>2. r \in TransferCall /\ r.pc = "record" /\ r.t = u0Call[c].t /\ r.status = u0Call[c].status
    BY <1>0, <2>1 DEF TransferCall, Usdt0Inv, Usdt0Type
  <2>3. CallKnows(r)  BY <1>0, <2>1, <2>2 DEF CallKnows
  <2> QED  BY <1>3, <2>2, <2>3, CallGoes DEF AskScan
<1>4. CASE ApplyLedger(c)
  <2>1. u0Call[c].pc = "apply" /\ u0Call[c].t \in Transfers /\ u0Call[c].status \in {"PENDING", "SUBMITTED"}
    BY <1>0, <1>4 DEF ApplyLedger, CallKnows
  <2>2. PICK receipt \in BOOLEAN : Transition(c, LedgerNext(u0Call[c]), u0Call[c].outcome = "ok" /\ receipt)
    BY <1>4 DEF ApplyLedger
  <2>3. PICK next \in {"PENDING", "SUBMITTED"} \cup Usdt0Final, g \in BOOLEAN :
          /\ next = LedgerNext(u0Call[c]) /\ g = (u0Call[c].outcome = "ok" /\ receipt)
          /\ next = "EXPIRED" => Lapsed(u0Call[c].t)
    BY <1>0, <2>1 DEF LedgerNext, Usdt0Final, CallKnows
  <2>4. Transition(c, next, g)  BY <2>2, <2>3
  <2> DEFINE s == [u0Call[c] EXCEPT !.pc = "scan", !.status = "SUBMITTED"]
  <2>5. s \in TransferCall /\ s.pc = "scan" /\ s.t = u0Call[c].t /\ s.status = "SUBMITTED"
    BY <1>0 DEF TransferCall
  <2>6. PICK r \in TransferCall :
          /\ r.pc \in {"idle", "scan"} /\ u0Call' = [u0Call EXCEPT ![c] = r]
          /\ r.pc # "idle" => r.t \in Transfers /\ r.status \in {"PENDING", "SUBMITTED"}
    BY <1>0, <1>4, <2>1, <2>5 DEF ApplyLedger
  <2> QED  BY <2>1, <2>3, <2>4, <2>6, TransitionKeeps
<1>5. CASE FollowMessage(c)
  <2>1. u0Call[c].pc = "record" /\ u0Call' = [u0Call EXCEPT ![c] = NoCall]  BY <1>5 DEF FollowMessage
  <2>2. CASE UNCHANGED <<u0Row, u0World, u0Faults>>
    BY <1>0, <2>1, <2>2, CallGoes
  <2>3. ASSUME NEW next \in {"SUBMITTED", "DELIVERED", "FAILED"}, Transition(c, next, TRUE)
        PROVE  /\ Usdt0Inv'
               /\ \A t \in Transfers : u0Status[t] \in Usdt0Final => u0Status'[t] = u0Status[t]
    <3>1. next \in {"PENDING", "SUBMITTED"} \cup Usdt0Final /\ next # "EXPIRED"  BY DEF Usdt0Final
    <3> QED  BY <1>0, <2>1, <2>3, <3>1, TransitionKeeps
  <2> QED  BY <1>5, <2>2, <2>3 DEF FollowMessage
<1>6. ASSUME NEW t \in Transfers, ReadForSend(c, t) PROVE Usdt0Inv' /\ UNCHANGED u0Status
  <2> DEFINE r == [NoCall EXCEPT !.pc = "send", !.t = t, !.status = "PENDING"]
  <2>1. r \in TransferCall /\ r.pc = "send" /\ r.t = t /\ r.status = "PENDING"
    BY DEF NoCall, TransferCall
  <2>2. CallKnows(r)  BY <2>1 DEF CallKnows
  <2> QED  BY <1>6, <2>1, <2>2, CallGoes DEF ReadForSend
<1>7. CASE SendAccepted(c)
  <2>1. u0Call[c].pc = "send" /\ u0Call[c].t \in Transfers /\ u0Call[c].status = "PENDING"
    BY <1>0, <1>7 DEF SendAccepted, CallKnows
  <2> DEFINE r == [u0Call[c] EXCEPT !.pc = "await", !.accepted = TRUE]
  <2>2. r \in TransferCall /\ r.pc = "await" /\ r.t = u0Call[c].t /\ r.status = "PENDING" /\ r.accepted
    BY <1>0, <2>1 DEF TransferCall
  <2>3. PICK l \in {"none", "queued", "ok", "failed"} :
          /\ u0Ledger' = [u0Ledger EXCEPT ![u0Call[c].t] = l]
          /\ u0Ledger[u0Call[c].t] # "none" => l = u0Ledger[u0Call[c].t]
    BY <1>7, <2>1 DEF SendAccepted, Usdt0Inv, Usdt0Type
  <2>4. /\ u0Ledger' \in [Transfers -> {"none", "queued", "ok", "failed"}]
        /\ \A t \in Transfers : Applied(t) => Applied(t)'
    BY <2>1, <2>3 DEF Usdt0Inv, Usdt0Type, Applied
  <2>5. UNCHANGED <<u0Status, u0Age, u0Shown, u0Scan>> /\ u0Call' = [u0Call EXCEPT ![c] = r]
    BY <1>7 DEF SendAccepted
  <2>6. \A x : Lapsed(x)' <=> Lapsed(x)  BY <2>5 DEF Lapsed
  <2>7. ASSUME NEW d \in Usdt0Callers PROVE CallKnows(u0Call[d])'
    <3>1. u0Call'[d] = u0Call[d] \/ u0Call'[d] = r  BY <2>5 DEF Usdt0Inv, Usdt0Type
    <3>2. CASE u0Call'[d] = r  BY <2>1, <2>2, <3>2 DEF CallKnows
    <3>3. CASE u0Call'[d] = u0Call[d]
      BY <2>5, <2>6, <3>3 DEF Usdt0Inv, CallKnows, LedgerNext
    <3> QED  BY <3>1, <3>2, <3>3
  <2> QED  BY <2>2, <2>4, <2>5, <2>6, <2>7 DEF Usdt0Inv, Usdt0Type
<1>8. ASSUME SendRefused(c) \/ AwaitLedger(c) PROVE Usdt0Inv' /\ UNCHANGED u0Status
  <2>1. /\ u0Call[c].t \in Transfers /\ u0Call[c].status = "PENDING"
        /\ AwaitLedger(c) => u0Call[c].accepted
    BY <1>0, <1>8 DEF SendRefused, AwaitLedger, CallKnows
  <2>2. PICK o \in {"ok", "failed", "absent"}, l \in BOOLEAN :
          /\ l = (u0Age[u0Call[c].t] = 2)
          /\ o = "absent" => u0Call[c].t \notin u0Shown \/ u0Call[c].accepted
          /\ u0Call' = [u0Call EXCEPT ![c] = [u0Call[c] EXCEPT !.pc = "apply", !.late = l, !.outcome = o]]
    <3>1. LedgerOutcome(u0Call[c].t) \in {"ok", "failed", "absent"}
          /\ (LedgerOutcome(u0Call[c].t) = "absent" => u0Call[c].t \notin u0Shown)
      BY <2>1 DEF LedgerOutcome, Usdt0Inv, Applied
    <3>2. PICK o \in {"ok", "failed", "absent"} :
            /\ o = "absent" => u0Call[c].t \notin u0Shown \/ u0Call[c].accepted
            /\ u0Call' = [u0Call EXCEPT ![c] =
                 [u0Call[c] EXCEPT !.pc = "apply", !.late = (u0Age[u0Call[c].t] = 2), !.outcome = o]]
      <4>1. CASE SendRefused(c)  BY <3>1, <4>1 DEF SendRefused
      <4>2. CASE AwaitLedger(c)
        <5>1. PICK o \in {LedgerOutcome(u0Call[c].t), "absent"} :
                u0Call' = [u0Call EXCEPT ![c] =
                  [u0Call[c] EXCEPT !.pc = "apply", !.outcome = o, !.late = (u0Age[u0Call[c].t] = 2)]]
          BY <4>2 DEF AwaitLedger
        <5>2. [u0Call[c] EXCEPT !.pc = "apply", !.outcome = o, !.late = (u0Age[u0Call[c].t] = 2)]
                = [u0Call[c] EXCEPT !.pc = "apply", !.late = (u0Age[u0Call[c].t] = 2), !.outcome = o]
          BY <1>0 DEF TransferCall
        <5> QED  BY <2>1, <3>1, <4>2, <5>1, <5>2
      <4> QED  BY <1>8, <4>1, <4>2
    <3> QED  BY <3>2
  <2> DEFINE r == [u0Call[c] EXCEPT !.pc = "apply", !.late = l, !.outcome = o]
  <2>3. /\ r \in TransferCall /\ r.pc = "apply" /\ r.t = u0Call[c].t /\ r.status = "PENDING"
        /\ r.late = l /\ r.outcome = o /\ r.accepted = u0Call[c].accepted
    BY <1>0, <2>1 DEF TransferCall
  <2>4. CallKnows(r)
    <3>1. LedgerNext(r) = "EXPIRED" => o = "absent" /\ l /\ ~u0Call[c].accepted
      BY <2>3 DEF LedgerNext
    <3> QED  BY <2>1, <2>2, <2>3, <3>1 DEF CallKnows, Lapsed
  <2> QED  BY <1>8, <2>2, <2>3, <2>4, CallGoes DEF SendRefused, AwaitLedger
<1>9. CASE FailTransferCall(c)
  BY <1>0, <1>9, CallGoes DEF FailTransferCall
<1>10. SendAccepted(c) => UNCHANGED u0Status  BY DEF SendAccepted
<1>11. FailTransferCall(c) \/ AskLedger(c) \/ AskScan(c) => UNCHANGED u0Status
  BY DEF FailTransferCall, AskLedger, AskScan
<1> QED
  BY <1>1, <1>2, <1>3, <1>4, <1>5, <1>6, <1>7, <1>8, <1>9, <1>10, <1>11 DEF Usdt0Step

\* Every step of a transfer's world and calls keeps the invariant and the final statuses.
LEMMA Usdt0TransfersStep ==
    ASSUME Usdt0Inv, [Usdt0TransfersNext]_u0Vars
    PROVE  /\ Usdt0Inv'
           /\ \A t \in Transfers : u0Status[t] \in Usdt0Final => u0Status'[t] = u0Status[t]
<1>1. CASE UNCHANGED u0Vars
  <2>1. UNCHANGED <<u0Status, u0Age, u0Ledger, u0Shown, u0Scan, u0Call>>
    BY <1>1 DEF u0Vars, u0Row, u0World
  <2>2. \A c \in Usdt0Callers : CallKnows(u0Call[c])'
    BY <2>1 DEF Usdt0Inv, CallKnows, LedgerNext, Lapsed
  <2> QED  BY <2>1, <2>2 DEF Usdt0Inv, Usdt0Type, Lapsed, Applied
<1>2. ASSUME NEW t \in Transfers,
             \/ CreateTransfer(t) \/ WalletSends(t) \/ LedgerApplies(t) \/ RpcShows(t)
             \/ RpcForgets(t) \/ ScanMoves(t) \/ AgeTransfer(t) \/ WindowPasses(t)
      PROVE  \A s \in Transfers : u0Status[s] \in Usdt0Final => u0Status'[s] = u0Status[s]
  BY <1>2 DEF CreateTransfer, WalletSends, LedgerApplies, RpcShows, RpcForgets, ScanMoves,
              AgeTransfer, WindowPasses, u0Row, Usdt0Inv, Usdt0Type, Usdt0Final
<1> QED  BY <1>1, <1>2, Usdt0WorldStep, Usdt0CallStep DEF Usdt0TransfersNext

\* No racing read or submit gives up on a transaction the ledger applied, unless the RPC
\* forgot it before anybody asked: for any number of transfers and callers
\* (Usdt0Service.refresh, submit, applyLedger).
THEOREM ExpiredSound ==
    Usdt0TransfersInit /\ [][Usdt0TransfersNext]_u0Vars => []ExpiredNeverApplied
<1>1. Usdt0TransfersInit => Usdt0Inv
  BY DEF Usdt0TransfersInit, Usdt0Inv, Usdt0Type, NoCall, TransferCall, CallKnows
<1>2. Usdt0Inv /\ [Usdt0TransfersNext]_u0Vars => Usdt0Inv'
  BY Usdt0TransfersStep
<1>3. Usdt0Inv => ExpiredNeverApplied
  BY DEF Usdt0Inv, Lapsed, ExpiredNeverApplied, Forgotten
<1> QED  BY <1>1, <1>2, <1>3, PTL

\* What a wallet was told in the end of a transfer is never replaced by an older answer.
THEOREM TransferEndsOnce ==
    Usdt0TransfersInit /\ [][Usdt0TransfersNext]_u0Vars => TransferFinal
<1>1. Usdt0TransfersInit => Usdt0Inv
  BY DEF Usdt0TransfersInit, Usdt0Inv, Usdt0Type, NoCall, TransferCall, CallKnows
<1>2. Usdt0Inv /\ [Usdt0TransfersNext]_u0Vars =>
        Usdt0Inv' /\ \A t \in Transfers : u0Status[t] \in Usdt0Final => u0Status'[t] = u0Status[t]
  BY Usdt0TransfersStep
<1> QED  BY <1>1, <1>2, PTL DEF TransferFinal

-----------------------------------------------------------------------------
(***************************************************************************)
(* Swaps on Solana and Monad.  The unique index on the key leaves one row. *)
(* An observer settles on what the chain said of the hash it read: the     *)
(* hash is written once, over PENDING, and an observer that asked the      *)
(* chain read a row that had left PENDING.                                 *)
(***************************************************************************)

SwapCall ==
    [pc : {"idle", "build", "answered", "refused", "broadcast", "record"},
     terms : SwapTerms \cup {NoTerms}, s : ChainSwapIds \cup {0}, v : Variants \cup {0}]
Watch ==
    [pc : {"idle", "decide", "settle", "emit"}, s : ChainSwapIds \cup {0},
     status : {"none", "PENDING", "SUBMITTED", "EXPIRED"},
     next : {"none", "EXPIRED", "SUCCEEDED", "FAILED"}]
OnChainStates == {"unknown", "pending", "dropped", "fork_ok", "fork_err", "ok", "err"}
SwapEvents == {"SWAP_CREATED", "SWAP_SUBMITTED", "SWAP_SUCCEEDED", "SWAP_FAILED"}

SwapsType ==
    /\ csStatus \in [ChainSwapIds -> {"ABSENT", "PENDING", "SUBMITTED", "EXPIRED", "SUCCEEDED", "FAILED"}]
    /\ csTerms \in [ChainSwapIds -> SwapTerms \cup {NoTerms}]
    /\ csHash \in [ChainSwapIds -> Variants \cup {0}]
    /\ csChain \in [ChainSwapIds -> [Variants -> OnChainStates]]
    /\ csEvents \in [ChainSwapIds -> SUBSET SwapEvents]
    /\ swapClient \in [SwapClients -> SwapCall]
    /\ swapObserver \in [SwapObservers -> Watch]

KeyHasOneRow ==
    /\ SwapRows \subseteq {1}
    /\ \A a \in csAnswers : a = <<csTerms[1], 1>> /\ csStatus[1] # "ABSENT"

CallerKnows(r) ==
    /\ r.pc \in {"answered", "broadcast", "record"} => r.s \in ChainSwapIds
    /\ r.pc \in {"broadcast", "record"} => r.v \in Variants

SwapTrue(s) ==
    /\ csStatus[s] \in {"SUBMITTED", "SUCCEEDED"} => csHash[s] \in Variants
    /\ csStatus[s] = "SUCCEEDED" => csChain[s][csHash[s]] = "ok"
    /\ "SWAP_SUCCEEDED" \in csEvents[s] => csStatus[s] = "SUCCEEDED"
    /\ "SWAP_FAILED" \in csEvents[s] => csStatus[s] = "FAILED"

WatchKnows(r) ==
    r.pc # "idle" =>
      /\ r.s \in ChainSwapIds /\ r.status # "none" /\ csStatus[r.s] # "ABSENT"
      /\ r.status # "PENDING" => csStatus[r.s] # "PENDING" /\ csHash[r.s] \in Variants
      /\ r.pc = "settle" => r.next # "none"
      /\ r.pc = "settle" /\ r.next = "SUCCEEDED" =>
           r.status # "PENDING" /\ csChain[r.s][csHash[r.s]] = "ok"
      /\ r.pc = "emit" => r.next \in {"SUCCEEDED", "FAILED"} /\ csStatus[r.s] = r.next

SwapsInv ==
    /\ SwapsType /\ KeyHasOneRow
    /\ \A c \in SwapClients : CallerKnows(swapClient[c])
    /\ \A s \in ChainSwapIds : SwapTrue(s)
    /\ \A o \in SwapObservers : WatchKnows(swapObserver[o])

\* What a step on the row or the chain of a swap keeps for an observer that read it: the
\* row stays, its status never goes back to PENDING, the hash and a landing stay.
RowMovesOn ==
    \A s \in ChainSwapIds :
      /\ csStatus[s] # "ABSENT" => csStatus'[s] # "ABSENT"
      /\ csStatus[s] \notin {"ABSENT", "PENDING"} => csStatus'[s] # "PENDING" /\ csHash'[s] = csHash[s]
      /\ csStatus[s] \in {"SUCCEEDED", "FAILED"} => csStatus'[s] = csStatus[s]
      /\ \A v \in Variants : csChain[s][v] = "ok" => csChain'[s][v] = "ok"

\* What an observer read of a swap stays true while the row and the chain only move on.
LEMMA WatchStays ==
    ASSUME RowMovesOn, NEW r, WatchKnows(r) PROVE WatchKnows(r)'
BY DEF RowMovesOn, WatchKnows

\* A step of a client that touches neither row nor chain.
LEMMA ClientGoes ==
    ASSUME SwapsInv, NEW c \in SwapClients, NEW r \in SwapCall, CallerKnows(r),
           swapClient' = [swapClient EXCEPT ![c] = r], KeyHasOneRow',
           UNCHANGED <<csStatus, csTerms, csHash, csChain, csEvents, swapObserver>>
    PROVE  SwapsInv'
<1>1. \A d \in SwapClients : CallerKnows(swapClient'[d])
  BY DEF SwapsInv, SwapsType, CallerKnows
<1>2. \A o \in SwapObservers : WatchKnows(swapObserver[o])'
  BY DEF SwapsInv, WatchKnows
<1>3. \A s \in ChainSwapIds : SwapTrue(s)'  BY DEF SwapsInv, SwapTrue
<1> QED  BY <1>1, <1>2, <1>3 DEF SwapsInv, SwapsType, CallerKnows

\* A step of an observer that writes nothing but its locals.
LEMMA WatchGoes ==
    ASSUME SwapsInv, NEW o \in SwapObservers, NEW r \in Watch, WatchKnows(r),
           swapObserver' = [swapObserver EXCEPT ![o] = r],
           UNCHANGED <<csStatus, csTerms, csHash, csChain, csEvents, csAnswers, swapClient>>
    PROVE  SwapsInv'
<1>1. \A p \in SwapObservers : WatchKnows(swapObserver[p])'
  BY DEF SwapsInv, SwapsType, WatchKnows
<1>2. \A s \in ChainSwapIds : SwapTrue(s)'  BY DEF SwapsInv, SwapTrue
<1>3. KeyHasOneRow'  BY DEF SwapsInv, KeyHasOneRow, SwapRows
<1> QED  BY <1>1, <1>2, <1>3 DEF SwapsInv, SwapsType, CallerKnows

\* create: whoever inserts first, everybody else replays that row.
LEMMA CreateKeeps ==
    ASSUME SwapsInv, NEW c \in SwapClients,
           Persist(c) \/ \E terms \in SwapTerms : FindByKey(c, terms)
    PROVE  SwapsInv' /\ RowMovesOn
<1> USE DEF csRow, csWorld
<1>0. swapClient[c] \in SwapCall /\ QuietClient \in SwapCall
  BY DEF SwapsInv, SwapsType, QuietClient, SwapCall
<1>1. ASSUME NEW terms \in SwapTerms \cup {NoTerms}, NEW s \in SwapRows, ReplaySwap(c, terms, s)
      PROVE  SwapsInv' /\ RowMovesOn
  <2>1. s = 1 /\ s \in ChainSwapIds /\ csStatus[1] # "ABSENT"
    BY DEF SwapsInv, KeyHasOneRow, SwapRows
  <2>2. PICK pc \in {"answered", "refused"}, n \in ChainSwapIds \cup {0} :
          /\ swapClient' = [swapClient EXCEPT ![c] =
                              [QuietClient EXCEPT !.terms = terms, !.pc = pc, !.s = n]]
          /\ pc = "answered" => n \in ChainSwapIds
    BY <1>1, <2>1 DEF ReplaySwap
  <2> DEFINE r == [QuietClient EXCEPT !.terms = terms, !.pc = pc, !.s = n]
  <2>3. r \in SwapCall /\ r.pc = pc /\ r.s = n  BY DEF QuietClient, SwapCall
  <2>4. CallerKnows(r)  BY <2>2, <2>3 DEF CallerKnows
  <2>5. UNCHANGED <<csStatus, csTerms, csHash, csChain, csEvents, swapObserver>>
    BY <1>1 DEF ReplaySwap
  <2>6. KeyHasOneRow'
    <3>1. csAnswers' = csAnswers \/ (csTerms[1] = terms /\ csAnswers' = csAnswers \cup {<<terms, 1>>})
      BY <1>1, <2>1 DEF ReplaySwap
    <3> QED  BY <2>1, <2>5, <3>1 DEF SwapsInv, KeyHasOneRow, SwapRows
  <2>7. RowMovesOn  BY <2>5 DEF RowMovesOn
  <2> QED  BY <2>2, <2>3, <2>4, <2>5, <2>6, <2>7, ClientGoes
<1>2. ASSUME NEW terms \in SwapTerms, FindByKey(c, terms) PROVE SwapsInv' /\ RowMovesOn
  <2>1. CASE SwapRows # {}
    <3>1. PICK s \in SwapRows : ReplaySwap(c, terms, s)  BY <1>2, <2>1 DEF FindByKey
    <3> QED  BY <1>1, <3>1
  <2>2. CASE SwapRows = {}
    <3> DEFINE r == [swapClient[c] EXCEPT !.pc = "build", !.terms = terms]
    <3>1. r \in SwapCall /\ r.pc = "build"  BY <1>0 DEF SwapCall
    <3>2. CallerKnows(r)  BY <3>1 DEF CallerKnows
    <3>3. /\ swapClient' = [swapClient EXCEPT ![c] = r]
          /\ UNCHANGED <<csStatus, csTerms, csHash, csChain, csEvents, swapObserver, csAnswers>>
      BY <1>2, <2>2 DEF FindByKey
    <3>4. KeyHasOneRow' /\ RowMovesOn
      BY <3>3 DEF SwapsInv, KeyHasOneRow, SwapRows, RowMovesOn
    <3> QED  BY <3>1, <3>2, <3>3, <3>4, ClientGoes
  <2> QED  BY <2>1, <2>2
<1>3. CASE Persist(c)
  <2>1. CASE KeyTaken(c)
    <3>1. PICK s \in SwapRows : ReplaySwap(c, swapClient[c].terms, s)  BY <1>3, <2>1 DEF Persist
    <3>2. swapClient[c].terms \in SwapTerms \cup {NoTerms}  BY <1>0 DEF SwapCall
    <3> QED  BY <1>1, <3>1, <3>2
  <2>2. CASE ~KeyTaken(c)
    <3>1. SwapRows = {} /\ \A s \in ChainSwapIds : csStatus[s] = "ABSENT"
      BY <2>2 DEF KeyTaken, SwapRows
    <3>2. Cardinality(SwapRows) + 1 = 1 /\ 1 \in ChainSwapIds
      BY <3>1, FS_EmptySet, SwapBounds DEF ChainSwapIds
    <3>3. PICK terms \in SwapTerms \cup {NoTerms} : terms = swapClient[c].terms  BY <1>0 DEF SwapCall
    <3> DEFINE r == [swapClient[c] EXCEPT !.pc = "answered", !.s = 1]
    <3>4. /\ csStatus' = [csStatus EXCEPT ![1] = "PENDING"]
          /\ csTerms' = [csTerms EXCEPT ![1] = terms]
          /\ csEvents' = [csEvents EXCEPT ![1] = @ \cup {"SWAP_CREATED"}]
          /\ csAnswers' = csAnswers \cup {<<terms, 1>>}
          /\ swapClient' = [swapClient EXCEPT ![c] = r]
          /\ UNCHANGED <<csHash, csChain, swapObserver>>
      BY <1>3, <2>2, <3>2, <3>3 DEF Persist
    <3>5. RowMovesOn  BY <3>1, <3>4 DEF RowMovesOn
    <3>6. \A o \in SwapObservers : WatchKnows(swapObserver[o])'
      <4> SUFFICES ASSUME NEW o \in SwapObservers PROVE WatchKnows(swapObserver[o])'  OBVIOUS
      <4>1. swapObserver[o].pc = "idle"  BY <3>1 DEF SwapsInv, WatchKnows
      <4> QED  BY <3>4, <4>1 DEF WatchKnows
    <3>7. csAnswers = {}  BY <3>1, <3>2 DEF SwapsInv, KeyHasOneRow
    <3>8. KeyHasOneRow'
      <4>1. csStatus'[1] = "PENDING" /\ csTerms'[1] = terms /\ csAnswers' = {<<terms, 1>>}
            /\ \A s \in ChainSwapIds \ {1} : csStatus'[s] = "ABSENT"
        BY <3>1, <3>2, <3>4, <3>7 DEF SwapsInv, SwapsType
      <4> QED  BY <4>1 DEF KeyHasOneRow, SwapRows
    <3>9. r \in SwapCall /\ CallerKnows(r)
      <4>1. r \in SwapCall /\ r.pc = "answered" /\ r.s = 1  BY <1>0, <3>2 DEF SwapCall
      <4> QED  BY <3>2, <4>1 DEF CallerKnows
    <3>10. \A d \in SwapClients : CallerKnows(swapClient[d])'
      BY <3>4, <3>9 DEF SwapsInv, SwapsType, CallerKnows
    <3>11. \A s \in ChainSwapIds : SwapTrue(s)'
      BY <3>1, <3>4 DEF SwapsInv, SwapsType, SwapTrue
    <3>12. SwapsType'
      BY <3>2, <3>4, <3>9 DEF SwapsInv, SwapsType, SwapEvents
    <3> QED  BY <3>5, <3>6, <3>8, <3>10, <3>11, <3>12 DEF SwapsInv
  <2> QED  BY <2>1, <2>2
<1> QED  BY <1>2, <1>3

\* submit: the hash is written once, over PENDING.
LEMMA SubmitKeeps ==
    ASSUME SwapsInv, NEW c \in SwapClients,
           \/ \E v \in Variants : ReadForSubmit(c, v)
           \/ BroadcastSwap(c) \/ RecordSubmitted(c) \/ FailSubmit(c)
    PROVE  SwapsInv' /\ RowMovesOn
<1> USE DEF csRow, csWorld
<1>0. swapClient[c] \in SwapCall /\ CallerKnows(swapClient[c])  BY DEF SwapsInv, SwapsType
<1>1. ASSUME NEW r \in SwapCall, CallerKnows(r), swapClient' = [swapClient EXCEPT ![c] = r],
             UNCHANGED <<csStatus, csTerms, csHash, csChain, csEvents, csAnswers, swapObserver>>
      PROVE  SwapsInv' /\ RowMovesOn
  <2>1. KeyHasOneRow' /\ RowMovesOn
    BY <1>1 DEF SwapsInv, KeyHasOneRow, SwapRows, RowMovesOn
  <2> QED  BY <1>1, <2>1, ClientGoes
<1>2. ASSUME NEW v \in Variants, ReadForSubmit(c, v) PROVE SwapsInv' /\ RowMovesOn
  <2> DEFINE r == [swapClient[c] EXCEPT !.pc = "broadcast", !.v = v]
  <2>1. r \in SwapCall /\ r.pc = "broadcast" /\ r.v = v /\ r.s = swapClient[c].s
    BY <1>0 DEF SwapCall
  <2>2. CallerKnows(r)  BY <1>0, <1>2, <2>1 DEF ReadForSubmit, CallerKnows
  <2>3. swapClient' = [swapClient EXCEPT ![c] = r]  BY <1>2 DEF ReadForSubmit, SwapsInv, SwapsType
  <2> QED  BY <1>1, <1>2, <2>1, <2>2, <2>3 DEF ReadForSubmit
<1>3. [swapClient[c] EXCEPT !.pc = "answered", !.v = 0] \in SwapCall
      /\ [swapClient[c] EXCEPT !.pc = "answered", !.v = 0].pc = "answered"
      /\ [swapClient[c] EXCEPT !.pc = "answered", !.v = 0].s = swapClient[c].s
  BY <1>0 DEF SwapCall
<1>4. CASE FailSubmit(c)
  <2> DEFINE r == [swapClient[c] EXCEPT !.pc = "answered", !.v = 0]
  <2>1. CallerKnows(r)  BY <1>0, <1>3, <1>4 DEF FailSubmit, CallerKnows
  <2>2. swapClient' = [swapClient EXCEPT ![c] = r]  BY <1>4 DEF FailSubmit, SwapsInv, SwapsType
  <2> QED  BY <1>1, <1>3, <1>4, <2>1, <2>2 DEF FailSubmit
<1>5. CASE BroadcastSwap(c)
  <2>1. PICK s \in ChainSwapIds, v \in Variants : s = swapClient[c].s /\ v = swapClient[c].v
    BY <1>0, <1>5 DEF BroadcastSwap, CallerKnows
  <2> DEFINE r == [swapClient[c] EXCEPT !.pc = "record"]
  <2>2. r \in SwapCall /\ r.pc = "record" /\ r.s = s /\ r.v = v  BY <1>0, <2>1 DEF SwapCall
  <2>3. CallerKnows(r)  BY <2>2 DEF CallerKnows
  <2>4. /\ swapClient' = [swapClient EXCEPT ![c] = r]
        /\ UNCHANGED <<csStatus, csTerms, csHash, csEvents, csAnswers, swapObserver>>
        /\ csChain' = [csChain EXCEPT ![s][v] = IF @ \in {"unknown", "dropped"} THEN "pending" ELSE @]
    BY <1>5, <2>1 DEF BroadcastSwap, SwapsInv, SwapsType
  <2>5. /\ csChain' \in [ChainSwapIds -> [Variants -> OnChainStates]]
        /\ \A t \in ChainSwapIds, w \in Variants : csChain[t][w] = "ok" => csChain'[t][w] = "ok"
    BY <2>4 DEF SwapsInv, SwapsType, OnChainStates
  <2>6. RowMovesOn  BY <2>4, <2>5 DEF RowMovesOn
  <2>7. \A o \in SwapObservers : WatchKnows(swapObserver[o])'
    BY <2>4, <2>6 DEF SwapsInv, RowMovesOn, WatchKnows
  <2>8. \A t \in ChainSwapIds : SwapTrue(t)'  BY <2>4, <2>5 DEF SwapsInv, SwapTrue
  <2>9. KeyHasOneRow'  BY <2>4 DEF SwapsInv, KeyHasOneRow, SwapRows
  <2>10. \A d \in SwapClients : CallerKnows(swapClient[d])'
    BY <2>3, <2>4 DEF SwapsInv, SwapsType, CallerKnows
  <2> QED  BY <2>2, <2>4, <2>5, <2>6, <2>7, <2>8, <2>9, <2>10 DEF SwapsInv, SwapsType
<1>6. CASE RecordSubmitted(c)
  <2>1. PICK s \in ChainSwapIds, v \in Variants : s = swapClient[c].s /\ v = swapClient[c].v
    BY <1>0, <1>6 DEF RecordSubmitted, CallerKnows
  <2> DEFINE r == [swapClient[c] EXCEPT !.pc = "answered", !.v = 0]
  <2>2. CallerKnows(r)  BY <1>3, <2>1 DEF CallerKnows
  <2>3. /\ swapClient' = [swapClient EXCEPT ![c] = r]
        /\ UNCHANGED <<csTerms, csChain, csAnswers, swapObserver>>
    BY <1>6 DEF RecordSubmitted, SwapsInv, SwapsType
  <2>4. CASE csStatus[s] # "PENDING"
    <3>1. UNCHANGED <<csStatus, csHash, csEvents>>  BY <1>6, <2>1, <2>4 DEF RecordSubmitted, RecordPending
    <3> QED  BY <1>1, <1>3, <2>2, <2>3, <3>1
  <2>5. CASE csStatus[s] = "PENDING"
    <3>1. /\ csStatus' = [csStatus EXCEPT ![s] = "SUBMITTED"] /\ csHash' = [csHash EXCEPT ![s] = v]
          /\ csEvents' = [csEvents EXCEPT ![s] = @ \cup {"SWAP_SUBMITTED"}]
      BY <1>6, <2>1, <2>5 DEF RecordSubmitted, RecordPending
    <3>2. RowMovesOn  BY <2>3, <2>5, <3>1 DEF RowMovesOn, SwapsInv, SwapsType
    <3>3. \A o \in SwapObservers : WatchKnows(swapObserver[o])'
      BY <2>3, <3>2 DEF SwapsInv, RowMovesOn, WatchKnows
    <3>4. \A t \in ChainSwapIds : SwapTrue(t)'
      BY <2>3, <2>5, <3>1 DEF SwapsInv, SwapsType, SwapTrue
    <3>5. KeyHasOneRow'
      BY <2>3, <2>5, <3>1 DEF SwapsInv, SwapsType, KeyHasOneRow, SwapRows
    <3>6. \A d \in SwapClients : CallerKnows(swapClient[d])'
      BY <2>2, <2>3 DEF SwapsInv, SwapsType, CallerKnows
    <3>7. SwapsType'  BY <1>3, <2>3, <3>1 DEF SwapsInv, SwapsType, SwapEvents
    <3> QED  BY <3>2, <3>3, <3>4, <3>5, <3>6, <3>7 DEF SwapsInv
  <2> QED  BY <2>4, <2>5
<1> QED  BY <1>2, <1>4, <1>5, <1>6

\* The chains: a landing stays.
LEMMA ChainKeeps ==
    ASSUME SwapsInv,
           \/ \E s \in ChainSwapIds, v \in Variants : ChainMoves(s, v) \/ ChainForgets(s, v)
           \/ \E s \in ChainSwapIds : AgeSwap(s)
    PROVE  SwapsInv' /\ RowMovesOn
<1> USE DEF csRow
<1>1. UNCHANGED <<csStatus, csTerms, csHash, csEvents, csAnswers, swapClient, swapObserver>>
  BY DEF ChainMoves, ChainForgets, AgeSwap
<1>2. /\ csChain' \in [ChainSwapIds -> [Variants -> OnChainStates]]
      /\ \A t \in ChainSwapIds, w \in Variants : csChain[t][w] = "ok" => csChain'[t][w] = "ok"
  <2>1. ASSUME NEW s \in ChainSwapIds, NEW v \in Variants, NEW to \in OnChainStates,
               csChain[s][v] # "ok", csChain' = [csChain EXCEPT ![s][v] = to]
        PROVE  /\ csChain' \in [ChainSwapIds -> [Variants -> OnChainStates]]
               /\ \A t \in ChainSwapIds, w \in Variants : csChain[t][w] = "ok" => csChain'[t][w] = "ok"
    BY <2>1 DEF SwapsInv, SwapsType
  <2>2. CASE UNCHANGED csChain  BY <2>2 DEF SwapsInv, SwapsType
  <2>3. ASSUME NEW s \in ChainSwapIds, NEW v \in Variants, ChainMoves(s, v)
        PROVE  \E to \in OnChainStates : csChain[s][v] # "ok" /\ csChain' = [csChain EXCEPT ![s][v] = to]
    BY <2>3 DEF ChainMoves, OnChainStates
  <2>4. ASSUME NEW s \in ChainSwapIds, NEW v \in Variants, ChainForgets(s, v)
        PROVE  \E to \in OnChainStates : csChain[s][v] # "ok" /\ csChain' = [csChain EXCEPT ![s][v] = to]
    BY <2>4 DEF ChainForgets, OnChainStates
  <2> QED  BY <2>1, <2>2, <2>3, <2>4 DEF AgeSwap
<1>3. RowMovesOn  BY <1>1, <1>2 DEF RowMovesOn
<1>4. \A o \in SwapObservers : WatchKnows(swapObserver[o])'
  BY <1>1, <1>3 DEF SwapsInv, RowMovesOn, WatchKnows
<1>5. \A t \in ChainSwapIds : SwapTrue(t)'  BY <1>1, <1>2 DEF SwapsInv, SwapTrue
<1>6. KeyHasOneRow'  BY <1>1 DEF SwapsInv, KeyHasOneRow, SwapRows
<1> QED  BY <1>1, <1>2, <1>3, <1>4, <1>5, <1>6 DEF SwapsInv, SwapsType, CallerKnows

\* The observer: it writes over the status it read, and only what the chain said.
LEMMA ObserverKeeps ==
    ASSUME SwapsInv, NEW o \in SwapObservers, SwapObserverStep(o) \/ FailObserver(o)
    PROVE  SwapsInv' /\ RowMovesOn
<1> USE DEF csRow, csWorld
<1>0. /\ swapObserver[o] \in Watch /\ WatchKnows(swapObserver[o])
      /\ QuietObserver \in Watch /\ WatchKnows(QuietObserver)
  <2>1. QuietObserver \in Watch /\ QuietObserver.pc = "idle"  BY DEF QuietObserver, Watch
  <2> QED  BY <2>1 DEF SwapsInv, SwapsType, WatchKnows
<1>1. ASSUME NEW r \in Watch, WatchKnows(r), swapObserver' = [swapObserver EXCEPT ![o] = r],
             UNCHANGED <<csStatus, csTerms, csHash, csChain, csEvents, csAnswers, swapClient>>
      PROVE  SwapsInv' /\ RowMovesOn
  <2>1. RowMovesOn  BY <1>1 DEF RowMovesOn
  <2> QED  BY <1>1, <2>1, WatchGoes
<1>2. ASSUME NEW s \in ChainSwapIds, PickSwap(o, s) PROVE SwapsInv' /\ RowMovesOn
  <2> DEFINE r == [pc |-> "decide", s |-> s, status |-> csStatus[s], next |-> "none"]
  <2>1. /\ csStatus[s] \in {"PENDING", "SUBMITTED", "EXPIRED"}
        /\ csStatus[s] # "PENDING" => csHash[s] \in Variants
    BY <1>2 DEF PickSwap, Observed, SwapsInv, SwapsType, SwapTrue
  <2>2. r \in Watch  BY <2>1 DEF Watch
  <2>3. WatchKnows(r)  BY <2>1 DEF WatchKnows
  <2> QED  BY <1>1, <1>2, <2>2, <2>3 DEF PickSwap
<1>3. CASE Decide(o)
  <2>1. PICK s \in ChainSwapIds : /\ s = swapObserver[o].s /\ swapObserver[o].pc = "decide"
    BY <1>0, <1>3 DEF Decide, WatchKnows
  <2>2. PICK next \in {"none", "EXPIRED", "SUCCEEDED", "FAILED"} :
          /\ next = "SUCCEEDED" => /\ swapObserver[o].status # "PENDING"
                                   /\ csChain[s][csHash[s]] = "ok"
          /\ swapObserver' = [swapObserver EXCEPT ![o] =
               IF next = "none" THEN QuietObserver
               ELSE [swapObserver[o] EXCEPT !.pc = "settle", !.next = next]]
    BY <1>3, <2>1 DEF Decide, VenueSettlement
  <2>3. CASE next = "none"
    BY <1>0, <1>1, <1>3, <2>2, <2>3 DEF Decide
  <2>4. CASE next # "none"
    <3> DEFINE r == [swapObserver[o] EXCEPT !.pc = "settle", !.next = next]
    <3>1. /\ r \in Watch /\ r.pc = "settle" /\ r.next = next /\ r.s = s
          /\ r.status = swapObserver[o].status
      BY <1>0, <2>1 DEF Watch
    <3>2. WatchKnows(r)  BY <1>0, <2>1, <2>2, <2>4, <3>1 DEF WatchKnows
    <3> QED  BY <1>1, <1>3, <2>2, <2>4, <3>1, <3>2 DEF Decide
  <2> QED  BY <2>3, <2>4
<1>4. CASE SettleSwap(o)
  <2>1. PICK s \in ChainSwapIds, next \in {"EXPIRED", "SUCCEEDED", "FAILED"} :
          /\ s = swapObserver[o].s /\ next = swapObserver[o].next
          /\ swapObserver[o].status \in {"PENDING", "SUBMITTED", "EXPIRED"}
          /\ next = "SUCCEEDED" => csHash[s] \in Variants /\ csChain[s][csHash[s]] = "ok"
    BY <1>0, <1>4 DEF SettleSwap, WatchKnows, Watch
  <2>2. CASE ~StillAsRead(o)
    BY <1>0, <1>1, <1>4, <2>2 DEF SettleSwap
  <2>3. CASE StillAsRead(o)
    <3>1. /\ csStatus[s] \in {"PENDING", "SUBMITTED", "EXPIRED"}
          /\ csStatus' = [csStatus EXCEPT ![s] = next]
          /\ UNCHANGED <<csTerms, csHash, csChain, csEvents, csAnswers, swapClient>>
      BY <1>4, <2>1, <2>3 DEF SettleSwap, StillAsRead
    <3>2. RowMovesOn  BY <3>1 DEF RowMovesOn, SwapsInv, SwapsType
    <3>3. PICK r \in Watch :
            /\ swapObserver' = [swapObserver EXCEPT ![o] = r]
            /\ r.pc = "idle" \/ (r.pc = "emit" /\ r.s = s /\ r.next = next /\ next # "EXPIRED"
                                 /\ r.status = swapObserver[o].status)
      <4>1. CASE next = "EXPIRED"
        BY <1>0, <1>4, <2>1, <2>3, <4>1 DEF SettleSwap, QuietObserver
      <4>2. CASE next # "EXPIRED"
        <5> DEFINE r == [swapObserver[o] EXCEPT !.pc = "emit"]
        <5>1. /\ r \in Watch /\ r.pc = "emit" /\ r.s = s /\ r.next = next
              /\ r.status = swapObserver[o].status
          BY <1>0, <2>1 DEF Watch
        <5> QED  BY <1>4, <2>1, <2>3, <4>2, <5>1 DEF SettleSwap
      <4> QED  BY <4>1, <4>2
    <3>4. WatchKnows(r)'
      <4>1. swapObserver[o].status # "PENDING" => csHash[s] \in Variants
        BY <1>0, <1>4, <2>1 DEF SettleSwap, WatchKnows
      <4> QED  BY <2>1, <3>1, <3>3, <4>1 DEF WatchKnows, SwapsInv, SwapsType
    <3>5. ASSUME NEW p \in SwapObservers PROVE WatchKnows(swapObserver[p])'
      <4>1. swapObserver'[p] = swapObserver[p] \/ swapObserver'[p] = r
        BY <3>3 DEF SwapsInv, SwapsType
      <4>2. CASE swapObserver'[p] = r  BY <3>4, <4>2 DEF WatchKnows
      <4>3. CASE swapObserver'[p] = swapObserver[p]
        BY <3>2, <4>3 DEF SwapsInv, RowMovesOn, WatchKnows
      <4> QED  BY <4>1, <4>2, <4>3
    <3>6. \A t \in ChainSwapIds : SwapTrue(t)'
      BY <2>1, <3>1 DEF SwapsInv, SwapsType, SwapTrue
    <3>7. KeyHasOneRow'
      BY <3>1 DEF SwapsInv, SwapsType, KeyHasOneRow, SwapRows
    <3>8. SwapsType'  BY <3>1, <3>3 DEF SwapsInv, SwapsType
    <3> QED  BY <3>1, <3>2, <3>5, <3>6, <3>7, <3>8 DEF SwapsInv, CallerKnows
  <2> QED  BY <2>2, <2>3
<1>5. CASE EmitSettled(o)
  <2>1. PICK s \in ChainSwapIds : s = swapObserver[o].s /\ swapObserver[o].next \in {"SUCCEEDED", "FAILED"}
                                  /\ csStatus[s] = swapObserver[o].next
    BY <1>0, <1>5 DEF EmitSettled, WatchKnows
  <2>2. PICK e \in {"SWAP_SUCCEEDED", "SWAP_FAILED"} :
          /\ csEvents' = [csEvents EXCEPT ![s] = @ \cup {e}]
          /\ e = "SWAP_SUCCEEDED" => csStatus[s] = "SUCCEEDED"
          /\ e = "SWAP_FAILED" => csStatus[s] = "FAILED"
    BY <1>5, <2>1 DEF EmitSettled
  <2>3. /\ UNCHANGED <<csStatus, csTerms, csHash, csChain, csAnswers, swapClient>>
        /\ swapObserver' = [swapObserver EXCEPT ![o] = QuietObserver]
    BY <1>5 DEF EmitSettled
  <2>4. RowMovesOn  BY <2>3 DEF RowMovesOn
  <2>5. ASSUME NEW p \in SwapObservers PROVE WatchKnows(swapObserver[p])'
    BY <1>0, <2>3 DEF SwapsInv, SwapsType, WatchKnows
  <2>6. \A t \in ChainSwapIds : SwapTrue(t)'
    BY <2>2, <2>3 DEF SwapsInv, SwapsType, SwapTrue
  <2>7. KeyHasOneRow'  BY <2>3 DEF SwapsInv, KeyHasOneRow, SwapRows
  <2>8. SwapsType'  BY <1>0, <2>2, <2>3 DEF SwapsInv, SwapsType, SwapEvents
  <2> QED  BY <2>3, <2>4, <2>5, <2>6, <2>7, <2>8 DEF SwapsInv, CallerKnows
<1>6. CASE FailObserver(o)
  BY <1>0, <1>1, <1>6 DEF FailObserver
<1> QED  BY <1>2, <1>3, <1>4, <1>5, <1>6 DEF SwapObserverStep

\* Every step of the swaps keeps the invariant and moves the rows on.
LEMMA ChainSwapsStep ==
    ASSUME SwapsInv, [ChainSwapsNext]_csVars
    PROVE  SwapsInv' /\ RowMovesOn
<1>1. CASE UNCHANGED csVars
  <2>1. UNCHANGED <<csStatus, csTerms, csHash, csChain, csEvents, csAnswers, swapClient, swapObserver>>
    BY <1>1 DEF csVars, csRow, csWorld
  <2>2. RowMovesOn  BY <2>1 DEF RowMovesOn
  <2>3. \A o \in SwapObservers : WatchKnows(swapObserver[o])'  BY <2>1 DEF SwapsInv, WatchKnows
  <2>4. \A s \in ChainSwapIds : SwapTrue(s)'  BY <2>1 DEF SwapsInv, SwapTrue
  <2>5. KeyHasOneRow'  BY <2>1 DEF SwapsInv, KeyHasOneRow, SwapRows
  <2> QED  BY <2>1, <2>2, <2>3, <2>4, <2>5 DEF SwapsInv, SwapsType, CallerKnows
<1> QED  BY <1>1, CreateKeeps, SubmitKeeps, ChainKeeps, ObserverKeeps DEF ChainSwapsNext

\* The swaps start with nothing answered, recorded or watched.
LEMMA ChainSwapsStart ==
    ASSUME ChainSwapsInit PROVE SwapsInv
<1>1. /\ QuietClient \in SwapCall /\ QuietClient.pc = "idle"
      /\ QuietObserver \in Watch /\ QuietObserver.pc = "idle"
  BY DEF QuietClient, QuietObserver, SwapCall, Watch
<1>2. SwapsType  BY <1>1 DEF ChainSwapsInit, SwapsType, OnChainStates
<1>3. KeyHasOneRow  BY DEF ChainSwapsInit, KeyHasOneRow, SwapRows
<1>4. \A s \in ChainSwapIds : SwapTrue(s)  BY DEF ChainSwapsInit, SwapTrue
<1> QED  BY <1>1, <1>2, <1>3, <1>4 DEF ChainSwapsInit, SwapsInv, CallerKnows, WatchKnows

\* One idempotency key buys one swap, and SUCCEEDED is the chain's confirmed word: for any
\* number of clients, variants, replicas and faults (ChainSwapsService.create, submit, the
\* chain swap observer).
THEOREM SwapsTellTheTruth ==
    ChainSwapsInit /\ [][ChainSwapsNext]_csVars => [](OneSwapPerKey /\ SucceededLanded)
<1>1. ChainSwapsInit => SwapsInv  BY ChainSwapsStart
<1>2. SwapsInv /\ [ChainSwapsNext]_csVars => SwapsInv'  BY ChainSwapsStep
<1>3. SwapsInv => OneSwapPerKey /\ SucceededLanded
  BY DEF SwapsInv, KeyHasOneRow, SwapTrue, OneSwapPerKey, SucceededLanded
<1> QED  BY <1>1, <1>2, <1>3, PTL

\* A verdict on a swap is final, and the consumer never hears two.
THEOREM VerdictStays ==
    ChainSwapsInit /\ [][ChainSwapsNext]_csVars => VerdictFinal
<1> DEFINE Final == \A s \in ChainSwapIds :
             /\ csStatus[s] \in {"SUCCEEDED", "FAILED"} => csStatus'[s] = csStatus[s]
             /\ ~({"SWAP_SUCCEEDED", "SWAP_FAILED"} \subseteq csEvents'[s])
<1>1. ChainSwapsInit => SwapsInv  BY ChainSwapsStart
<1>2. SwapsInv /\ [ChainSwapsNext]_csVars => SwapsInv' /\ Final
  <2> SUFFICES ASSUME SwapsInv, [ChainSwapsNext]_csVars PROVE SwapsInv' /\ Final  OBVIOUS
  <2>1. SwapsInv' /\ RowMovesOn  BY ChainSwapsStep
  <2>2. Final  BY <2>1 DEF RowMovesOn, SwapsInv, SwapTrue
  <2> QED  BY <2>1, <2>2
<1> QED  BY <1>1, <1>2, PTL DEF VerdictFinal

-----------------------------------------------------------------------------
(***************************************************************************)
(* Cross-chain swaps.  A caller writes an answer that may be older than    *)
(* the one another caller wrote.  1Click only moves forward, so a status   *)
(* the row showed never runs ahead of it; a caller's answer lies between   *)
(* the status it read and where 1Click stands now, and its write holds     *)
(* only over the status it read.                                           *)
(***************************************************************************)

ProviderStatuses == DOMAIN PROVIDER_STATUS_MAP
CrossStatuses == OpenCross \cup TerminalCross \cup {"ABSENT", "EXPIRED"}

\* A row shows no more than 1Click, at p, has reported.
Behind(status, p) ==
    /\ status = "DEPOSIT_DETECTED" => p # "PENDING_DEPOSIT"
    /\ status = "INCOMPLETE_DEPOSIT" => p \notin {"PENDING_DEPOSIT", "KNOWN_DEPOSIT_TX"}
    /\ status = "PROCESSING" => p \in {"PROCESSING", "SUCCESS", "REFUNDED", "FAILED"}

\* What a status read off row s says of 1Click and of the clock.
Read(s, status) ==
    Behind(status, ccProvider[s]) /\ (status = "EXPIRED" => ccAge[s] >= 1)

CrossCall ==
    [pc : {"idle", "next", "ask", "apply"}, s : CrossIds \cup {0},
     status : CrossStatuses \cup {"none"}, answer : ProviderStatuses \cup {"none", "null"},
     todo : Seq(CrossIds \X CrossStatuses)]

CrossType ==
    /\ ccStatus \in [CrossIds -> CrossStatuses]
    /\ ccAge \in [CrossIds -> 0..2]
    /\ ccProvider \in [CrossIds -> ProviderStatuses]
    /\ ccEvents \in [CrossIds -> SUBSET CrossStatuses]
    /\ crossCaller \in [CrossCallers -> CrossCall]

\* What a caller r may count on.
CrossKnows(r) ==
    /\ r.pc = "next" => r.todo # <<>>
    /\ \A i \in 1..Len(r.todo) : Read(r.todo[i][1], r.todo[i][2])
    /\ r.pc \in {"ask", "apply"} =>
          r.s \in CrossIds /\ r.status \in CrossStatuses /\ Read(r.s, r.status)
    /\ r.pc = "apply" /\ r.answer # "null" =>
          /\ r.answer \in ProviderStatuses
          /\ Behind(r.status, r.answer)
          /\ Behind(PROVIDER_STATUS_MAP[r.answer], ccProvider[r.s])

CrossInv ==
    /\ CrossType
    /\ \A s \in CrossIds : Read(s, ccStatus[s])
    /\ \A c \in CrossCallers : CrossKnows(crossCaller[c])

\* What 1Click and the clock may do to a row.
WorldMovesOn(s) ==
    /\ \A status \in CrossStatuses : Behind(status, ccProvider[s]) => Behind(status, ccProvider'[s])
    /\ ccAge[s] <= ccAge'[s]

\* What a writer may do to row s, and what it may tell.
CrossRowMovesOn(s) ==
    /\ ccStatus[s] \in TerminalCross => ccStatus'[s] = ccStatus[s]
    /\ \A i, j \in 1..5 : ccStatus[s] = Progressed[i] /\ ccStatus'[s] = Progressed[j] => i <= j
    /\ \A e \in ccEvents'[s] \ ccEvents[s] : ccStatus'[s] = e

\* Each of 1Click's statuses means one status of the row, no further than itself.
LEMMA ProviderMap ==
    ASSUME NEW p \in ProviderStatuses
    PROVE  /\ PROVIDER_STATUS_MAP[p] \in CrossStatuses
           /\ Behind(PROVIDER_STATUS_MAP[p], p)
           /\ ProviderSteps[p] \subseteq ProviderStatuses
           /\ \A q \in ProviderSteps[p], status \in CrossStatuses : Behind(status, p) => Behind(status, q)
<1>1. p \in {"PENDING_DEPOSIT", "KNOWN_DEPOSIT_TX", "INCOMPLETE_DEPOSIT", "PROCESSING",
             "SUCCESS", "REFUNDED", "FAILED"}
  BY DEF ProviderStatuses, PROVIDER_STATUS_MAP
<1>2. PROVIDER_STATUS_MAP[p] \in CrossStatuses /\ Behind(PROVIDER_STATUS_MAP[p], p)
  BY <1>1 DEF PROVIDER_STATUS_MAP, CrossStatuses, OpenCross, TerminalCross, Behind
<1>3. ProviderSteps[p] \subseteq ProviderStatuses
  BY <1>1 DEF ProviderSteps, ProviderStatuses, PROVIDER_STATUS_MAP
<1>4. \A q \in ProviderSteps[p], status \in CrossStatuses : Behind(status, p) => Behind(status, q)
  BY <1>1 DEF ProviderSteps, Behind
<1> QED  BY <1>2, <1>3, <1>4

\* What a caller knows outlives any move of 1Click and of the clock.
LEMMA CrossKnowsStays ==
    ASSUME NEW r \in CrossCall, CrossKnows(r), CrossType, CrossType',
           \A s \in CrossIds : WorldMovesOn(s)
    PROVE  CrossKnows(r)'
<1>1. \A s \in CrossIds, status \in CrossStatuses : Read(s, status) => Read(s, status)'
  BY DEF Read, WorldMovesOn, CrossType
<1>2. \A i \in 1..Len(r.todo) : r.todo[i][1] \in CrossIds /\ r.todo[i][2] \in CrossStatuses
  BY DEF CrossCall
<1>3. r.answer \in ProviderStatuses => PROVIDER_STATUS_MAP[r.answer] \in CrossStatuses
  BY ProviderMap
<1>4. \A i \in 1..Len(r.todo) : Read(r.todo[i][1], r.todo[i][2])'
  BY <1>1, <1>2 DEF CrossKnows
<1>5. r.pc \in {"ask", "apply"} => Read(r.s, r.status)'
  BY <1>1 DEF CrossKnows
<1>6. r.pc = "apply" /\ r.answer # "null" => Behind(PROVIDER_STATUS_MAP[r.answer], ccProvider'[r.s])
  BY <1>3 DEF CrossKnows, WorldMovesOn
<1> QED  BY <1>4, <1>5, <1>6 DEF CrossKnows, Behind

\* A caller goes on with a record it may count on: the rows stay.
LEMMA CrossGoes ==
    ASSUME CrossInv, NEW c \in CrossCallers, NEW r \in CrossCall, CrossKnows(r),
           crossCaller' = [crossCaller EXCEPT ![c] = r],
           UNCHANGED <<ccStatus, ccAge, ccProvider, ccEvents>>
    PROVE  CrossInv' /\ \A s \in CrossIds : CrossRowMovesOn(s)
<1>1. CrossType'  BY DEF CrossInv, CrossType
<1>2. \A s \in CrossIds : WorldMovesOn(s)  BY DEF WorldMovesOn, CrossInv, CrossType
<1>3. ASSUME NEW b \in CrossCallers PROVE CrossKnows(crossCaller[b])'
  <2>1. PICK q \in CrossCall : q = crossCaller'[b] /\ CrossKnows(q)
    BY DEF CrossInv, CrossType
  <2>2. CrossKnows(q)'  BY <1>1, <1>2, <2>1, CrossKnowsStays DEF CrossInv
  <2> QED  BY <2>1, <2>2 DEF CrossKnows
<1>4. \A s \in CrossIds : Read(s, ccStatus[s])'  BY DEF CrossInv, Read
<1>5. \A s \in CrossIds : CrossRowMovesOn(s)
  <2> SUFFICES ASSUME NEW s \in CrossIds PROVE CrossRowMovesOn(s)  OBVIOUS
  <2>1. \A i, j \in 1..5 : ccStatus[s] = Progressed[i] /\ ccStatus'[s] = Progressed[j] => i <= j
    BY DEF Progressed
  <2> QED  BY <2>1 DEF CrossRowMovesOn
<1> QED  BY <1>1, <1>3, <1>4, <1>5 DEF CrossInv

\* A caller drops its row and goes on with the rest of its batch.
LEMMA CrossRests ==
    ASSUME CrossInv, NEW c \in CrossCallers
    PROVE  /\ Off \in CrossCall /\ CrossKnows(Off)
           /\ RowAfter(c) \in CrossCall /\ CrossKnows(RowAfter(c))
<1>0. crossCaller[c] \in CrossCall /\ CrossKnows(crossCaller[c])  BY DEF CrossInv, CrossType
<1>1. Off \in CrossCall /\ Off.pc = "idle" /\ Off.todo = <<>>
  BY DEF Off, CrossCall
<1>2. CrossKnows(Off)  BY <1>1 DEF CrossKnows
<1>3. CASE crossCaller[c].todo = <<>>
  BY <1>1, <1>2, <1>3 DEF RowAfter
<1>4. CASE crossCaller[c].todo # <<>>
  <2> DEFINE r == [Off EXCEPT !.pc = "next", !.todo = crossCaller[c].todo]
  <2>1. r \in CrossCall /\ r.pc = "next" /\ r.todo = crossCaller[c].todo
    BY <1>0, <1>1 DEF CrossCall
  <2>2. CrossKnows(r)  BY <1>0, <1>4, <2>1 DEF CrossKnows
  <2>3. RowAfter(c) = r  BY <1>4 DEF RowAfter
  <2> QED  BY <1>1, <1>2, <2>1, <2>2, <2>3
<1> QED  BY <1>3, <1>4

\* An insert, a move of 1Click and the clock.
LEMMA CrossWorldKeeps ==
    ASSUME CrossInv, NEW s \in CrossIds, CreateCross(s) \/ ProviderMoves(s) \/ AgeCross(s)
    PROVE  CrossInv' /\ \A t \in CrossIds : CrossRowMovesOn(t)
<1>1. /\ UNCHANGED <<ccEvents, crossCaller>>
      /\ \/ /\ ccStatus[s] = "ABSENT" /\ ccStatus' = [ccStatus EXCEPT ![s] = "AWAITING_DEPOSIT"]
            /\ UNCHANGED <<ccAge, ccProvider>>
         \/ /\ \E to \in ProviderSteps[ccProvider[s]] : ccProvider' = [ccProvider EXCEPT ![s] = to]
            /\ UNCHANGED <<ccStatus, ccAge>>
         \/ /\ ccAge[s] < 2 /\ ccAge' = [ccAge EXCEPT ![s] = @ + 1]
            /\ UNCHANGED <<ccStatus, ccProvider>>
  BY DEF CreateCross, ProviderMoves, AgeCross
<1>2. CrossType'
  <2>1. ProviderSteps[ccProvider[s]] \subseteq ProviderStatuses
    BY ProviderMap DEF CrossInv, CrossType
  <2> QED  BY <1>1, <2>1 DEF CrossInv, CrossType, CrossStatuses, OpenCross
<1>3. ASSUME NEW t \in CrossIds PROVE WorldMovesOn(t)
  <2>1. ccProvider[s] \in ProviderStatuses  BY DEF CrossInv, CrossType
  <2>2. \A q \in ProviderSteps[ccProvider[s]], status \in CrossStatuses :
           Behind(status, ccProvider[s]) => Behind(status, q)
    BY <2>1, ProviderMap
  <2>3. ccProvider'[t] = ccProvider[t] \/ (t = s /\ ccProvider'[t] \in ProviderSteps[ccProvider[s]])
    BY <1>1 DEF CrossInv, CrossType
  <2>4. ccAge[t] <= ccAge'[t]  BY <1>1 DEF CrossInv, CrossType
  <2> QED  BY <2>2, <2>3, <2>4 DEF WorldMovesOn
<1>4. ASSUME NEW b \in CrossCallers PROVE CrossKnows(crossCaller[b])'
  <2>1. PICK q \in CrossCall : q = crossCaller[b] /\ CrossKnows(q)
    BY DEF CrossInv, CrossType
  <2>2. CrossKnows(q)'  BY <1>2, <1>3, <2>1, CrossKnowsStays DEF CrossInv
  <2> QED  BY <1>1, <2>1, <2>2 DEF CrossKnows
<1>5. ASSUME NEW t \in CrossIds PROVE Read(t, ccStatus[t])' /\ CrossRowMovesOn(t)
  <2>1. ccStatus'[t] = ccStatus[t] \/ (ccStatus[t] = "ABSENT" /\ ccStatus'[t] = "AWAITING_DEPOSIT")
    BY <1>1 DEF CrossInv, CrossType
  <2>2. Read(t, ccStatus[t])'
    BY <1>2, <1>3, <2>1 DEF WorldMovesOn, Read, Behind, CrossInv, CrossType
  <2>3. \A i, j \in 1..5 : ccStatus[t] = Progressed[i] /\ ccStatus'[t] = Progressed[j] => i <= j
    BY <2>1 DEF Progressed
  <2>4. CrossRowMovesOn(t)  BY <1>1, <2>1, <2>3 DEF CrossRowMovesOn, TerminalCross
  <2> QED  BY <2>2, <2>4
<1> QED  BY <1>2, <1>4, <1>5 DEF CrossInv

\* A tick selects its rows; a wallet reports its deposit.
LEMMA CrossReads ==
    ASSUME CrossInv, NEW c \in CrossCallers,
           StartTick(c) \/ \E s \in CrossIds : ReportDeposit(c, s)
    PROVE  CrossInv' /\ \A t \in CrossIds : CrossRowMovesOn(t)
<1>0. Off \in CrossCall /\ Off.pc = "idle" /\ Off.todo = <<>>  BY DEF Off, CrossCall
<1>1. CASE StartTick(c)
  <2>1. PICK rows \in BoundedSeq(CrossIds, CrossBatch) :
          /\ rows # <<>>
          /\ crossCaller' = [crossCaller EXCEPT ![c] = [Off EXCEPT !.pc = "next",
                               !.todo = [i \in 1..Len(rows) |-> <<rows[i], ccStatus[rows[i]]>>]]]
          /\ UNCHANGED <<ccStatus, ccAge, ccProvider, ccEvents>>
    BY <1>1 DEF StartTick
  <2>2. rows \in Seq(CrossIds)  BY CrossBounds DEF BoundedSeq, SeqOf
  <2> DEFINE todo == [i \in 1..Len(rows) |-> <<rows[i], ccStatus[rows[i]]>>]
             r == [Off EXCEPT !.pc = "next", !.todo = todo]
  <2>3. /\ todo \in Seq(CrossIds \X CrossStatuses) /\ Len(todo) = Len(rows) /\ todo # <<>>
        /\ \A i \in 1..Len(todo) : rows[i] \in CrossIds /\ todo[i] = <<rows[i], ccStatus[rows[i]]>>
    BY <2>1, <2>2 DEF CrossInv, CrossType
  <2> HIDE DEF todo
  <2>4. r \in CrossCall /\ r.pc = "next" /\ r.todo = todo  BY <1>0, <2>3 DEF CrossCall
  <2>5. CrossKnows(r)
    <3>1. \A i \in 1..Len(todo) : Read(todo[i][1], todo[i][2])  BY <2>3 DEF CrossInv
    <3> QED  BY <2>3, <2>4, <3>1 DEF CrossKnows
  <2> QED  BY <2>1, <2>4, <2>5, CrossGoes DEF todo
<1>2. ASSUME NEW s \in CrossIds, ReportDeposit(c, s)
      PROVE  CrossInv' /\ \A t \in CrossIds : CrossRowMovesOn(t)
  <2> DEFINE r == [Off EXCEPT !.pc = "ask", !.s = s, !.status = ccStatus[s]]
  <2>1. r \in CrossCall /\ r.pc = "ask" /\ r.s = s /\ r.status = ccStatus[s] /\ r.todo = <<>>
    BY <1>0 DEF CrossCall, CrossInv, CrossType
  <2>2. CrossKnows(r)  BY <2>1 DEF CrossKnows, CrossInv, CrossType
  <2> QED  BY <1>2, <2>1, <2>2, CrossGoes DEF ReportDeposit
<1> QED  BY <1>1, <1>2

\* A caller goes to its next row, asks 1Click, or fails.
LEMMA CrossAsks ==
    ASSUME CrossInv, NEW c \in CrossCallers,
           NextRow(c) \/ AskProvider(c) \/ AskUnknown(c) \/ FailCross(c)
    PROVE  CrossInv' /\ \A t \in CrossIds : CrossRowMovesOn(t)
<1>0. crossCaller[c] \in CrossCall /\ CrossKnows(crossCaller[c])  BY DEF CrossInv, CrossType
<1>1. CASE NextRow(c)
  <2>1. PICK todo \in Seq(CrossIds \X CrossStatuses) :
          /\ todo = crossCaller[c].todo /\ todo # <<>>
          /\ \A i \in 1..Len(todo) : Read(todo[i][1], todo[i][2])
    BY <1>0, <1>1 DEF NextRow, CrossKnows, CrossCall
  <2>2. PICK s \in CrossIds, status \in CrossStatuses : todo[1] = <<s, status>>
    BY <2>1
  <2> DEFINE r == [crossCaller[c] EXCEPT !.pc = "ask", !.s = s, !.status = status, !.todo = Tail(todo)]
  <2>3. Tail(todo) \in Seq(CrossIds \X CrossStatuses) /\ Head(todo) = <<s, status>>
    BY <2>1, <2>2
  <2>4. /\ r \in CrossCall /\ r.pc = "ask" /\ r.s = s /\ r.status = status /\ r.todo = Tail(todo)
    BY <1>0, <2>3 DEF CrossCall
  <2>5. \A i \in 1..Len(Tail(todo)) : Read(Tail(todo)[i][1], Tail(todo)[i][2])
    <3> SUFFICES ASSUME NEW i \in 1..Len(Tail(todo))
                 PROVE Read(Tail(todo)[i][1], Tail(todo)[i][2])  OBVIOUS
    <3>1. i + 1 \in 1..Len(todo) /\ Tail(todo)[i] = todo[i + 1]  BY <2>1
    <3> QED  BY <2>1, <3>1
  <2>6. Read(s, status)
    <3>1. 1 \in 1..Len(todo)  BY <2>1
    <3>2. todo[1][1] = s /\ todo[1][2] = status  BY <2>2
    <3> QED  BY <2>1, <3>1, <3>2
  <2>7. CrossKnows(r)  BY <2>4, <2>5, <2>6 DEF CrossKnows
  <2>8. /\ crossCaller' = [crossCaller EXCEPT ![c] = r]
        /\ UNCHANGED <<ccStatus, ccAge, ccProvider, ccEvents>>
    <3>1. Head(todo)[1] = s /\ Head(todo)[2] = status  BY <2>3
    <3>2. crossCaller' = [crossCaller EXCEPT ![c] =
             [crossCaller[c] EXCEPT !.pc = "ask", !.s = Head(todo)[1],
                !.status = Head(todo)[2], !.todo = Tail(todo)]]
      BY <1>1, <2>1 DEF NextRow, CrossInv, CrossType, CrossCall
    <3> QED  BY <1>1, <3>1, <3>2 DEF NextRow
  <2> QED  BY <2>4, <2>7, <2>8, CrossGoes
<1>2. CASE AskProvider(c)
  <2> DEFINE r == [crossCaller[c] EXCEPT !.pc = "apply", !.answer = ccProvider[crossCaller[c].s]]
  <2>1. PICK s \in CrossIds : s = crossCaller[c].s /\ ccProvider[s] \in ProviderStatuses
                              /\ Read(s, crossCaller[c].status)
    BY <1>0, <1>2 DEF AskProvider, CrossKnows, CrossInv, CrossType
  <2>2. /\ r \in CrossCall /\ r.pc = "apply" /\ r.s = s /\ r.status = crossCaller[c].status
        /\ r.answer = ccProvider[s] /\ r.todo = crossCaller[c].todo
    BY <1>0, <2>1 DEF CrossCall
  <2>3. Behind(PROVIDER_STATUS_MAP[ccProvider[s]], ccProvider[s])  BY <2>1, ProviderMap
  <2>4. CrossKnows(r)
    BY <1>0, <1>2, <2>1, <2>2, <2>3 DEF CrossKnows, Read, AskProvider
  <2>5. /\ crossCaller' = [crossCaller EXCEPT ![c] = r]
        /\ UNCHANGED <<ccStatus, ccAge, ccProvider, ccEvents>>
    BY <1>0, <1>2 DEF AskProvider, CrossInv, CrossType, CrossCall
  <2> QED  BY <2>2, <2>4, <2>5, CrossGoes
<1>3. CASE AskUnknown(c)
  <2> DEFINE r == [crossCaller[c] EXCEPT !.pc = "apply", !.answer = "null"]
  <2>2. /\ r \in CrossCall /\ r.pc = "apply" /\ r.s = crossCaller[c].s
        /\ r.status = crossCaller[c].status
        /\ r.answer = "null" /\ r.todo = crossCaller[c].todo
    BY <1>0 DEF CrossCall
  <2>4. CrossKnows(r)  BY <1>0, <1>3, <2>2 DEF CrossKnows, AskUnknown
  <2>5. /\ crossCaller' = [crossCaller EXCEPT ![c] = r]
        /\ UNCHANGED <<ccStatus, ccAge, ccProvider, ccEvents>>
    BY <1>0, <1>3 DEF AskUnknown, CrossInv, CrossType, CrossCall
  <2> QED  BY <2>2, <2>4, <2>5, CrossGoes
<1>4. CASE FailCross(c)
  <2>1. PICK r \in {RowAfter(c), Off} : crossCaller' = [crossCaller EXCEPT ![c] = r]
    BY <1>4 DEF FailCross
  <2>2. r \in CrossCall /\ CrossKnows(r)  BY <2>1, CrossRests
  <2> QED  BY <1>4, <2>1, <2>2, CrossGoes DEF FailCross
<1> QED  BY <1>1, <1>2, <1>3, <1>4

\* Where an answer takes a row: never back, and no further than 1Click.
LEMMA NextStatusMovesOn ==
    ASSUME CrossType, NEW s \in CrossIds, NEW current \in CrossStatuses,
           NEW answer \in ProviderStatuses \cup {"null"}, Read(s, current),
           answer # "null" =>
              Behind(current, answer) /\ Behind(PROVIDER_STATUS_MAP[answer], ccProvider[s])
    PROVE  LET next == NextStatus(current, answer, s) IN
           /\ next \in CrossStatuses /\ Read(s, next)
           /\ current \in TerminalCross => next = current
           /\ \A i, j \in 1..5 : current = Progressed[i] /\ next = Progressed[j] => i <= j
<1> DEFINE next == NextStatus(current, answer, s)
<1>1. CASE answer = "null"
  <2>1. next = current \/ (current = "AWAITING_DEPOSIT" /\ next = "EXPIRED" /\ ccAge[s] >= 1)
    BY <1>1 DEF NextStatus
  <2> QED  BY <2>1 DEF Read, Behind, CrossStatuses, OpenCross, TerminalCross, Progressed
<1>2. CASE answer # "null"
  <2>1. /\ answer \in {"PENDING_DEPOSIT", "KNOWN_DEPOSIT_TX", "INCOMPLETE_DEPOSIT", "PROCESSING",
                       "SUCCESS", "REFUNDED", "FAILED"}
        /\ PROVIDER_STATUS_MAP[answer] \in CrossStatuses
        /\ PROVIDER_STATUS_MAP[answer] # "EXPIRED"
    BY <1>2, ProviderMap DEF ProviderStatuses, PROVIDER_STATUS_MAP
  <2>2. \/ current \in TerminalCross /\ next = current
        \/ current \notin TerminalCross /\ next = "EXPIRED" /\ ccAge[s] >= 1
           /\ PROVIDER_STATUS_MAP[answer] = "AWAITING_DEPOSIT"
        \/ current \notin TerminalCross /\ next = PROVIDER_STATUS_MAP[answer]
           /\ ~(PROVIDER_STATUS_MAP[answer] = "AWAITING_DEPOSIT" /\ ccAge[s] >= 1)
    BY <1>2 DEF NextStatus
  <2>3. next \in CrossStatuses /\ Read(s, next)
    BY <1>2, <2>1, <2>2 DEF Read, Behind, CrossStatuses
  <2>4. \A i, j \in 1..5 : current = Progressed[i] /\ next = Progressed[j] => i <= j
    BY <1>2, <2>1, <2>2 DEF Read, Behind, Progressed, TerminalCross, PROVIDER_STATUS_MAP
  <2> QED  BY <2>2, <2>3, <2>4
<1> QED  BY <1>1, <1>2

\* applyProviderStatus.
LEMMA CrossApplies ==
    ASSUME CrossInv, NEW c \in CrossCallers, ApplyProviderStatus(c)
    PROVE  CrossInv' /\ \A t \in CrossIds : CrossRowMovesOn(t)
<1>0. crossCaller[c] \in CrossCall /\ CrossKnows(crossCaller[c]) /\ crossCaller[c].pc = "apply"
  BY DEF CrossInv, CrossType, ApplyProviderStatus
<1>1. PICK s \in CrossIds, current \in CrossStatuses, answer \in ProviderStatuses \cup {"null"} :
        /\ s = crossCaller[c].s /\ current = crossCaller[c].status /\ answer = crossCaller[c].answer
        /\ Read(s, current)
        /\ answer # "null" =>
              Behind(current, answer) /\ Behind(PROVIDER_STATUS_MAP[answer], ccProvider[s])
  BY <1>0 DEF CrossKnows
<1>2. PICK next \in CrossStatuses :
        /\ next = NextStatus(current, answer, s) /\ Read(s, next)
        /\ current \in TerminalCross => next = current
        /\ \A i, j \in 1..5 : current = Progressed[i] /\ next = Progressed[j] => i <= j
  <2>1. CrossType  BY DEF CrossInv
  <2> QED  BY <1>1, <2>1, NextStatusMovesOn
<1>3. PICK q \in CrossCall : /\ CrossKnows(q)
                             /\ crossCaller' = [crossCaller EXCEPT ![c] = q]
  BY CrossRests DEF ApplyProviderStatus
<1>4. /\ UNCHANGED <<ccAge, ccProvider>>
      /\ IF ccStatus[s] = current THEN ccStatus' = [ccStatus EXCEPT ![s] = next]
                                  ELSE UNCHANGED ccStatus
      /\ \/ ccEvents' = ccEvents
         \/ ccEvents' = [ccEvents EXCEPT ![s] = @ \cup {next}] /\ ccStatus[s] = current
  <2>1. \/ ccEvents' = ccEvents
        \/ ccEvents' = [ccEvents EXCEPT ![s] = IF next # current /\ Tells(c) THEN @ \cup {next} ELSE @]
    BY <1>1, <1>2 DEF ApplyProviderStatus
  <2>2. \/ ccEvents' = ccEvents
        \/ ccEvents' = [ccEvents EXCEPT ![s] = @ \cup {next}] /\ ccStatus[s] = current
    BY <1>1, <2>1 DEF Tells, StatusAsRead, CrossInv, CrossType
  <2> QED  BY <1>1, <1>2, <2>2 DEF ApplyProviderStatus, StatusAsRead
<1>5. CrossType'  BY <1>2, <1>3, <1>4 DEF CrossInv, CrossType
<1>6. \A t \in CrossIds : WorldMovesOn(t)  BY <1>4 DEF WorldMovesOn, CrossInv, CrossType
<1>7. ASSUME NEW b \in CrossCallers PROVE CrossKnows(crossCaller[b])'
  <2>1. PICK r \in CrossCall : r = crossCaller'[b] /\ CrossKnows(r)
    BY <1>3 DEF CrossInv, CrossType
  <2>2. CrossKnows(r)'  BY <1>5, <1>6, <2>1, CrossKnowsStays DEF CrossInv
  <2> QED  BY <2>1, <2>2 DEF CrossKnows
<1>8. ASSUME NEW t \in CrossIds PROVE Read(t, ccStatus[t])' /\ CrossRowMovesOn(t)
  <2>1. \/ ccStatus'[t] = ccStatus[t] /\ (ccEvents'[t] = ccEvents[t] \/
                                          (ccEvents'[t] = ccEvents[t] \cup {next} /\ ccStatus'[t] = next))
        \/ /\ t = s /\ ccStatus[t] = current /\ ccStatus'[t] = next
           /\ ccEvents'[t] = ccEvents[t] \/ ccEvents'[t] = ccEvents[t] \cup {next}
    BY <1>4 DEF CrossInv, CrossType
  <2>2. Read(t, ccStatus[t])'  BY <1>2, <1>4, <2>1 DEF Read, CrossInv
  <2>3. \A i, j \in 1..5 : ccStatus[t] = Progressed[i] /\ ccStatus'[t] = Progressed[j] => i <= j
    <3>1. CASE ccStatus'[t] = ccStatus[t]  BY <3>1 DEF Progressed
    <3>2. CASE ccStatus[t] = current /\ ccStatus'[t] = next  BY <1>2, <3>2
    <3> QED  BY <2>1, <3>1, <3>2
  <2>4. \A e \in ccEvents'[t] \ ccEvents[t] : ccStatus'[t] = e  BY <2>1
  <2>5. ccStatus[t] \in TerminalCross => ccStatus'[t] = ccStatus[t]  BY <1>2, <2>1
  <2> QED  BY <2>2, <2>3, <2>4, <2>5 DEF CrossRowMovesOn
<1> QED  BY <1>5, <1>7, <1>8 DEF CrossInv

\* Every step keeps the invariant, moves the rows on and tells what happened.
LEMMA CrossStep ==
    ASSUME CrossInv, [CrossChainSwapsNext]_ccVars
    PROVE  CrossInv' /\ \A t \in CrossIds : CrossRowMovesOn(t)
<1>1. CASE UNCHANGED ccVars
  <2>1. UNCHANGED <<ccStatus, ccAge, ccProvider, ccEvents, crossCaller>>  BY <1>1 DEF ccVars
  <2>2. ASSUME NEW t \in CrossIds PROVE CrossRowMovesOn(t)
    <3>1. \A i, j \in 1..5 : ccStatus[t] = Progressed[i] /\ ccStatus'[t] = Progressed[j] => i <= j
      BY <2>1 DEF Progressed
    <3> QED  BY <2>1, <3>1 DEF CrossRowMovesOn
  <2>3. CrossType'  BY <2>1 DEF CrossInv, CrossType
  <2>4. \A c \in CrossCallers : CrossKnows(crossCaller[c])'
    BY <2>1 DEF CrossInv, CrossKnows, Read
  <2> QED  BY <2>1, <2>2, <2>3, <2>4 DEF CrossInv, Read
<1>2. CASE CrossChainSwapsNext
  <2>1. CrossDepositors \subseteq CrossCallers  BY DEF CrossCallers
  <2> QED
    BY <1>2, <2>1, CrossWorldKeeps, CrossReads, CrossAsks, CrossApplies
    DEF CrossChainSwapsNext, CrossCallerStep
<1> QED  BY <1>1, <1>2

\* No row and no caller at the start.
LEMMA CrossStart ==
    ASSUME CrossChainSwapsInit PROVE CrossInv
<1>1. Off \in CrossCall /\ Off.pc = "idle" /\ Off.todo = <<>>  BY DEF Off, CrossCall
<1>2. CrossKnows(Off)  BY <1>1 DEF CrossKnows
<1>3. CrossType
  BY <1>1 DEF CrossChainSwapsInit, CrossType, CrossStatuses, ProviderStatuses, PROVIDER_STATUS_MAP
<1> QED  BY <1>2, <1>3 DEF CrossChainSwapsInit, CrossInv, Read, Behind

\* A row of a cross-chain swap never goes back on what it showed, whatever the number of
\* observers and depositors applying answers of different ages (applyProviderStatus, nextStatus).
THEOREM CrossMovesOn ==
    CrossChainSwapsInit /\ [][CrossChainSwapsNext]_ccVars => CrossNeverGoesBack
<1>1. CrossChainSwapsInit => CrossInv  BY CrossStart
<1>2. CrossInv /\ [CrossChainSwapsNext]_ccVars =>
        CrossInv' /\ \A s \in CrossIds : CrossRowMovesOn(s)
  BY CrossStep
<1>3. (\A s \in CrossIds : CrossRowMovesOn(s)) =>
        (\A s \in CrossIds :
           /\ ccStatus[s] \in TerminalCross => ccStatus'[s] = ccStatus[s]
           /\ \A i, j \in 1..5 : ccStatus[s] = Progressed[i] /\ ccStatus'[s] = Progressed[j] => i <= j)
  BY DEF CrossRowMovesOn
<1> QED  BY <1>1, <1>2, <1>3, PTL DEF CrossNeverGoesBack

\* A webhook tells the status its own write gave the row, never the loser's answer.
THEOREM CrossToldOnce ==
    CrossChainSwapsInit /\ [][CrossChainSwapsNext]_ccVars => ToldWhatHappened
<1>1. CrossChainSwapsInit => CrossInv  BY CrossStart
<1>2. CrossInv /\ [CrossChainSwapsNext]_ccVars =>
        CrossInv' /\ \A s \in CrossIds : CrossRowMovesOn(s)
  BY CrossStep
<1>3. (\A s \in CrossIds : CrossRowMovesOn(s)) =>
        (\A s \in CrossIds : \A e \in ccEvents'[s] \ ccEvents[s] : ccStatus'[s] = e)
  BY DEF CrossRowMovesOn
<1> QED  BY <1>1, <1>2, <1>3, PTL DEF ToldWhatHappened

-----------------------------------------------------------------------------
(***************************************************************************)
(* All four on one server: a step is of one of them, and the others rest.  *)
(***************************************************************************)

\* A step of the server is a step of one, and a stutter of the others.
LEMMA OneTransferMoves ==
    ASSUME [TransfersNext]_transfersVars
    PROVE  /\ [EvmDepositsNext]_depVars /\ [ChainSwapsNext]_csVars
           /\ [CrossChainSwapsNext]_ccVars /\ [Usdt0TransfersNext]_u0Vars
<1>1. CASE UNCHANGED transfersVars  BY <1>1 DEF transfersVars
<1>2. CASE TransfersNext  BY <1>2 DEF TransfersNext, Rest
<1> QED  BY <1>1, <1>2

\* One key buys one swap, and no row says what its chain does not: the server runs the
\* forwarder, the swap, cross-chain and USDT0 observers together.
THEOREM TransfersHold ==
    TransfersSpec => [](OneSwapPerKey /\ VerdictsMatchChain)
<1>1. TransfersInit => EvmDepositsInit /\ ChainSwapsInit /\ Usdt0TransfersInit
  BY DEF TransfersInit
<1>2. [TransfersNext]_transfersVars => /\ [EvmDepositsNext]_depVars /\ [ChainSwapsNext]_csVars
                                       /\ [Usdt0TransfersNext]_u0Vars
  BY OneTransferMoves
<1>3. ForwardSettlesPaid /\ SucceededLanded /\ ExpiredNeverApplied => VerdictsMatchChain
  BY DEF VerdictsMatchChain
<1> QED
  BY <1>1, <1>2, <1>3, SettledByForward, SwapsTellTheTruth, ExpiredSound, PTL DEF TransfersSpec

\* A final status of a swap or a transfer is never left, by a writer that read the row
\* before it was final.
THEOREM FinalIsFinal ==
    TransfersSpec => FinalStaysFinal
<1>1. TransfersInit => ChainSwapsInit /\ CrossChainSwapsInit /\ Usdt0TransfersInit
  BY DEF TransfersInit
<1>2. [TransfersNext]_transfersVars => /\ [ChainSwapsNext]_csVars /\ [CrossChainSwapsNext]_ccVars
                                       /\ [Usdt0TransfersNext]_u0Vars
  BY OneTransferMoves
<1> QED
  BY <1>1, <1>2, VerdictStays, CrossMovesOn, TransferEndsOnce, PTL
     DEF TransfersSpec, FinalStaysFinal

\* A cross-chain swap's webhook tells what its row became.
THEOREM TransfersTold ==
    TransfersSpec => ToldWhatHappened
<1>1. TransfersInit => CrossChainSwapsInit  BY DEF TransfersInit
<1>2. [TransfersNext]_transfersVars => [CrossChainSwapsNext]_ccVars  BY OneTransferMoves
<1> QED  BY <1>1, <1>2, CrossToldOnce, PTL DEF TransfersSpec
==============================================================================
