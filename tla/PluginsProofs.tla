---------------------------- MODULE PluginsProofs ----------------------------
(***************************************************************************)
(* The two native plugins: a protected payment's row against its contract, *)
(* before and after the deposit, and the mirror of a BlindPay resource.    *)
(* Each theorem is first about one component alone; the last ones carry    *)
(* them over to the server that runs them together.                        *)
(***************************************************************************)
EXTENDS MCPlugins, TLAPS

-----------------------------------------------------------------------------
(***************************************************************************)
(* Delivery.  The row follows the contract through answers and through the *)
(* sync job's reads, which may both be old.  The contract only gains       *)
(* steps, so an answer SUCCESS and a step read there stay true.            *)
(***************************************************************************)

Steps == {"SHIPPED", "APPROVED", "RELEASED", "DISPUTED", "RESOLVED"}
Parties == {"nobody", "BUYER", "MERCHANT", "OPS", "DEADLINE"}

DeliveryType ==
    /\ escrow \in [status : Steps \cup {"ABSENT", "FUNDED"},
                   stamps : SUBSET (Steps \cup {"DEADLINE_PASSED"}), by : Parties]
    /\ contract \subseteq Steps
    /\ edTx \in [TxRows -> [status : {"none", "BUILT", "SUBMITTED"}, ok : BOOLEAN, by : Parties]]
    /\ toApply \subseteq TxRows
    /\ relayers \subseteq TxRows \X Parties
    /\ sync \in [pc : {"idle", "apply"}, todo : SUBSET Steps]

DeliveryInv ==
    /\ DeliveryType
    /\ \A x \in TxRows : edTx[x].ok => x[1] \in contract
    /\ sync.todo \subseteq contract
    /\ NeverAheadOfContract

\* The rows of a transaction are about a step of the contract.
LEMMA RowsAreSteps ==
    /\ \A x \in TxRows : x[1] \in Steps
    /\ \A a \in {"DISPUTED", "RESOLVED"} : ServerRows(a) \subseteq TxRows
    /\ PartyRows \subseteq TxRows
BY DeliveryBounds DEF TxRows, PartyRows, ServerRows, Steps

\* A step is taken once, and stamps no more than itself.
LEMMA StepStamps ==
    ASSUME DeliveryInv, NEW step \in contract, NEW by \in Parties
    PROVE  /\ Stepped(step, by) \in [status : Steps \cup {"ABSENT", "FUNDED"},
                                     stamps : SUBSET (Steps \cup {"DEADLINE_PASSED"}), by : Parties]
           /\ Stepped(step, by).stamps \subseteq escrow.stamps \cup {step}
<1>1. step \in Steps  BY DEF DeliveryInv, DeliveryType
<1>2. PICK b \in Parties : b = (IF step = "DISPUTED" THEN by ELSE escrow.by)
  BY DEF DeliveryInv, DeliveryType
<1>3. \/ Stepped(step, by) = escrow
      \/ Stepped(step, by) = [status |-> step, stamps |-> escrow.stamps \cup {step}, by |-> b]
  BY <1>2 DEF Stepped
<1> QED  BY <1>1, <1>2, <1>3 DEF DeliveryInv, DeliveryType

\* A server row is built or found, and is about to be relayed.
LEMMA ServerRowSent ==
    ASSUME DeliveryInv, NEW a \in {"DISPUTED", "RESOLVED"}, NEW by \in Parties, ServerSends(a, by),
           UNCHANGED <<escrow, contract, toApply, sync>>
    PROVE  DeliveryInv'
<1>1. ASSUME NEW x \in ServerRows(a), relayers' = relayers \cup {<<x, by>>}, UNCHANGED edTx
      PROVE  DeliveryInv'
  <2>1. x \in TxRows  BY RowsAreSteps
  <2> QED  BY <1>1, <2>1 DEF DeliveryInv, DeliveryType, NeverAheadOfContract
<1>2. ASSUME NEW x \in ServerRows(a),
             edTx' = [edTx EXCEPT ![x] = [status |-> "BUILT", ok |-> FALSE, by |-> by]],
             relayers' = relayers \cup {<<x, by>>}
      PROVE  DeliveryInv'
  <2>1. x \in TxRows  BY RowsAreSteps
  <2>2. edTx' \in [TxRows -> [status : {"none", "BUILT", "SUBMITTED"}, ok : BOOLEAN, by : Parties]]
    BY <1>2, <2>1 DEF DeliveryInv, DeliveryType
  <2>3. \A y \in TxRows : edTx'[y].ok => y[1] \in contract'
    BY <1>2, <2>1 DEF DeliveryInv, DeliveryType
  <2>4. relayers' \subseteq TxRows \X Parties  BY <1>2, <2>1 DEF DeliveryInv, DeliveryType
  <2> QED  BY <2>2, <2>3, <2>4 DEF DeliveryInv, DeliveryType, NeverAheadOfContract
<1> QED  BY <1>1, <1>2 DEF ServerSends

\* The parties build, submit and act elsewhere; the deadline passes and is marked.
LEMMA PartiesKeep ==
    ASSUME DeliveryInv,
           \/ FundsArrive \/ DeadlinePasses \/ MarkPassed
           \/ \E x \in PartyRows : PartySubmits(x) \/ \E by \in {"BUYER", "MERCHANT"} : PartyBuilds(x, by)
           \/ \E step \in DOMAIN Order : ActElsewhere(step)
    PROVE  DeliveryInv'
<1>1. CASE FundsArrive
  BY <1>1 DEF FundsArrive, DeliveryInv, DeliveryType, NeverAheadOfContract
<1>2. CASE DeadlinePasses
  BY <1>2 DEF DeadlinePasses, DeliveryInv, DeliveryType, NeverAheadOfContract
<1>3. CASE MarkPassed
  <2>1. escrow'.stamps = escrow.stamps \cup {"DEADLINE_PASSED"}
    BY <1>3 DEF MarkPassed, DeliveryInv, DeliveryType
  <2>2. escrow' \in [status : Steps \cup {"ABSENT", "FUNDED"},
                     stamps : SUBSET (Steps \cup {"DEADLINE_PASSED"}), by : Parties]
    BY <1>3 DEF MarkPassed, DeliveryInv, DeliveryType
  <2> QED  BY <1>3, <2>1, <2>2 DEF MarkPassed, DeliveryInv, DeliveryType, NeverAheadOfContract
<1>4. ASSUME NEW x \in PartyRows, PartySubmits(x) PROVE DeliveryInv'
  <2>1. x \in TxRows /\ edTx[x].by \in Parties  BY RowsAreSteps DEF DeliveryInv, DeliveryType
  <2> QED  BY <1>4, <2>1 DEF PartySubmits, DeliveryInv, DeliveryType, NeverAheadOfContract
<1>5. ASSUME NEW x \in PartyRows, NEW by \in {"BUYER", "MERCHANT"}, PartyBuilds(x, by)
      PROVE  DeliveryInv'
  <2>1. x \in TxRows /\ by \in Parties  BY RowsAreSteps DEF Parties
  <2>2. /\ edTx' = [edTx EXCEPT ![x] = [status |-> "BUILT", ok |-> FALSE, by |-> by]]
        /\ UNCHANGED <<escrow, contract, toApply, relayers, sync>>
    BY <1>5 DEF PartyBuilds
  <2>3. edTx' \in [TxRows -> [status : {"none", "BUILT", "SUBMITTED"}, ok : BOOLEAN, by : Parties]]
    BY <2>1, <2>2 DEF DeliveryInv, DeliveryType
  <2>4. \A y \in TxRows : edTx'[y].ok => y[1] \in contract'
    BY <2>1, <2>2 DEF DeliveryInv, DeliveryType
  <2> QED  BY <2>2, <2>3, <2>4 DEF DeliveryInv, DeliveryType, NeverAheadOfContract
<1>6. ASSUME NEW step \in DOMAIN Order, ActElsewhere(step) PROVE DeliveryInv'
  <2>1. step \in Steps  BY DEF Order, Steps
  <2>2. /\ contract' = contract \cup {step}
        /\ UNCHANGED <<escrow, edTx, toApply, relayers, sync>>
    BY <1>6 DEF ActElsewhere, Lands
  <2> QED  BY <2>1, <2>2 DEF DeliveryInv, DeliveryType, NeverAheadOfContract
<1> QED  BY <1>1, <1>2, <1>3, <1>4, <1>5, <1>6

\* relay: what it stores as SUCCESS has landed.
LEMMA RelayKeeps ==
    ASSUME DeliveryInv, NEW x, NEW by, Relay(x, by)
    PROVE  DeliveryInv'
<1>1. /\ x \in TxRows /\ x[1] \in Steps /\ by \in Parties
      /\ relayers' = relayers \ {<<x, by>>} /\ UNCHANGED <<escrow, sync>>
  BY RowsAreSteps DEF Relay, DeliveryInv, DeliveryType
<1>2. /\ toApply' = toApply \/ toApply' = toApply \cup {x}
      /\ contract' = contract \/ contract' = contract \cup {x[1]}
      /\ \/ edTx' = edTx
         \/ edTx' = [edTx EXCEPT ![x].status = "SUBMITTED"]
         \/ edTx' = [edTx EXCEPT ![x].status = "SUBMITTED", ![x].ok = TRUE] /\ x[1] \in contract'
  BY DEF Relay, Lands
<1>3. edTx' \in [TxRows -> [status : {"none", "BUILT", "SUBMITTED"}, ok : BOOLEAN, by : Parties]]
  BY <1>1, <1>2 DEF DeliveryInv, DeliveryType
<1>4. ASSUME NEW y \in TxRows, edTx'[y].ok PROVE y[1] \in contract'
  <2>1. edTx'[y].ok = edTx[y].ok \/ (y = x /\ x[1] \in contract')
    BY <1>1, <1>2 DEF DeliveryInv, DeliveryType
  <2> QED  BY <1>2, <1>4, <2>1 DEF DeliveryInv
<1> QED  BY <1>1, <1>2, <1>3, <1>4 DEF DeliveryInv, DeliveryType, NeverAheadOfContract

\* apply, and the sync job's reads and steps.
LEMMA RowFollows ==
    ASSUME DeliveryInv, (\E x \in toApply : Apply(x)) \/ SyncReads \/ SyncStep
    PROVE  DeliveryInv'
<1>1. ASSUME NEW x \in toApply, Apply(x) PROVE DeliveryInv'
  <2>1. x \in TxRows /\ edTx[x].by \in Parties  BY DEF DeliveryInv, DeliveryType
  <2>2. CASE escrow' = escrow
    BY <1>1, <2>2 DEF Apply, DeliveryInv, DeliveryType, NeverAheadOfContract
  <2>3. CASE edTx[x].ok /\ escrow' = Stepped(x[1], edTx[x].by)
    <3>1. x[1] \in contract  BY <2>1, <2>3 DEF DeliveryInv
    <3>2. /\ escrow' \in [status : Steps \cup {"ABSENT", "FUNDED"},
                          stamps : SUBSET (Steps \cup {"DEADLINE_PASSED"}), by : Parties]
          /\ escrow'.stamps \subseteq escrow.stamps \cup {x[1]}
      BY <2>1, <2>3, <3>1, StepStamps
    <3> QED  BY <1>1, <3>1, <3>2 DEF Apply, DeliveryInv, DeliveryType, NeverAheadOfContract
  <2> QED  BY <1>1, <2>2, <2>3 DEF Apply, Succeeded
<1>2. CASE SyncReads
  BY <1>2 DEF SyncReads, DeliveryInv, DeliveryType, NeverAheadOfContract
<1>3. CASE SyncStep
  <2>1. PICK step \in sync.todo :
          /\ \/ escrow' = Stepped(step, Nobody)
             \/ \E x \in Disputes : escrow' = Stepped(step, DisputedBy(x))
          /\ sync' = IF sync.todo = {step} THEN [pc |-> "idle", todo |-> {}]
                     ELSE [sync EXCEPT !.todo = @ \ {step}]
    BY <1>3 DEF SyncStep
  <2>2. PICK by \in Parties : escrow' = Stepped(step, by)
    <3>1. Nobody \in Parties  BY DEF Nobody, Parties
    <3>2. \A x \in Disputes : DisputedBy(x) \in Parties
      BY <3>1 DEF Disputes, DisputedBy, DeliveryInv, DeliveryType
    <3> QED  BY <2>1, <3>1, <3>2
  <2>3. step \in contract  BY DEF DeliveryInv
  <2>4. /\ escrow' \in [status : Steps \cup {"ABSENT", "FUNDED"},
                        stamps : SUBSET (Steps \cup {"DEADLINE_PASSED"}), by : Parties]
        /\ escrow'.stamps \subseteq escrow.stamps \cup {step}
    BY <2>2, <2>3, StepStamps
  <2>5. sync' \in [pc : {"idle", "apply"}, todo : SUBSET Steps] /\ sync'.todo \subseteq contract
    BY <2>1 DEF DeliveryInv, DeliveryType
  <2> QED  BY <1>3, <2>3, <2>4, <2>5 DEF SyncStep, DeliveryInv, DeliveryType, NeverAheadOfContract
<1> QED  BY <1>1, <1>2, <1>3

\* The row of a protected payment never says more than its contract: for any set of party
\* acts, any number of rows the server signs and any number of lost answers (relay, apply,
\* chainSteps, syncPayment).
THEOREM RowFollowsContract ==
    EscrowDeliveryInit /\ [][EscrowDeliveryNext]_edVars => []NeverAheadOfContract
<1>1. EscrowDeliveryInit => DeliveryInv
  BY DEF EscrowDeliveryInit, DeliveryInv, DeliveryType, NeverAheadOfContract, NoTxRow, Nobody, Parties
<1>2. DeliveryInv /\ [EscrowDeliveryNext]_edVars => DeliveryInv'
  <2> SUFFICES ASSUME DeliveryInv, [EscrowDeliveryNext]_edVars PROVE DeliveryInv'  OBVIOUS
  <2>1. CASE UNCHANGED edVars
    BY <2>1 DEF edVars, DeliveryInv, DeliveryType, NeverAheadOfContract
  <2>2. CASE BuyerDisputes \/ OpsResolves \/ DisputeAuto \/ ResolveAuto
    <3>1. {"BUYER", "OPS", "DEADLINE"} \subseteq Parties  BY DEF Parties
    <3> QED  BY <2>2, <3>1, ServerRowSent DEF BuyerDisputes, OpsResolves, DisputeAuto, ResolveAuto
  <2> QED
    BY <2>1, <2>2, PartiesKeep, RelayKeeps, RowFollows DEF EscrowDeliveryNext, DeadlineStep
<1>3. DeliveryInv => NeverAheadOfContract  BY DEF DeliveryInv
<1> QED  BY <1>1, <1>2, <1>3, PTL

-----------------------------------------------------------------------------
(***************************************************************************)
(* BlindPay.  A create that was refused, a webhook that lost the race and  *)
(* a merge all drop the row they opened.  The provider id, once on a row,  *)
(* is never taken off it.                                                  *)
(***************************************************************************)

BpSeen == BpStatus \cup {"none", "NONE"}

BpType ==
    /\ bpAt \in BpSeen
    /\ bpRows \in [1..2 -> [status : BpSeen \cup {"ABSENT", "pending_provider", "provider_unconfirmed"},
                            pid : BOOLEAN]]
    /\ bpCreate \in [BpCreators -> [pc : {"idle", "opened", "answered", "refused", "discard", "mirror", "done"},
                                    new : BOOLEAN, obj : BpSeen]]
    /\ bpWork \in [BpWorkers -> [pc : {"idle", "look", "apply", "attribute", "fill", "discard", "mirror",
                                       "close", "tell", "reconcile"},
                                 ev : BpSeen, obj : BpSeen, row : 0..2]]
    /\ bpRead \in [BpReaders -> [pc : {"idle", "write"}, obj : BpSeen]]

\* A row that has the provider id keeps it.
IdsStay == \A r \in 1..2 : bpRows[r].pid => bpRows'[r].pid

\* The writes to the tables.
LEMMA TableWrites ==
    ASSUME BpType,
           \/ UNCHANGED bpRows \/ Discard
           \/ \E s \in BpSeen : Upsert(s) \/ Filled(1, s)
           \/ \E r \in 0..2, s \in BpSeen \cup {"provider_unconfirmed"} :
                bpRows' = [bpRows EXCEPT ![r].status = s]
           \/ ~bpRows[1].pid /\ bpRows' = [bpRows EXCEPT ![1] = [status |-> "pending_provider", pid |-> FALSE]]
    PROVE  /\ bpRows' \in [1..2 -> [status : BpSeen \cup {"ABSENT", "pending_provider", "provider_unconfirmed"},
                                    pid : BOOLEAN]]
           /\ IdsStay
<1>1. NoBpRow \in [status : BpSeen \cup {"ABSENT", "pending_provider", "provider_unconfirmed"}, pid : BOOLEAN]
  BY DEF NoBpRow
<1>2. CASE Discard  BY <1>1, <1>2 DEF Discard, BpType, IdsStay
<1>3. ASSUME NEW s \in BpSeen, Upsert(s) \/ Filled(1, s)
      PROVE  /\ bpRows' \in [1..2 -> [status : BpSeen \cup {"ABSENT", "pending_provider", "provider_unconfirmed"},
                                      pid : BOOLEAN]]
             /\ IdsStay
  <2>1. PICK r \in 1..2, t \in BpSeen \cup {"ABSENT", "pending_provider", "provider_unconfirmed"} :
          bpRows' = [bpRows EXCEPT ![r] = [status |-> t, pid |-> TRUE]]
    BY <1>3 DEF Upsert, Filled, BpType
  <2> QED  BY <2>1 DEF BpType, IdsStay
<1>4. ASSUME NEW r \in 0..2, NEW s \in BpSeen \cup {"provider_unconfirmed"},
             bpRows' = [bpRows EXCEPT ![r].status = s]
      PROVE  /\ bpRows' \in [1..2 -> [status : BpSeen \cup {"ABSENT", "pending_provider", "provider_unconfirmed"},
                                      pid : BOOLEAN]]
             /\ IdsStay
  <2>1. CASE r \notin 1..2
    <3>1. bpRows' = bpRows  BY <1>4, <2>1 DEF BpType
    <3> QED  BY <3>1 DEF BpType, IdsStay
  <2>2. CASE r \in 1..2
    <3>1. /\ bpRows' = [bpRows EXCEPT ![r] = [bpRows[r] EXCEPT !.status = s]]
          /\ [bpRows[r] EXCEPT !.status = s] \in
               [status : BpSeen \cup {"ABSENT", "pending_provider", "provider_unconfirmed"}, pid : BOOLEAN]
          /\ [bpRows[r] EXCEPT !.status = s].pid = bpRows[r].pid
      BY <1>4, <2>2 DEF BpType
    <3> QED  BY <2>2, <3>1 DEF BpType, IdsStay
  <2> QED  BY <2>1, <2>2
<1>5. CASE ~bpRows[1].pid /\ bpRows' = [bpRows EXCEPT ![1] = [status |-> "pending_provider", pid |-> FALSE]]
  BY <1>5 DEF BpType, IdsStay
<1> QED  BY <1>2, <1>3, <1>4, <1>5 DEF BpType, IdsStay

\* The statements of createPayin and createPayout.
LEMMA CreatesKeepIds ==
    ASSUME BpType, NEW c \in BpCreators, OpenRow(c) \/ CreateStep(c)
    PROVE  BpType' /\ IdsStay
<1> DEFINE Created == [pc : {"idle", "opened", "answered", "refused", "discard", "mirror", "done"},
                       new : BOOLEAN, obj : BpSeen]
<1>1. {"none", "processing"} \subseteq BpSeen  BY DEF BpSeen, BpStatus
<1>2. bpCreate[c] \in Created  BY DEF BpType
<1>3. \A pc \in {"idle", "opened", "answered", "refused", "discard", "mirror", "done"} :
        CreateAt(c, pc) => bpCreate' \in [BpCreators -> Created]
  BY DEF CreateAt, BpType
<1>4. CreateEnds(c) => bpCreate' \in [BpCreators -> Created]
  BY <1>1 DEF CreateEnds, BpType
<1>5. CASE OpenRow(c)
  <2>1. PICK b \in BOOLEAN : b = (bpRows[1] = NoBpRow)  OBVIOUS
  <2>2. bpCreate' = [bpCreate EXCEPT ![c].pc = "opened", ![c].new = b]  BY <1>5, <2>1 DEF OpenRow
  <2>3. bpCreate' \in [BpCreators -> Created]
    <3> DEFINE q == [bpCreate[c] EXCEPT !.pc = "opened", !.new = b]
    <3>1. q \in Created  BY <1>2
    <3>2. bpCreate' = [bpCreate EXCEPT ![c] = q]  BY <2>2 DEF BpType
    <3> QED  BY <3>1, <3>2 DEF BpType
  <2>4. \/ UNCHANGED bpRows
        \/ ~bpRows[1].pid /\ bpRows' = [bpRows EXCEPT ![1] = [status |-> "pending_provider", pid |-> FALSE]]
    BY <1>5 DEF OpenRow, NoBpRow
  <2> QED  BY <1>5, <2>3, <2>4, TableWrites DEF OpenRow, BpType
<1>6. CASE Execute(c)
  <2>1. bpAt' \in BpSeen /\ UNCHANGED <<bpRows, bpWork, bpRead>>
    BY <1>1, <1>6 DEF Execute, BpType
  <2>2. bpCreate' \in [BpCreators -> Created]
    <3>1. CASE bpCreate' = [bpCreate EXCEPT ![c].pc = "answered", ![c].obj = bpAt']
      <4> DEFINE q == [bpCreate[c] EXCEPT !.pc = "answered", !.obj = bpAt']
      <4>1. q \in Created  BY <1>2, <2>1
      <4>2. bpCreate' = [bpCreate EXCEPT ![c] = q]  BY <3>1 DEF BpType
      <4> QED  BY <4>1, <4>2 DEF BpType
    <3> QED  BY <1>3, <1>4, <1>6, <3>1 DEF Execute
  <2> QED  BY <2>1, <2>2, TableWrites DEF BpType
<1>7. CASE DropRefused(c)
  BY <1>4, <1>7, TableWrites DEF DropRefused, BpType
<1>8. CASE AttachCreated(c)
  <2>1. \/ UNCHANGED bpRows
        \/ \E s \in BpSeen : Filled(1, s)
    BY <1>2, <1>8 DEF AttachCreated
  <2>2. bpCreate' \in [BpCreators -> Created]  BY <1>3, <1>4, <1>8 DEF AttachCreated
  <2> QED  BY <1>8, <2>1, <2>2, TableWrites DEF AttachCreated, BpType
<1>9. CASE MergeCreated(c)
  <2>1. Discard \/ \E s \in BpSeen : Upsert(s)
    BY <1>2, <1>9 DEF MergeCreated
  <2>2. bpCreate' \in [BpCreators -> Created]  BY <1>3, <1>4, <1>9 DEF MergeCreated
  <2> QED  BY <1>9, <2>1, <2>2, TableWrites DEF MergeCreated, BpType
<1> QED  BY <1>5, <1>6, <1>7, <1>8, <1>9 DEF CreateStep

\* The statements of handleWebhook and of the reconciler.
LEMMA WorkersKeepIds ==
    ASSUME BpType, NEW w \in BpWorkers,
           \/ WorkStep(w) \/ WorkerDies(w)
           \/ w = "recon" /\ Reconcile
           \/ w = "recon" /\ \E r \in 1..2 : ReadUpstream(r)
           \/ \E e \in BpStatus : (w = "recon" /\ RetryOpenEvent(e)) \/ TakeDelivery(w, e)
    PROVE  BpType' /\ IdsStay
<1> DEFINE Work == [pc : {"idle", "look", "apply", "attribute", "fill", "discard", "mirror",
                          "close", "tell", "reconcile"},
                    ev : BpSeen, obj : BpSeen, row : 0..2]
<1>1. BpStatus \cup {"none"} \subseteq BpSeen /\ BpIdle \in Work  BY DEF BpSeen, BpIdle
<1>2. bpWork[w] \in Work  BY DEF BpType
<1>3. \A pc \in {"idle", "look", "apply", "attribute", "fill", "discard", "mirror",
                 "close", "tell", "reconcile"} :
        WorkAt(w, pc) => bpWork' \in [BpWorkers -> Work]
  <2> SUFFICES ASSUME NEW pc \in {"idle", "look", "apply", "attribute", "fill", "discard", "mirror",
                                  "close", "tell", "reconcile"},
                      WorkAt(w, pc)
               PROVE  bpWork' \in [BpWorkers -> Work]
    OBVIOUS
  <2> DEFINE q == [bpWork[w] EXCEPT !.pc = pc]
  <2>1. q \in Work  BY <1>2
  <2>2. bpWork' = [bpWork EXCEPT ![w] = q]  BY DEF WorkAt, BpType
  <2> QED  BY <2>1, <2>2 DEF BpType
<1>4. bpWork' = [bpWork EXCEPT ![w] = BpIdle] => bpWork' \in [BpWorkers -> Work]
  BY <1>1 DEF BpType
<1>5. \A e \in BpSeen, obj \in BpSeen, r \in 0..2 : \A pc \in {"look", "reconcile"} :
        StartsWork(w, e, obj, pc, r) => bpWork' \in [BpWorkers -> Work]
  BY DEF StartsWork, BpType
<1>6. CASE FindMirror(w)
  <2>1. CASE BpAttached # {}
    <3>1. PICK r \in 1..2 : bpWork' = [bpWork EXCEPT ![w].pc = "apply", ![w].row = r]
      <4>1. (CHOOSE r \in BpAttached : TRUE) \in 1..2  BY <2>1 DEF BpAttached
      <4> QED  BY <1>6, <2>1, <4>1 DEF FindMirror
    <3>2. bpWork' \in [BpWorkers -> Work]
      <4> DEFINE q == [bpWork[w] EXCEPT !.pc = "apply", !.row = r]
      <4>0. r \in 0..2  OBVIOUS
      <4>1. q \in Work  BY <1>2, <4>0
      <4>2. bpWork' = [bpWork EXCEPT ![w] = q]  BY <3>1 DEF BpType
      <4> QED  BY <4>1, <4>2 DEF BpType
    <3> QED  BY <1>6, <3>2, TableWrites DEF FindMirror, BpType
  <2>2. CASE BpAttached = {}
    <3>1. bpWork' \in [BpWorkers -> Work]  BY <1>3, <1>6, <2>2 DEF FindMirror
    <3> QED  BY <1>6, <3>1, TableWrites DEF FindMirror, BpType
  <2> QED  BY <2>1, <2>2
<1>7. CASE ApplyToRow(w)
  <2>1. /\ WorkAt(w, "close") /\ UNCHANGED <<bpAt, bpCreate, bpRead>>
        /\ UNCHANGED bpRows \/ \E r \in 0..2, s \in BpSeen : bpRows' = [bpRows EXCEPT ![r].status = s]
    BY <1>2, <1>7 DEF ApplyToRow
  <2>2. bpWork' \in [BpWorkers -> Work]  BY <1>3, <2>1
  <2> QED  BY <2>1, <2>2, TableWrites DEF BpType
<1>8. CASE Attribute(w)
  <2>1. bpWork' \in [BpWorkers -> Work]  BY <1>3, <1>8 DEF Attribute
  <2> QED  BY <1>8, <2>1, TableWrites DEF Attribute, BpType
<1>9. CASE FillRow(w)
  <2>1. bpWork' \in [BpWorkers -> Work]  BY <1>3, <1>4, <1>9 DEF FillRow
  <2>2. UNCHANGED bpRows \/ \E s \in BpSeen : Filled(1, s)  BY <1>2, <1>9 DEF FillRow
  <2> QED  BY <1>9, <2>1, <2>2, TableWrites DEF FillRow, BpType
<1>10. CASE MergeRow(w)
  <2>1. bpWork' \in [BpWorkers -> Work]  BY <1>3, <1>10 DEF MergeRow
  <2>2. Discard \/ \E s \in BpSeen : Upsert(s)  BY <1>2, <1>10 DEF MergeRow
  <2> QED  BY <1>10, <2>1, <2>2, TableWrites DEF MergeRow, BpType
<1>11. CASE CloseDelivery(w) \/ Announce(w) \/ WorkerDies(w)
  <2>1. bpWork' \in [BpWorkers -> Work]
    BY <1>3, <1>4, <1>11 DEF CloseDelivery, Announce, WorkerDies
  <2> QED  BY <1>11, <2>1, TableWrites DEF CloseDelivery, Announce, WorkerDies, BpType
<1>12. CASE w = "recon" /\ Reconcile
  <2>1. UNCHANGED bpRows \/ \E r \in 0..2, s \in BpSeen : bpRows' = [bpRows EXCEPT ![r].status = s]
    BY <1>2, <1>12 DEF Reconcile
  <2>2. bpWork' \in [BpWorkers -> Work]
    <3>1. CASE bpWork' = [bpWork EXCEPT ![w] = [bpWork[w] EXCEPT !.pc = "tell", !.ev = bpWork[w].obj]]
      BY <1>2, <3>1 DEF BpType
    <3> QED  BY <1>4, <1>12, <3>1 DEF Reconcile
  <2> QED  BY <1>12, <2>1, <2>2, TableWrites DEF Reconcile, BpType
<1>13. CASE \/ w = "recon" /\ \E r \in 1..2 : ReadUpstream(r)
            \/ \E e \in BpStatus : (w = "recon" /\ RetryOpenEvent(e)) \/ TakeDelivery(w, e)
  <2>1. bpWork' \in [BpWorkers -> Work]
    <3>1. bpAt \in BpSeen /\ 0 \in 0..2 /\ 1..2 \subseteq 0..2  BY DEF BpType
    <3> QED  BY <1>1, <1>5, <1>13, <3>1 DEF ReadUpstream, RetryOpenEvent, TakeDelivery
  <2> QED  BY <1>13, <2>1, TableWrites DEF ReadUpstream, RetryOpenEvent, TakeDelivery, BpType
<1> QED  BY <1>6, <1>7, <1>8, <1>9, <1>10, <1>11, <1>12, <1>13 DEF WorkStep

\* What happens at BlindPay, and the reads of a tenant.
LEMMA OthersKeepIds ==
    ASSUME BpType,
           \/ MintQuote \/ BpMoves \/ MarkUnconfirmed \/ (\E e \in BpStatus : SvixGivesUp(e))
           \/ \E x \in BpReaders : ReadsStale(x) \/ RefreshOnRead(x)
    PROVE  BpType' /\ IdsStay
<1>1. CASE MintQuote \/ \E e \in BpStatus : SvixGivesUp(e)
  BY <1>1, TableWrites DEF MintQuote, SvixGivesUp, BpType
<1>2. CASE BpMoves
  <2>1. bpAt' \in BpSeen /\ UNCHANGED <<bpRows, bpCreate, bpWork, bpRead>>
    BY <1>2 DEF BpMoves, BpSeen, BpStatus
  <2> QED  BY <2>1, TableWrites DEF BpType
<1>3. CASE MarkUnconfirmed
  <2>1. \E r \in 0..2, s \in BpSeen \cup {"provider_unconfirmed"} : bpRows' = [bpRows EXCEPT ![r].status = s]
    <3>1. 1 \in 0..2 /\ bpRows' = [bpRows EXCEPT ![1].status = "provider_unconfirmed"]
      BY <1>3 DEF MarkUnconfirmed
    <3> QED  BY <3>1, Zenon
  <2> QED  BY <1>3, <2>1, TableWrites DEF MarkUnconfirmed, BpType
<1>4. ASSUME NEW x \in BpReaders, ReadsStale(x) PROVE BpType' /\ IdsStay
  BY <1>4, TableWrites DEF ReadsStale, BpType
<1>5. ASSUME NEW x \in BpReaders, RefreshOnRead(x) PROVE BpType' /\ IdsStay
  <2>1. \E s \in BpSeen : Upsert(s)  BY <1>5 DEF RefreshOnRead, BpType
  <2>2. bpRead' \in [BpReaders -> [pc : {"idle", "write"}, obj : BpSeen]]
    BY <1>5 DEF RefreshOnRead, BpType, BpSeen
  <2> QED  BY <1>5, <2>1, <2>2, TableWrites DEF RefreshOnRead, BpType
<1> QED  BY <1>1, <1>2, <1>3, <1>4, <1>5

\* A resource whose provider id reached a row keeps such a row, for any number of creates,
\* webhooks, reads and faults (discard, transition, mirrorPayin, attachOrMerge).
THEOREM AttachedStays ==
    BlindpayInit /\ [][BlindpayNext]_bpVars => AttachedRowStays
<1>1. BlindpayInit => BpType
  BY DEF BlindpayInit, BpType, BpSeen, NoBpRow, BpIdle
<1>2. BpType /\ [BlindpayNext]_bpVars => BpType' /\ (BpAttached # {} => BpAttached' # {})
  <2> SUFFICES ASSUME BpType, [BlindpayNext]_bpVars
               PROVE  BpType' /\ (BpAttached # {} => BpAttached' # {})
    OBVIOUS
  <2>1. BpType' /\ IdsStay
    <3>1. CASE UNCHANGED bpVars  BY <3>1 DEF bpVars, BpType, IdsStay
    <3>2. "recon" \in BpWorkers /\ BpHandlers \subseteq BpWorkers  BY DEF BpWorkers
    <3> QED
      BY <3>1, <3>2, CreatesKeepIds, WorkersKeepIds, OthersKeepIds DEF BlindpayNext
  <2>2. BpAttached # {} => BpAttached' # {}  BY <2>1 DEF IdsStay, BpAttached
  <2> QED  BY <2>1, <2>2
<1> QED  BY <1>1, <1>2, PTL DEF AttachedRowStays

-----------------------------------------------------------------------------
(***************************************************************************)
(* Funding.  A deposit is built for the contract a request holds, without  *)
(* reading the payment again.  The row keeps the first contract bound to   *)
(* it, so what a request holds is that contract or none.  The expiry job   *)
(* looks at the deposits and at the balance in two statements; by then no  *)
(* request can build another deposit, because all have ended.              *)
(***************************************************************************)

FundCall ==
    [pc : {"idle", "recover", "claim", "deploy", "relay", "send", "finish", "build", "done"},
     c : 0..MaxContracts]
PaymentRow ==
    [status : {"ABSENT", "CREATED", "AWAITING_FUNDING", "FUNDED", "CANCELLED", "EXPIRED"},
     c : 0..MaxContracts, lease : Funders \cup {"free"}]

FundingType ==
    /\ pp \in PaymentRow /\ ppAge \in 0..2 /\ onChain \subseteq Contracts
    /\ deposits \in [Funders -> [status : {"none", "BUILT", "SUBMITTED"}, c : 0..MaxContracts]]
    /\ funder \in [Funders -> FundCall]
    /\ expiry \in {"idle", "balance", "expire"}

\* What a fund request r may count on.
FundKnows(r) ==
    /\ r.pc = "build" => r.c \in {0, pp.c}
    /\ r.pc \in {"relay", "send", "finish"} => r.c \in Contracts
    /\ ppAge = 2 => r.pc \in {"idle", "done"}

\* A recorded deposit is for the contract of the row.
DepositBound(f) == deposits[f].status # "none" => deposits[f].c = pp.c /\ pp.c # 0

\* No deposit can land any more.
Quiet == ppAge = 2 /\ ~Outstanding

FundingInv ==
    /\ FundingType
    /\ \A f \in Funders : FundKnows(funder[f])
    /\ \A f \in Funders : DepositBound(f)
    /\ holding \subseteq {pp.c} \ {0}
    /\ expiry # "idle" => Quiet
    /\ expiry = "expire" => holding = {}
    /\ pp.status = "EXPIRED" => Quiet /\ holding = {}

\* How the row may change under a request: it is bound at most once, and does not expire.
RowBinds ==
    /\ pp' \in PaymentRow
    /\ pp'.c = pp.c \/ pp.c = 0
    /\ pp'.status = "EXPIRED" => pp.status = "EXPIRED"

\* The row moves, the requests stay.
LEMMA RowBound ==
    ASSUME FundingInv, RowBinds,
           UNCHANGED <<ppAge, onChain, deposits, lapsed, holding, funder, expiry>>
    PROVE  FundingInv'
<1>1. FundingType'  BY DEF FundingInv, FundingType, RowBinds
<1>2. \A f \in Funders : FundKnows(funder[f])'  BY DEF FundingInv, FundKnows, RowBinds
<1>3. \A f \in Funders : DepositBound(f)'  BY DEF FundingInv, DepositBound, RowBinds
<1>4. holding' \subseteq {pp'.c} \ {0}  BY DEF FundingInv, RowBinds
<1>5. Quiet' = Quiet  BY DEF Quiet, Outstanding
<1> QED  BY <1>1, <1>2, <1>3, <1>4, <1>5 DEF FundingInv, RowBinds

\* A request goes on with a record it may count on.
LEMMA FundGoesOn ==
    ASSUME FundingInv, RowBinds, NEW f \in Funders, NEW q \in FundCall,
           funder' = [funder EXCEPT ![f] = q], onChain' \subseteq Contracts,
           q.pc = "build" => q.c \in {0, pp'.c},
           q.pc \in {"relay", "send", "finish"} => q.c \in Contracts,
           ppAge = 2 => q.pc \in {"idle", "done"},
           UNCHANGED <<ppAge, deposits, lapsed, holding, expiry>>
    PROVE  FundingInv'
<1>1. FundingType'  BY DEF FundingInv, FundingType, RowBinds
<1>2. ASSUME NEW g \in Funders PROVE FundKnows(funder[g])'
  <2>1. CASE g = f
    <3>1. funder'[g] = q  BY <2>1 DEF FundingInv, FundingType
    <3> QED  BY <3>1 DEF FundKnows
  <2>2. CASE g # f
    <3>1. funder'[g] = funder[g]  BY <2>2 DEF FundingInv, FundingType
    <3> QED  BY <3>1 DEF FundKnows, FundingInv, RowBinds
  <2> QED  BY <2>1, <2>2
<1>3. \A g \in Funders : DepositBound(g)'  BY DEF FundingInv, DepositBound, RowBinds
<1>4. holding' \subseteq {pp'.c} \ {0}  BY DEF FundingInv, RowBinds
<1>5. Quiet' = Quiet  BY DEF Quiet, Outstanding
<1> QED  BY <1>1, <1>2, <1>3, <1>4, <1>5 DEF FundingInv, RowBinds

\* lifecycle.deployed and the `finally` of deploy, as changes of the row.
LEMMA RowWrites ==
    ASSUME FundingInv, NEW f \in Funders
    PROVE  /\ UNCHANGED pp => RowBinds
           /\ pp' = Freed(f, pp) => RowBinds
           /\ \A k \in Contracts : Deployed(k) => RowBinds
           /\ pp' = [pp EXCEPT !.lease = f] => RowBinds
           /\ pp' = [pp EXCEPT !.lease = "free"] => RowBinds
<1>1. UNCHANGED pp => RowBinds  BY DEF FundingInv, FundingType, RowBinds
<1>2. \A l \in Funders \cup {"free"} : pp' = [pp EXCEPT !.lease = l] => RowBinds
  BY DEF FundingInv, FundingType, RowBinds, PaymentRow
<1>3. pp' = Freed(f, pp) => RowBinds  BY <1>1, <1>2 DEF Freed
<1>4. ASSUME NEW k \in Contracts, Deployed(k) PROVE RowBinds
  <2>1. CASE UNCHANGED pp  BY <1>1, <2>1
  <2>2. CASE pp.c = 0 /\ pp' = [status |-> "AWAITING_FUNDING", c |-> k, lease |-> "free"]
    <3>1. k \in 0..MaxContracts  BY EscrowBounds DEF Contracts
    <3> QED  BY <2>2, <3>1 DEF RowBinds, PaymentRow
  <2> QED  BY <1>4, <2>1, <2>2 DEF Deployed
<1> QED  BY <1>1, <1>2, <1>3, <1>4

\* The same, for the two ways a request's record is written.
LEMMA FundGoesTo ==
    ASSUME FundingInv, RowBinds, NEW f \in Funders,
           NEW pc \in {"idle", "recover", "claim", "deploy", "relay", "send", "finish", "build", "done"},
           NEW c \in 0..MaxContracts,
           FundGoes(f, pc, c) \/ (FundAt(f, pc) /\ c = funder[f].c), onChain' \subseteq Contracts,
           pc = "build" => c \in {0, pp'.c},
           pc \in {"relay", "send", "finish"} => c \in Contracts,
           ppAge = 2 => pc \in {"idle", "done"},
           UNCHANGED <<ppAge, deposits, lapsed, holding, expiry>>
    PROVE  FundingInv'
<1> DEFINE q == [pc |-> pc, c |-> c]
<1>1. q \in FundCall  BY DEF FundCall
<1>2. funder' = [funder EXCEPT ![f] = q]
  BY DEF FundGoes, FundAt, FundingInv, FundingType, FundCall
<1> QED  BY <1>1, <1>2, FundGoesOn

\* The statements of a fund request up to the deposit.
LEMMA FundStepKeeps ==
    ASSUME FundingInv, NEW f \in Funders,
           \/ FundReads(f) \/ RecoverDeploy(f) \/ ClaimDeploy(f) \/ BuildDeploy(f)
           \/ ClaimRelay(f) \/ SendDeploy(f) \/ FinishDeploy(f) \/ DieFund(f)
    PROVE  FundingInv'
<1>1. /\ 0 \in 0..MaxContracts /\ Contracts \subseteq 0..MaxContracts /\ pp.c \in 0..MaxContracts
      /\ funder[f].c \in 0..MaxContracts /\ FundKnows(funder[f]) /\ onChain \subseteq Contracts
  BY EscrowBounds DEF FundingInv, FundingType, FundCall, PaymentRow, Contracts
<1>2. funder[f].pc \notin {"idle", "done"} => ppAge # 2  BY <1>1 DEF FundKnows
<1>3. UNCHANGED pp \/ pp' = Freed(f, pp) => RowBinds  BY RowWrites
<1>4. CASE FundReads(f)
  <2>1. /\ UNCHANGED <<ppAge, deposits, lapsed, holding, expiry, pp, onChain>> /\ ppAge # 2
        /\ FundGoes(f, "recover", 0) \/ FundGoes(f, "build", pp.c)
    BY <1>4 DEF FundReads
  <2>2. RowBinds  BY <1>3, <2>1
  <2>3. CASE FundGoes(f, "recover", 0)  BY <1>1, <2>1, <2>2, <2>3, FundGoesTo
  <2>4. CASE FundGoes(f, "build", pp.c)  BY <1>1, <2>1, <2>2, <2>4, FundGoesTo
  <2> QED  BY <2>1, <2>3, <2>4
<1>5. CASE RecoverDeploy(f)
  <2>1. UNCHANGED <<ppAge, deposits, lapsed, holding, expiry, onChain>> /\ ppAge # 2
    BY <1>2, <1>5 DEF RecoverDeploy
  <2>2. CASE FundGoes(f, "claim", 0) /\ UNCHANGED pp
    BY <1>1, <1>3, <2>1, <2>2, FundGoesTo
  <2>3. ASSUME NEW k \in Contracts, FundGoes(f, "relay", k), UNCHANGED pp PROVE FundingInv'
    BY <1>1, <1>3, <2>1, <2>3, FundGoesTo
  <2>4. ASSUME NEW k \in Contracts, Deployed(k), FundGoes(f, "build", BoundContract(k)) PROVE FundingInv'
    <3>1. RowBinds  BY <2>4, RowWrites
    <3>2. BoundContract(k) = pp'.c /\ pp'.c \in 0..MaxContracts
      BY <3>1 DEF BoundContract, RowBinds, PaymentRow
    <3> QED  BY <1>1, <2>1, <2>4, <3>1, <3>2, FundGoesTo
  <2> QED  BY <1>5, <2>2, <2>3, <2>4 DEF RecoverDeploy
<1>6. CASE ClaimDeploy(f)
  <2>1. UNCHANGED <<ppAge, deposits, lapsed, holding, expiry, onChain>> /\ ppAge # 2
    BY <1>2, <1>6 DEF ClaimDeploy
  <2>2. CASE pp' = [pp EXCEPT !.lease = f] /\ FundAt(f, "deploy")
    <3>1. RowBinds  BY <2>2, RowWrites
    <3> QED  BY <1>1, <2>1, <2>2, <3>1, FundGoesTo
  <2>3. CASE FundGoes(f, "build", pp.c) /\ UNCHANGED pp
    BY <1>1, <1>3, <2>1, <2>3, FundGoesTo
  <2>4. CASE FundGoes(f, "idle", pp.c) /\ UNCHANGED pp
    BY <1>1, <1>3, <2>1, <2>4, FundGoesTo
  <2> QED  BY <1>6, <2>2, <2>3, <2>4 DEF ClaimDeploy
<1>7. CASE BuildDeploy(f)
  <2>1. UNCHANGED <<ppAge, deposits, lapsed, holding, expiry, onChain>> /\ ppAge # 2
    BY <1>2, <1>7 DEF BuildDeploy
  <2>2. ASSUME NEW k \in Contracts, FundGoes(f, "relay", k), UNCHANGED pp PROVE FundingInv'
    BY <1>1, <1>3, <2>1, <2>2, FundGoesTo
  <2>3. CASE FundGoes(f, "idle", 0) /\ pp' = Freed(f, pp)
    BY <1>1, <1>3, <2>1, <2>3, FundGoesTo
  <2> QED  BY <1>7, <2>2, <2>3 DEF BuildDeploy
<1>8. CASE ClaimRelay(f)
  <2>1. /\ UNCHANGED <<ppAge, deposits, lapsed, holding, expiry, onChain>> /\ ppAge # 2
        /\ funder[f].c \in Contracts
    BY <1>1, <1>2, <1>8 DEF ClaimRelay, FundKnows
  <2>2. ASSUME NEW pc \in {"send", "finish"}, FundAt(f, pc), UNCHANGED pp PROVE FundingInv'
    BY <1>1, <1>3, <2>1, <2>2, FundGoesTo
  <2>3. CASE FundGoes(f, "idle", 0) /\ pp' = Freed(f, pp)
    BY <1>1, <1>3, <2>1, <2>3, FundGoesTo
  <2> QED  BY <1>8, <2>2, <2>3 DEF ClaimRelay
<1>9. CASE SendDeploy(f)
  <2>1. /\ UNCHANGED <<ppAge, deposits, lapsed, holding, expiry>> /\ ppAge # 2
        /\ funder[f].c \in Contracts /\ onChain' \subseteq Contracts
    BY <1>1, <1>2, <1>9 DEF SendDeploy, FundKnows
  <2>2. CASE FundAt(f, "finish") /\ UNCHANGED pp
    BY <1>1, <1>3, <2>1, <2>2, FundGoesTo
  <2>3. CASE FundGoes(f, "idle", 0) /\ pp' = Freed(f, pp)
    BY <1>1, <1>3, <2>1, <2>3, FundGoesTo
  <2> QED  BY <1>9, <2>2, <2>3 DEF SendDeploy
<1>10. CASE FinishDeploy(f)
  <2>1. /\ UNCHANGED <<ppAge, deposits, lapsed, holding, expiry, onChain>> /\ ppAge # 2
        /\ funder[f].c \in Contracts
    BY <1>1, <1>2, <1>10 DEF FinishDeploy, FundKnows
  <2>2. CASE FundGoes(f, "idle", 0) /\ pp' = Freed(f, pp)
    BY <1>1, <1>3, <2>1, <2>2, FundGoesTo
  <2>3. ASSUME NEW k \in Contracts, Deployed(k), FundGoes(f, "build", BoundContract(k)) PROVE FundingInv'
    <3>1. RowBinds  BY <2>3, RowWrites
    <3>2. BoundContract(k) = pp'.c /\ pp'.c \in 0..MaxContracts
      BY <3>1 DEF BoundContract, RowBinds, PaymentRow
    <3> QED  BY <1>1, <2>1, <2>3, <3>1, <3>2, FundGoesTo
  <2> QED  BY <1>10, <2>1, <2>2, <2>3 DEF FinishDeploy
<1>11. CASE DieFund(f)
  <2>1. UNCHANGED <<ppAge, deposits, lapsed, holding, expiry, onChain, pp>> /\ FundGoes(f, "idle", 0)
    BY <1>11 DEF DieFund
  <2> QED  BY <1>1, <1>3, <2>1, FundGoesTo
<1> QED  BY <1>4, <1>5, <1>6, <1>7, <1>8, <1>9, <1>10, <1>11

\* The deposit is recorded, lands or lapses.
LEMMA DepositKeeps ==
    ASSUME FundingInv, NEW f \in Funders, RecordFund(f) \/ LandDeposit(f) \/ LapseDeposit(f)
    PROVE  FundingInv'
<1>0. /\ deposits[f].c \in 0..MaxContracts /\ funder[f] \in FundCall /\ FundKnows(funder[f])
  BY DEF FundingInv, FundingType
<1>1. CASE RecordFund(f)
  <2>1. /\ ppAge # 2 /\ expiry = "idle" /\ pp.status # "EXPIRED"
        /\ UNCHANGED <<pp, ppAge, onChain, holding, expiry>>
    BY <1>0, <1>1 DEF RecordFund, FundKnows, FundingInv, Quiet, FundingType
  <2>2. /\ \/ deposits' = deposits
           \/ /\ pp.c # 0 /\ pp.c \in 0..MaxContracts
              /\ deposits' = [deposits EXCEPT ![f] = [status |-> "BUILT", c |-> pp.c]]
    BY <1>0, <1>1 DEF RecordFund, FundKnows, FundCall
  <2>3. deposits' \in [Funders -> [status : {"none", "BUILT", "SUBMITTED"}, c : 0..MaxContracts]]
    BY <2>2 DEF FundingInv, FundingType
  <2>4. funder' \in [Funders -> FundCall] /\ \A g \in Funders : funder'[g] = funder[g] \/ funder'[g].pc = "done"
    <3>1. [pc |-> "done", c |-> 0] \in FundCall  BY EscrowBounds DEF FundCall
    <3> QED  BY <1>1, <3>1 DEF RecordFund, FundGoes, FundingInv, FundingType
  <2>5. \A g \in Funders : FundKnows(funder[g])'  BY <2>1, <2>4 DEF FundKnows, FundingInv
  <2>6. \A g \in Funders : DepositBound(g)'  BY <2>1, <2>2 DEF FundingInv, FundingType, DepositBound
  <2> QED  BY <2>1, <2>3, <2>4, <2>5, <2>6 DEF FundingInv, FundingType
<1>2. CASE LandDeposit(f)
  <2>1. Outstanding  BY <1>2 DEF LandDeposit, Outstanding
  <2>2. /\ expiry = "idle" /\ pp.status # "EXPIRED" /\ deposits[f].c = pp.c /\ pp.c # 0
        /\ UNCHANGED <<ppAge, onChain, lapsed, funder, expiry>> /\ holding' = holding \cup {pp.c}
    BY <1>2, <2>1 DEF LandDeposit, FundingInv, Quiet, DepositBound
  <2>3. pp' \in PaymentRow /\ pp'.c = pp.c /\ pp'.status # "EXPIRED"
    BY <1>2, <2>2 DEF LandDeposit, Funded, FundingInv, FundingType, PaymentRow
  <2>4. /\ deposits' \in [Funders -> [status : {"none", "BUILT", "SUBMITTED"}, c : 0..MaxContracts]]
        /\ \A g \in Funders : deposits'[g].c = deposits[g].c /\ (deposits'[g].status = "none" <=> deposits[g].status = "none")
    <3>1. CASE deposits' = [deposits EXCEPT ![f].status = "SUBMITTED"]
      BY <1>2, <3>1 DEF LandDeposit, FundingInv, FundingType
    <3> QED  BY <1>2, <3>1 DEF LandDeposit, FundingInv, FundingType
  <2>5. \A g \in Funders : FundKnows(funder[g])'  BY <2>2, <2>3 DEF FundKnows, FundingInv
  <2>6. \A g \in Funders : DepositBound(g)'  BY <2>3, <2>4 DEF FundingInv, DepositBound
  <2>7. holding' \subseteq {pp'.c} \ {0}  BY <2>2, <2>3 DEF FundingInv
  <2> QED  BY <2>2, <2>3, <2>4, <2>5, <2>6, <2>7 DEF FundingInv, FundingType
<1>3. CASE LapseDeposit(f)
  <2>1. /\ lapsed' = lapsed \cup {f}
        /\ UNCHANGED <<pp, ppAge, onChain, deposits, holding, funder, expiry>>
    BY <1>3 DEF LapseDeposit
  <2>2. Quiet => Quiet'  BY <2>1 DEF Quiet, Outstanding
  <2> QED  BY <2>1, <2>2 DEF FundingInv, FundingType, FundKnows, DepositBound
<1> QED  BY <1>1, <1>2, <1>3

\* The expiry job's three statements, and time.
LEMMA ExpiryKeeps ==
    ASSUME FundingInv, ExpiryStep \/ AgeFunding
    PROVE  FundingInv'
<1>1. CASE ExpiryChecks
  <2>1. /\ Quiet /\ expiry' \in {"balance", "expire"} /\ (expiry' = "expire" => pp.c = 0)
        /\ UNCHANGED <<pp, ppAge, onChain, deposits, lapsed, holding, funder>>
    BY <1>1 DEF ExpiryChecks, MayLook, Quiet
  <2>2. Quiet' = Quiet  BY <2>1 DEF Quiet, Outstanding
  <2>3. expiry' = "expire" => holding' = {}  BY <2>1 DEF FundingInv
  <2> QED  BY <2>1, <2>2, <2>3 DEF FundingInv, FundingType, FundKnows, DepositBound
<1>2. CASE ExpiryReadsBalance
  <2>1. /\ Quiet /\ expiry' \in {"idle", "expire"} /\ (expiry' = "expire" => pp.c \notin holding)
        /\ UNCHANGED <<pp, ppAge, onChain, deposits, lapsed, holding, funder>>
    BY <1>2 DEF ExpiryReadsBalance, FundingInv
  <2>2. Quiet' = Quiet  BY <2>1 DEF Quiet, Outstanding
  <2>3. expiry' = "expire" => holding' = {}  BY <2>1 DEF FundingInv
  <2> QED  BY <2>1, <2>2, <2>3 DEF FundingInv, FundingType, FundKnows, DepositBound
<1>3. CASE Expire
  <2>1. /\ Quiet /\ holding = {} /\ expiry' = "idle"
        /\ UNCHANGED <<ppAge, onChain, deposits, lapsed, holding, funder>>
    BY <1>3 DEF Expire, FundingInv
  <2>2. pp' \in PaymentRow /\ pp'.c = pp.c
    BY <1>3 DEF Expire, Ended, FundingInv, FundingType, PaymentRow
  <2>3. Quiet' = Quiet  BY <2>1 DEF Quiet, Outstanding
  <2> QED  BY <2>1, <2>2, <2>3 DEF FundingInv, FundingType, FundKnows, DepositBound
<1>4. CASE AgeFunding
  <2>1. /\ ppAge \in {0, 1} /\ ppAge' = ppAge + 1
        /\ ppAge' = 2 => \A f \in Funders : funder[f].pc \in {"idle", "done"}
        /\ UNCHANGED <<pp, onChain, deposits, lapsed, holding, funder, expiry>>
    BY <1>4 DEF AgeFunding, FundingInv, FundingType
  <2>2. ~Quiet  BY <2>1 DEF Quiet
  <2>3. \A f \in Funders : FundKnows(funder[f])'  BY <2>1 DEF FundingInv, FundKnows
  <2> QED  BY <2>1, <2>2, <2>3 DEF FundingInv, FundingType, DepositBound
<1> QED  BY <1>1, <1>2, <1>3, <1>4 DEF ExpiryStep

\* What else moves the row: create, a lapsed lease, the sync job and cancel.
LEMMA RowMovesKeep ==
    ASSUME FundingInv,
           \/ CreateProtected \/ LeaseLapses \/ SyncFunding \/ (\E k \in Contracts : LapseDeploy(k))
           \/ \E m \in Cancellers : CancelChecks(m) \/ CancelReadsBalance(m) \/ Cancel(m)
    PROVE  FundingInv'
<1>1. UNCHANGED <<ppAge, onChain, deposits, lapsed, holding, funder, expiry>>
  BY DEF CreateProtected, LeaseLapses, SyncFunding, LapseDeploy, CancelChecks, CancelReadsBalance, Cancel
<1>2. \/ pp' = pp \/ pp' = [pp EXCEPT !.lease = "free"]
      \/ pp' = [pp EXCEPT !.status = "CREATED"] \/ pp' = [pp EXCEPT !.status = "FUNDED"]
      \/ pp' = [pp EXCEPT !.status = "CANCELLED"]
  BY DEF CreateProtected, LeaseLapses, SyncFunding, Funded, LapseDeploy, CancelChecks,
         CancelReadsBalance, Cancel, Ended
<1>3. RowBinds  BY <1>2 DEF RowBinds, FundingInv, FundingType, PaymentRow
<1> QED  BY <1>1, <1>3, RowBound

\* A deposit is only ever built for the contract the row keeps, and no payment with one
\* expires: for any number of fund and cancel requests, deploys and faults (deploy,
\* recoverDeploy, claimDeploy, fund, the expiry job).
THEOREM FundsNeverLost ==
    EscrowFundingInit /\ [][EscrowFundingNext]_efVars => []FundsAccountedFor
<1>1. EscrowFundingInit => FundingInv
  <2> SUFFICES ASSUME EscrowFundingInit PROVE FundingInv  OBVIOUS
  <2>1. FundingType
    BY EscrowBounds DEF EscrowFundingInit, FundingType, PaymentRow, FundCall, NoDeposit, Contracts
  <2> QED  BY <2>1 DEF EscrowFundingInit, FundingInv, FundKnows, DepositBound, NoDeposit
<1>2. FundingInv /\ [EscrowFundingNext]_efVars => FundingInv'
  <2> SUFFICES ASSUME FundingInv, [EscrowFundingNext]_efVars PROVE FundingInv'  OBVIOUS
  <2>1. CASE UNCHANGED efVars
    <3>1. UNCHANGED <<pp, ppAge, onChain, deposits, lapsed, holding, funder, expiry>>
      BY <2>1 DEF efVars
    <3> QED  BY <3>1, RowBound DEF RowBinds, FundingInv, FundingType
  <2> QED
    BY <2>1, FundStepKeeps, DepositKeeps, ExpiryKeeps, RowMovesKeep DEF EscrowFundingNext, FundStep
<1>3. FundingInv => FundsAccountedFor
  BY DEF FundingInv, DepositBound, FundsAccountedFor, DepositToBoundContract, ExpiredHoldsNothing
<1> QED  BY <1>1, <1>2, <1>3, PTL

-----------------------------------------------------------------------------
(***************************************************************************)
(* Both plugins on one server: a step is of one component, the others rest.*)
(***************************************************************************)

\* A step of the server is a step of one, and a stutter of the others.
LEMMA OnePluginMoves ==
    ASSUME [PluginsNext]_pluginsVars
    PROVE  [EscrowFundingNext]_efVars /\ [EscrowDeliveryNext]_edVars /\ [BlindpayNext]_bpVars
<1>1. CASE UNCHANGED pluginsVars  BY <1>1 DEF pluginsVars
<1>2. CASE PluginsNext  BY <1>2 DEF PluginsNext, Rest
<1> QED  BY <1>1, <1>2

\* A protected payment's row stays true to its contracts, before and after the deposit.
THEOREM ProtectedPaymentsTrue ==
    PluginsSpec => [](NeverAheadOfContract /\ FundsAccountedFor)
<1>1. PluginsInit => EscrowFundingInit /\ EscrowDeliveryInit  BY DEF PluginsInit
<1>2. [PluginsNext]_pluginsVars => [EscrowFundingNext]_efVars /\ [EscrowDeliveryNext]_edVars
  BY OnePluginMoves
<1> QED  BY <1>1, <1>2, RowFollowsContract, FundsNeverLost, PTL DEF PluginsSpec

\* The mirror of a BlindPay resource is not lost to a late refusal or a merge.
THEOREM MirrorStays ==
    PluginsSpec => AttachedRowStays
<1>1. PluginsInit => BlindpayInit  BY DEF PluginsInit
<1>2. [PluginsNext]_pluginsVars => [BlindpayNext]_bpVars  BY OnePluginMoves
<1> QED  BY <1>1, <1>2, AttachedStays, PTL DEF PluginsSpec
==============================================================================
