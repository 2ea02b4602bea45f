--------------------------- MODULE BlindpayMirror ---------------------------
(***************************************************************************)
(* The mirror of one BlindPay payin or payout: BlindpaySyncService, the    *)
(* create and the single read of OnrampService and OfframpService, and     *)
(* BlindpayReconcilerService.  A create opens a row before it calls the    *)
(* provider and attaches the answer after it.  Webhooks repeat, overtake   *)
(* each other and race the create; one that finds no row is attributed     *)
(* through its quote.  The reconciler re-reads what is still open.  Both   *)
(* tables have one shape in the code (MirrorStore), so one is modelled.    *)
(***************************************************************************)
EXTENDS Integers

CONSTANTS
    BpCreators, \* create requests for the quote, retries included
    BpHandlers, \* webhook requests handled at one time
    BpReaders,  \* tenant reads (findOne) of a stale row
    BpFinals,   \* settled statuses BlindPay reports; "refunded" stands for all but completed
    BpFaults    \* bound: refusals, lost answers, dead processes, lost events, late reads

ASSUME BpBounds == BpFinals \subseteq {"completed", "refunded"} /\ BpFaults \in Nat /\ "recon" \notin BpHandlers

BpWorkers == BpHandlers \cup {"recon"}

VARIABLES
    bpQuoted,  \* the quote was minted (BlindpayQuote)
    bpAt,      \* the resource at the provider: NONE or its status
    bpRows,    \* 1: the row opened under the execution key, 2: a row upserted by provider id
    bpEvents,  \* event -> NONE, SENT, OPEN (recorded), APPLIED, LOST
    bpCreate,  \* local state of a create
    bpWork,    \* local state of a webhook request or of the reconciler
    bpRead,    \* local state of a tenant read
    bpTold,    \* the completion was emitted to the owner
    bpCut,     \* a process died between closing an event and emitting it
    bpFaults   \* faults so far

bpVars == <<bpQuoted, bpAt, bpRows, bpEvents, bpCreate, bpWork, bpRead, bpTold, bpCut, bpFaults>>

BpSettled == BpFinals
BpStatus == {"processing"} \cup BpSettled
NoBpRow == [status |-> "ABSENT", pid |-> FALSE]
BpIdle == [pc |-> "idle", ev |-> "none", obj |-> "none", row |-> 0]

BlindpayInit ==
    /\ bpQuoted = FALSE /\ bpAt = "NONE"
    /\ bpRows = [r \in 1..2 |-> NoBpRow]
    /\ bpEvents = [e \in BpStatus |-> "NONE"]
    /\ bpCreate = [c \in BpCreators |-> [pc |-> "idle", new |-> FALSE, obj |-> "none"]]
    /\ bpWork = [w \in BpWorkers |-> BpIdle]
    /\ bpRead = [x \in BpReaders |-> [pc |-> "idle", obj |-> "none"]]
    /\ bpTold = FALSE /\ bpCut = FALSE /\ bpFaults = 0

BpFault == bpFaults < BpFaults /\ bpFaults' = bpFaults + 1

MintQuote ==
    /\ ~bpQuoted /\ bpQuoted' = TRUE
    /\ UNCHANGED <<bpAt, bpRows, bpEvents, bpCreate, bpWork, bpRead, bpTold, bpCut, bpFaults>>

-----------------------------------------------------------------------------
(* The tables                                                                *)

BpAttached == {r \in 1..2 : bpRows[r].pid}

\* noRegressionFrom: a settled row takes a settled status only.
NoRegression(r, s) == s \in BpSettled \/ bpRows[r].status \notin BpSettled

\* transition with `fields`: the provider id, and the status where the guard allows it.
Filled(r, s) ==
    bpRows' = [bpRows EXCEPT ![r] =
                 [status |-> IF NoRegression(r, s) THEN s ELSE @.status, pid |-> TRUE]]

\* The opened row cannot take the provider id another row holds (P2002).
IdTaken == ~bpRows[1].pid /\ bpRows[2].pid

DiscardAnyway == bpRows' = [bpRows EXCEPT ![1] = NoBpRow]
\* discard: the opened row, while it has no provider id.
Discard == bpRows' = IF bpRows[1].pid THEN bpRows ELSE [bpRows EXCEPT ![1] = NoBpRow]

\* mirrorPayin, mirrorPayout: upsert by provider id; the status is overwritten.
Upsert(s) ==
    LET r == IF bpRows[1].pid THEN 1 ELSE 2
    IN  bpRows' = [bpRows EXCEPT ![r] = [status |-> s, pid |-> TRUE]]

-----------------------------------------------------------------------------
(* createPayin, createPayout                                                 *)

CreateAt(c, pc) == bpCreate' = [bpCreate EXCEPT ![c].pc = pc]
CreateEnds(c) == bpCreate' = [bpCreate EXCEPT ![c] = [pc |-> "done", new |-> FALSE, obj |-> "none"]]

\* openPayin: a retry gets back the row its first attempt opened.  The requests are
\* alike: which one is next does not matter.
OpenRow(c) ==
    /\ bpQuoted /\ bpCreate[c].pc = "idle" /\ c = CHOOSE d \in BpCreators : bpCreate[d].pc = "idle"
    /\ bpCreate' = [bpCreate EXCEPT ![c].pc = "opened", ![c].new = bpRows[1] = NoBpRow]
    /\ bpRows' = IF bpRows[1] = NoBpRow
                 THEN [bpRows EXCEPT ![1] = [status |-> "pending_provider", pid |-> FALSE]]
                 ELSE bpRows
    /\ UNCHANGED <<bpQuoted, bpAt, bpEvents, bpWork, bpRead, bpTold, bpCut, bpFaults>>

\* The provider call, under the quote's Idempotency-Key: made once, then replayed.
\* The answer is the resource, is lost, or is a refusal.
Execute(c) ==
    /\ bpCreate[c].pc = "opened"
    /\ \/ /\ bpAt' = IF bpAt = "NONE" THEN "processing" ELSE bpAt
          /\ bpEvents' = IF bpAt = "NONE" THEN [bpEvents EXCEPT !["processing"] = "SENT"] ELSE bpEvents
          /\ \/ /\ bpCreate' = [bpCreate EXCEPT ![c].pc = "answered", ![c].obj = bpAt']
                /\ UNCHANGED bpFaults
             \/ CreateEnds(c) /\ BpFault
       \/ /\ BpFault /\ (IF bpCreate[c].new THEN CreateAt(c, "refused") ELSE CreateEnds(c))
          /\ UNCHANGED <<bpAt, bpEvents>>
    /\ UNCHANGED <<bpQuoted, bpRows, bpWork, bpRead, bpTold, bpCut>>

\* A refusal drops the row this attempt opened.
DropRefused(c) ==
    /\ bpCreate[c].pc = "refused" /\ Discard /\ CreateEnds(c)
    /\ UNCHANGED <<bpQuoted, bpAt, bpEvents, bpWork, bpRead, bpTold, bpCut, bpFaults>>

\* attachCreated: a row dropped meanwhile is an error that is only logged.
AttachCreated(c) ==
    /\ bpCreate[c].pc = "answered"
    /\ IF bpRows[1] = NoBpRow THEN CreateEnds(c) /\ UNCHANGED bpRows
       ELSE IF IdTaken THEN CreateAt(c, "discard") /\ UNCHANGED bpRows
       ELSE CreateEnds(c) /\ Filled(1, bpCreate[c].obj)
    /\ UNCHANGED <<bpQuoted, bpAt, bpEvents, bpWork, bpRead, bpTold, bpCut, bpFaults>>

\* attachOrMerge, when another row holds the provider id.
MergeCreated(c) ==
    /\ \/ bpCreate[c].pc = "discard" /\ Discard /\ CreateAt(c, "mirror")
       \/ bpCreate[c].pc = "mirror" /\ Upsert(bpCreate[c].obj) /\ CreateEnds(c)
    /\ UNCHANGED <<bpQuoted, bpAt, bpEvents, bpWork, bpRead, bpTold, bpCut, bpFaults>>

-----------------------------------------------------------------------------
(* BlindPay and Svix, as the code uses them                                  *)

BpMoves ==
    /\ \E s \in BpSettled :
         /\ bpAt = "processing" \/ (bpAt = "completed" /\ s = "refunded")
         /\ bpAt' = s /\ bpEvents' = [bpEvents EXCEPT ![s] = "SENT"]
    /\ UNCHANGED <<bpQuoted, bpRows, bpCreate, bpWork, bpRead, bpTold, bpCut, bpFaults>>

SvixGivesUp(e) ==
    /\ bpEvents[e] = "SENT" /\ BpFault /\ bpEvents' = [bpEvents EXCEPT ![e] = "LOST"]
    /\ UNCHANGED <<bpQuoted, bpAt, bpRows, bpCreate, bpWork, bpRead, bpTold, bpCut>>

-----------------------------------------------------------------------------
(* handleWebhook, and retryOpenEvent of the reconciler                       *)

WorkAt(w, pc) == bpWork' = [bpWork EXCEPT ![w].pc = pc]
StartsWork(w, e, obj, pc, r) ==
    /\ bpWork[w].pc = "idle"
    /\ bpWork' = [bpWork EXCEPT ![w] = [pc |-> pc, ev |-> e, obj |-> obj, row |-> r]]

ClosedAtOnce == "APPLIED"
\* How claimDelivery leaves the event it records: open until it reached a row.
Recorded == "OPEN"

\* claimDelivery: an event recorded and not yet applied is handled again.
TakeDelivery(w, e) ==
    /\ w \in BpHandlers /\ bpEvents[e] \in {"SENT", "OPEN"}
    /\ StartsWork(w, e, e, "look", 0)
    /\ bpEvents' = [bpEvents EXCEPT ![e] = Recorded]
    /\ UNCHANGED <<bpQuoted, bpAt, bpRows, bpCreate, bpRead, bpTold, bpCut, bpFaults>>

\* retryOpenEvents: the resource is read anew.
RetryOpenEvent(e) ==
    /\ bpEvents[e] = "OPEN" /\ StartsWork("recon", e, bpAt, "look", 0)
    /\ UNCHANGED <<bpQuoted, bpAt, bpRows, bpEvents, bpCreate, bpRead, bpTold, bpCut, bpFaults>>

\* applyMoney: the row by provider id.
FindMirror(w) ==
    /\ bpWork[w].pc = "look"
    /\ IF BpAttached # {}
       THEN bpWork' = [bpWork EXCEPT ![w].pc = "apply", ![w].row = CHOOSE r \in BpAttached : TRUE]
       ELSE WorkAt(w, "attribute")
    /\ UNCHANGED <<bpQuoted, bpAt, bpRows, bpEvents, bpCreate, bpRead, bpTold, bpCut, bpFaults>>

ApplyToRow(w) ==
    /\ bpWork[w].pc = "apply"
    /\ LET r == bpWork[w].row  s == bpWork[w].obj IN
       /\ bpRows' = IF NoRegression(r, s) THEN [bpRows EXCEPT ![r].status = s] ELSE bpRows
       /\ WorkAt(w, "close")
    /\ UNCHANGED <<bpQuoted, bpAt, bpEvents, bpCreate, bpRead, bpTold, bpCut, bpFaults>>

\* attribute: through the quote, to the row a create opened, or to a new one.
Attribute(w) ==
    /\ bpWork[w].pc = "attribute" /\ bpQuoted
    /\ WorkAt(w, IF bpRows[1] # NoBpRow /\ ~bpRows[1].pid THEN "fill" ELSE "mirror")
    /\ UNCHANGED <<bpQuoted, bpAt, bpRows, bpEvents, bpCreate, bpRead, bpTold, bpCut, bpFaults>>

\* attachOrMerge on the open row; it throws when the row was dropped meanwhile.
FillRow(w) ==
    /\ bpWork[w].pc = "fill"
    /\ IF bpRows[1] = NoBpRow THEN bpWork' = [bpWork EXCEPT ![w] = BpIdle] /\ UNCHANGED bpRows
       ELSE IF IdTaken THEN WorkAt(w, "discard") /\ UNCHANGED bpRows
       ELSE Filled(1, bpWork[w].obj) /\ WorkAt(w, "close")
    /\ UNCHANGED <<bpQuoted, bpAt, bpEvents, bpCreate, bpRead, bpTold, bpCut, bpFaults>>

MergeRow(w) ==
    /\ \/ bpWork[w].pc = "discard" /\ Discard /\ WorkAt(w, "mirror")
       \/ bpWork[w].pc = "mirror" /\ Upsert(bpWork[w].obj) /\ WorkAt(w, "close")
    /\ UNCHANGED <<bpQuoted, bpAt, bpEvents, bpCreate, bpRead, bpTold, bpCut, bpFaults>>

\* closeDelivery: the one caller that closes the event notifies.
CloseDelivery(w) ==
    /\ bpWork[w].pc = "close"
    /\ LET e == bpWork[w].ev IN
       IF bpEvents[e] = "OPEN" THEN bpEvents' = [bpEvents EXCEPT ![e] = "APPLIED"] /\ WorkAt(w, "tell")
       ELSE bpWork' = [bpWork EXCEPT ![w] = BpIdle] /\ UNCHANGED bpEvents
    /\ UNCHANGED <<bpQuoted, bpAt, bpRows, bpCreate, bpRead, bpTold, bpCut, bpFaults>>

\* announce: a completion whether or not the row moved; the terminal emitter keeps it to
\* one.  The other events are emitted when the row moved, and are not tracked.
Announce(w) ==
    /\ bpWork[w].pc = "tell"
    /\ bpTold' = (bpTold \/ bpWork[w].ev = "completed")
    /\ bpWork' = [bpWork EXCEPT ![w] = BpIdle]
    /\ UNCHANGED <<bpQuoted, bpAt, bpRows, bpEvents, bpCreate, bpRead, bpCut, bpFaults>>

WorkerDies(w) ==
    /\ bpWork[w].pc # "idle" /\ BpFault
    /\ bpWork' = [bpWork EXCEPT ![w] = BpIdle] /\ bpCut' = (bpCut \/ bpWork[w].pc = "tell")
    /\ UNCHANGED <<bpQuoted, bpAt, bpRows, bpEvents, bpCreate, bpRead, bpTold>>

-----------------------------------------------------------------------------
(* BlindpayReconcilerService                                                 *)

ChecksProcessing(r) == bpRows[r].pid /\ bpRows[r].status = "pending_provider"
\* openRows: a provider id and a status that is not settled.
ChecksRow(r) == bpRows[r].pid /\ bpRows[r].status \notin BpSettled

ReadUpstream(r) ==
    /\ ChecksRow(r) /\ StartsWork("recon", "none", bpAt, "reconcile", r)
    /\ UNCHANGED <<bpQuoted, bpAt, bpRows, bpEvents, bpCreate, bpRead, bpTold, bpCut, bpFaults>>

\* reconcile: only a write that moves the status announces.
Reconcile ==
    LET w == bpWork["recon"] IN
    /\ w.pc = "reconcile"
    /\ IF NoRegression(w.row, w.obj) /\ bpRows[w.row].status # w.obj
       THEN /\ bpRows' = [bpRows EXCEPT ![w.row].status = w.obj]
            /\ bpWork' = [bpWork EXCEPT !["recon"] = [w EXCEPT !.pc = "tell", !.ev = w.obj]]
       ELSE /\ bpWork' = [bpWork EXCEPT !["recon"] = BpIdle] /\ UNCHANGED bpRows
    /\ UNCHANGED <<bpQuoted, bpAt, bpEvents, bpCreate, bpRead, bpTold, bpCut, bpFaults>>

\* A row with no provider id for an hour is marked for an operator.
MarkUnconfirmed ==
    /\ bpRows[1].status = "pending_provider" /\ ~bpRows[1].pid
    /\ bpRows' = [bpRows EXCEPT ![1].status = "provider_unconfirmed"]
    /\ UNCHANGED <<bpQuoted, bpAt, bpEvents, bpCreate, bpWork, bpRead, bpTold, bpCut, bpFaults>>

-----------------------------------------------------------------------------
(* findOne of a row older than MIRROR_FRESHNESS_MS, whose answer comes late  *)

ReadsStale(x) ==
    /\ bpRead[x].pc = "idle" /\ BpAttached # {} /\ BpFault
    /\ bpRead' = [bpRead EXCEPT ![x] = [pc |-> "write", obj |-> bpAt]]
    /\ UNCHANGED <<bpQuoted, bpAt, bpRows, bpEvents, bpCreate, bpWork, bpTold, bpCut>>

RefreshOnRead(x) ==
    /\ bpRead[x].pc = "write" /\ Upsert(bpRead[x].obj)
    /\ bpRead' = [bpRead EXCEPT ![x] = [pc |-> "idle", obj |-> "none"]]
    /\ UNCHANGED <<bpQuoted, bpAt, bpEvents, bpCreate, bpWork, bpTold, bpCut, bpFaults>>

-----------------------------------------------------------------------------
CreateStep(c) == Execute(c) \/ DropRefused(c) \/ AttachCreated(c) \/ MergeCreated(c)
WorkStep(w) ==
    \/ FindMirror(w) \/ ApplyToRow(w) \/ Attribute(w) \/ FillRow(w) \/ MergeRow(w)
    \/ CloseDelivery(w) \/ Announce(w)

BlindpayNext ==
    \/ MintQuote \/ BpMoves \/ MarkUnconfirmed \/ Reconcile
    \/ \E c \in BpCreators : OpenRow(c) \/ CreateStep(c)
    \/ \E w \in BpWorkers : WorkStep(w) \/ WorkerDies(w)
    \/ \E e \in BpStatus : SvixGivesUp(e) \/ RetryOpenEvent(e) \/ \E w \in BpHandlers : TakeDelivery(w, e)
    \/ \E r \in 1..2 : ReadUpstream(r)
    \/ \E x \in BpReaders : ReadsStale(x) \/ RefreshOnRead(x)

\* The reconciler's ticks, the requests under way, and Svix's retries of what it has not given up.
BlindpayFairness ==
    /\ WF_bpVars(Reconcile) /\ WF_bpVars(\E r \in 1..2 : ReadUpstream(r))
    /\ \A c \in BpCreators : WF_bpVars(CreateStep(c))
    /\ \A w \in BpWorkers : WF_bpVars(WorkStep(w))
    /\ \A e \in BpStatus : /\ WF_bpVars(RetryOpenEvent(e))
                           /\ WF_bpVars(\E w \in BpHandlers : TakeDelivery(w, e))
    /\ \A x \in BpReaders : WF_bpVars(RefreshOnRead(x))

-----------------------------------------------------------------------------
(* Properties                                                                *)

\* A payin or payout the provider id of which reached a row keeps such a row: a refusal that
\* arrives after another attempt, or a webhook, attached the id drops nothing.
AttachedRowStays == [][BpAttached # {} => BpAttached' # {}]_bpVars

\* A resource the server has heard of (a row with its id, or a recorded event) and that
\* settled at BlindPay is settled in the mirror in the end, whatever was lost or overtaken.
MirrorSettles ==
    (bpAt \in BpSettled /\ (BpAttached # {} \/ \E e \in BpStatus : bpEvents[e] \in {"OPEN", "APPLIED"}))
        ~> (\E r \in BpAttached : bpRows[r].status \in BpSettled)

\* A completion Svix does not give up on is announced to the owner, however the row got
\* there, unless a process died between closing the event and emitting it.
CompletionTold ==
    (bpEvents["completed"] \in {"SENT", "OPEN", "APPLIED"})
        ~> (bpTold \/ bpCut \/ bpEvents["completed"] = "LOST")

\* What the provider did reaches the row and, if it completed, the owner.
MirrorCatchesUp == MirrorSettles /\ CompletionTold

\* What blindpay.constants.ts says of SETTLED_STATUSES: a webhook may move a row into one
\* at any time, but never back out.
WebhookNeverBackOut ==
    [][\A r \in 1..2 : bpRows[r].status \in BpSettled => bpRows'[r].status \in BpSettled]_bpVars

\* What the reconciler's docblock says: a completion is announced "whichever path saw it
\* first", also when the webhook never came.
WhicheverPathFirst ==
    (bpAt = "completed" /\ BpAttached # {}) ~> (bpTold \/ bpCut \/ bpAt = "refunded")

\* What BlindpaySyncService says: a resource BlindPay created is never one we have no row for.
CreatedHasRow == bpAt # "NONE" => \E r \in 1..2 : bpRows[r] # NoBpRow
=============================================================================
