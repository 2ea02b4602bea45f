-------------------------- MODULE WebhookDelivery --------------------------
(***************************************************************************)
(* Webhook delivery: WebhookTerminalEmitter writes the delivery rows of a  *)
(* terminal event with its dedup claim, the dispatcher POSTs them in       *)
(* process, the sweeper of each replica takes over the rows nobody         *)
(* finished, an integrator re-sends one by hand, and the retention job     *)
(* clears the bodies of old rows.  Every one of them may die between any   *)
(* two statements; the rows are the queue.                                 *)
(*                                                                         *)
(* Time passes in units of the longest run of the dispatcher's retry loop, *)
(* which its timeouts bound: a loop sees at most one Tick.                 *)
(***************************************************************************)
EXTENDS Integers, FiniteSets

CONSTANTS
    Events,         \* the events that happen
    Terminal,       \* those of TERMINAL_WEBHOOK_EVENTS
    Endpoints,      \* the consumer's endpoints, each subscribed to every type
    Buses,          \* task slots of the in-memory bus (handleEvent)
    Sweepers,       \* replicas, each with one sweep at a time
    Callers,        \* task slots of the redelivery route
    MaxAttempts,    \* WEBHOOK_MAX_ATTEMPTS
    BudgetCycles,   \* RETRY_BUDGET_CYCLES
    BatchSize,      \* SWEEP_BATCH_SIZE
    Concurrency,    \* SWEEP_CONCURRENCY
    StrandedAfter,  \* strandedAfterMs, in Ticks
    Cooldown,       \* retryCooldownMs, in Ticks
    AttemptLimit    \* bound of the model: nobody re-sends a row tried that often

ASSUME WebhookBounds ==
    /\ MaxAttempts \in Nat \ {0}
    /\ BudgetCycles \in Nat \ {0}
    /\ BatchSize \in Nat \ {0}
    /\ Concurrency \in Nat \ {0}
    /\ StrandedAfter \in Nat \ {0}
    /\ Cooldown \in 1..StrandedAfter
    /\ AttemptLimit \in Nat
ASSUME WebhookInputs ==
    /\ Terminal \subseteq Events
    /\ IsFiniteSet(Events) /\ IsFiniteSet(Endpoints)
    /\ Buses \cap Sweepers = {} /\ Buses \cap Callers = {} /\ Sweepers \cap Callers = {}

Rows    == Events \X Endpoints      \* the delivery of an event to an endpoint
Workers == Buses \cup Sweepers \cup Callers
Budget  == MaxAttempts * BudgetCycles

-----------------------------------------------------------------------------
VARIABLES
    endpoint,  \* webhook_endpoint: "enabled", "disabled" or destination-"blocked"
    emitted,   \* events emitted; for a terminal one, webhook_emitted_event
    minted,    \* how many rows were ever inserted for the delivery
    born,      \* webhook_delivery.createdAt, as the number of rows before it
    status,    \* webhook_delivery.status
    attempts,  \* webhook_delivery.attempts
    age,       \* Ticks since lastAttemptAt, or since createdAt before the first
    redacted,  \* rows whose payload is REDACTED_PAYLOAD
    pruning,   \* the ids the retention job has selected
    task,      \* what each worker does between two statements
    loop,      \* the retry loop of each worker for each row
    spent,     \* workers that have been at it since before the last Tick
    byHand     \* history: rows an integrator re-sent

delivery == <<minted, born, status, attempts, age, redacted>>
local    == <<task, loop, spent>>
vars     == <<endpoint, emitted, delivery, pruning, local, byHand>>

\* A worker is idle, is about to handle an event, with the rows of the emitter's
\* claim, or is about to recover the rows of a sweep.
Task == [pc : {"idle", "handle", "recover"}, event : Events \cup {"none"}, ids : SUBSET Rows]
Idle == [pc |-> "idle", event |-> "none", ids |-> {}]

\* `tries` are left, `n` is the attempts counter it counts from the row it read.
Loop == {l \in [at : {"none", "queued", "send", "record"}, tries : 0..MaxAttempts,
                n : Nat, ok : BOOLEAN] : l.at \in {"queued", "send"} => l.tries > 0}
NoLoop == [at |-> "none", tries |-> 0, n |-> 0, ok |-> FALSE]

Stored(d) == status[d] \in {"PENDING", "SUCCEEDED", "FAILED"}
Busy(w)   == task[w].pc # "idle" \/ \E d \in Rows : loop[w][d].at # "none"
Active(w, d) == loop[w][d].at \in {"send", "record"}

Init ==
    /\ endpoint = [p \in Endpoints |-> "absent"]
    /\ emitted  = {}
    /\ minted   = [d \in Rows |-> 0]
    /\ born     = [d \in Rows |-> 0]
    /\ status   = [d \in Rows |-> "ABSENT"]
    /\ attempts = [d \in Rows |-> 0]
    /\ age      = [d \in Rows |-> 0]
    /\ redacted = {}
    /\ pruning  = {}
    /\ task     = [w \in Workers |-> Idle]
    /\ loop     = [w \in Workers |-> [d \in Rows |-> NoLoop]]
    /\ spent    = {}
    /\ byHand   = {}

-----------------------------------------------------------------------------
\* Time.  A retry loop, and the statements around it, outlast at most one Tick.

Older(n) == IF n < StrandedAfter THEN n + 1 ELSE n

Tick ==
    /\ \A w \in spent : ~Busy(w)
    /\ spent' = {w \in Workers : Busy(w)}
    /\ age' = [d \in Rows |-> IF Stored(d) THEN Older(age[d]) ELSE age[d]]
    /\ UNCHANGED <<endpoint, emitted, minted, born, status, attempts, redacted,
                   pruning, task, loop, byHand>>

-----------------------------------------------------------------------------
\* webhooks.service.ts

Create(p) ==
    /\ endpoint[p] = "absent"
    /\ endpoint' = [endpoint EXCEPT ![p] = "enabled"]
    /\ UNCHANGED <<emitted, delivery, pruning, local, byHand>>

\* A new url lifts the block and leaves `enabled` as it is, enabled: true lifts
\* both, enabled: false lifts neither.
Update(p) ==
    /\ \/ /\ endpoint[p] \in {"disabled", "blocked"}
          /\ endpoint' = [endpoint EXCEPT ![p] = "enabled"]
       \/ /\ endpoint[p] = "blocked"
          /\ endpoint' = [endpoint EXCEPT ![p] = "disabled"]
       \/ /\ endpoint[p] = "enabled"
          /\ endpoint' = [endpoint EXCEPT ![p] = "disabled"]
    /\ UNCHANGED <<emitted, delivery, pruning, local, byHand>>

\* pingEndpoint: a test POST whose destination is refused blocks the endpoint.
Ping(p) ==
    /\ endpoint[p] \in {"enabled", "disabled"}
    /\ endpoint' = [endpoint EXCEPT ![p] = "blocked"]
    /\ UNCHANGED <<emitted, delivery, pruning, local, byHand>>

\* The deliveries go with their endpoint (onDelete: Cascade).
Remove(p) ==
    /\ endpoint[p] \in {"enabled", "disabled", "blocked"}
    /\ endpoint' = [endpoint EXCEPT ![p] = "deleted"]
    /\ status' = [d \in Rows |-> IF d[2] = p /\ Stored(d) THEN "DELETED" ELSE status[d]]
    /\ UNCHANGED <<emitted, minted, born, attempts, age, redacted, pruning, local, byHand>>

-----------------------------------------------------------------------------
\* The emitter and the bus.

\* persistDeliveries: one PENDING row per enabled endpoint.
Targets(e) == {d \in Rows : d[1] = e /\ endpoint[d[2]] = "enabled"}

Mint(S) ==
    /\ minted'   = [d \in Rows |-> IF d \in S THEN minted[d] + 1 ELSE minted[d]]
    /\ born'     = [d \in Rows |-> IF d \in S
                                    THEN Cardinality({c \in Rows : minted[c] > 0}) ELSE born[d]]
    /\ status'   = [d \in Rows |-> IF d \in S THEN "PENDING" ELSE status[d]]
    /\ attempts' = [d \in Rows |-> IF d \in S THEN 0 ELSE attempts[d]]
    /\ age'      = [d \in Rows |-> IF d \in S THEN 0 ELSE age[d]]
    /\ UNCHANGED redacted

\* emit: a terminal event's claim and rows commit together, whoever claims it
\* second is a duplicate; any other event goes straight to the bus.
Emit(w, e) ==
    LET ids == IF e \in Terminal THEN Targets(e) ELSE {}
    IN  /\ ~Busy(w) /\ e \notin emitted
        /\ emitted' = emitted \cup {e}
        /\ Mint(ids)
        /\ task' = [task EXCEPT ![w] = [pc |-> "handle", event |-> e, ids |-> ids]]
        /\ spent' = spent \ {w}
        /\ UNCHANGED <<endpoint, pruning, loop, byHand>>

\* The retry loop of a row as it is read now, and of one that waits its turn.
Fresh(at, n) == [at |-> at, tries |-> MaxAttempts, n |-> n, ok |-> FALSE]
Begin(d)     == Fresh("send", attempts[d])
Wait(d)      == Fresh("queued", attempts[d])

Start(w, S) == loop' = [loop EXCEPT ![w] = [d \in Rows |-> IF d \in S THEN Begin(d) ELSE NoLoop]]

\* handleEvent with ids sends the rows the claim wrote ...
AlwaysMints(w) == FALSE
HasRows(w) == task[w].ids # {}

Handle(w) ==
    /\ task[w].pc = "handle" /\ HasRows(w)
    /\ Start(w, {d \in task[w].ids : Stored(d)})
    /\ task' = [task EXCEPT ![w] = Idle]
    /\ UNCHANGED <<endpoint, emitted, delivery, pruning, spent, byHand>>

\* ... and without any, or with an empty list, inserts them.  They are inserted
\* one by one: one that fails leaves those before it to the sweeper.
HandleAndPersist(w) ==
    LET e == task[w].event
    IN  /\ task[w].pc = "handle" /\ ~HasRows(w)
        /\ \E S \in SUBSET Targets(e) :
              /\ Mint(S)
              /\ loop' = [loop EXCEPT ![w] =
                            [d \in Rows |-> IF S = Targets(e) /\ d \in S
                                             THEN Fresh("send", 0) ELSE NoLoop]]
        /\ task' = [task EXCEPT ![w] = Idle]
        /\ UNCHANGED <<endpoint, emitted, pruning, spent, byHand>>

-----------------------------------------------------------------------------
\* attempt: the retry loop.

\* The loop after one more POST.
Tried(l, at, ok) == [at |-> at, tries |-> l.tries - 1, n |-> l.n + 1, ok |-> ok]

\* One POST.  It is answered, fails, or is refused by the destination check,
\* which blocks the endpoint (an error when the endpoint is gone).
Post(w, d) ==
    LET l == loop[w][d]
    IN  /\ l.at = "send"
        /\ \/ /\ loop' = [loop EXCEPT ![w][d] = Tried(l, "record", TRUE)]
              /\ UNCHANGED endpoint
           \/ /\ loop' = [loop EXCEPT ![w][d] =
                            Tried(l, IF l.tries = 1 THEN "record" ELSE "send", FALSE)]
              /\ UNCHANGED endpoint
           \/ /\ endpoint[d[2]] # "deleted"
              /\ endpoint' = [endpoint EXCEPT ![d[2]] = "blocked"]
              /\ loop' = [loop EXCEPT ![w][d] = Tried(l, "record", FALSE)]
        /\ UNCHANGED <<emitted, delivery, pruning, task, spent, byHand>>

\* finalize: an update by id, whatever the row's status has become.
Finalize(w, d) ==
    LET l == loop[w][d]
    IN  /\ l.at = "record"
        /\ status'   = IF Stored(d)
                        THEN [status EXCEPT ![d] = IF l.ok THEN "SUCCEEDED" ELSE "FAILED"] ELSE status
        /\ attempts' = IF Stored(d) THEN [attempts EXCEPT ![d] = l.n] ELSE attempts
        /\ age'      = IF Stored(d) THEN [age EXCEPT ![d] = 0] ELSE age
        /\ loop'     = [loop EXCEPT ![w][d] = NoLoop]
        /\ UNCHANGED <<endpoint, emitted, minted, born, redacted, pruning, task, spent, byHand>>

\* A statement of the loop fails: its row is left to the sweeper.
Fail(w, d) ==
    /\ Active(w, d)
    /\ loop' = [loop EXCEPT ![w][d] = NoLoop]
    /\ UNCHANGED <<endpoint, emitted, delivery, pruning, task, spent, byHand>>

\* The pod dies, or a statement before the loops fails.
Crash(w) ==
    /\ Busy(w)
    /\ task' = [task EXCEPT ![w] = Idle]
    /\ loop' = [loop EXCEPT ![w] = [d \in Rows |-> NoLoop]]
    /\ UNCHANGED <<endpoint, emitted, delivery, pruning, spent, byHand>>

-----------------------------------------------------------------------------
\* WebhookDeliverySweeperService

OnlyFailed(d) ==
    /\ endpoint[d[2]] = "enabled" /\ d \notin redacted
    /\ status[d] = "FAILED" /\ attempts[d] < Budget /\ age[d] >= Cooldown
NoBudget(d) ==
    /\ endpoint[d[2]] = "enabled" /\ d \notin redacted
    /\ \/ status[d] = "PENDING" /\ age[d] >= StrandedAfter
       \/ status[d] = "FAILED" /\ age[d] >= Cooldown
AnyPending(d) ==
    /\ endpoint[d[2]] = "enabled" /\ d \notin redacted
    /\ \/ status[d] = "PENDING"
       \/ status[d] = "FAILED" /\ attempts[d] < Budget /\ age[d] >= Cooldown
Stranded(d) ==
    /\ endpoint[d[2]] = "enabled" /\ d \notin redacted
    /\ \/ status[d] = "PENDING" /\ age[d] >= StrandedAfter
       \/ status[d] = "FAILED" /\ attempts[d] < Budget /\ age[d] >= Cooldown

\* The oldest BatchSize rows of S.
Batches(S) ==
    {B \in SUBSET S : /\ Cardinality(B) = IF Cardinality(S) < BatchSize
                                           THEN Cardinality(S) ELSE BatchSize
                      /\ \A d \in B, c \in S \ B : born[d] <= born[c]}

\* claimStranded, under the advisory lock: the rows are selected and stamped.
ClaimStranded(w) ==
    /\ ~Busy(w)
    /\ \E B \in Batches({d \in Rows : Stranded(d)}) :
          /\ B # {}
          /\ age' = [d \in Rows |-> IF d \in B THEN 0 ELSE age[d]]
          /\ task' = [task EXCEPT ![w] = [pc |-> "recover", event |-> "none", ids |-> B]]
    /\ spent' = spent \ {w}
    /\ UNCHANGED <<endpoint, emitted, minted, born, status, attempts, redacted,
                   pruning, loop, byHand>>

\* recover re-reads the rows by id and sends them Concurrency at a time.
Recover(w) ==
    LET ids == {d \in task[w].ids : Stored(d)}
    IN  /\ task[w].pc = "recover"
        /\ \E S \in SUBSET ids :
              /\ Cardinality(S) = IF Cardinality(ids) < Concurrency
                                   THEN Cardinality(ids) ELSE Concurrency
              /\ loop' = [loop EXCEPT ![w] =
                            [d \in Rows |-> IF d \in S THEN Begin(d)
                                            ELSE IF d \in ids THEN Wait(d)
                                            ELSE NoLoop]]
        /\ task' = [task EXCEPT ![w] = Idle]
        /\ UNCHANGED <<endpoint, emitted, delivery, pruning, spent, byHand>>

\* The next chunk, once the one before it is done.
NextChunk(w) ==
    LET queued == {d \in Rows : loop[w][d].at = "queued"}
    IN  /\ queued # {} /\ \A d \in Rows : ~Active(w, d)
        /\ \E S \in SUBSET queued :
              /\ Cardinality(S) = IF Cardinality(queued) < Concurrency
                                   THEN Cardinality(queued) ELSE Concurrency
              /\ loop' = [loop EXCEPT ![w] =
                            [d \in Rows |-> IF d \in S /\ Stored(d)
                                              THEN [loop[w][d] EXCEPT !.at = "send"]
                                            ELSE IF d \in S THEN NoLoop ELSE loop[w][d]]]
        /\ spent' = spent \ {w}
        /\ UNCHANGED <<endpoint, emitted, delivery, pruning, task, byHand>>

-----------------------------------------------------------------------------
\* POST /:id/deliveries/:deliveryId/redeliver, whatever the status.
Redeliver(w, d) ==
    /\ ~Busy(w)
    /\ Stored(d) /\ d \notin redacted /\ attempts[d] < AttemptLimit
    /\ Start(w, {d})
    /\ spent' = spent \ {w}
    /\ byHand' = byHand \cup {d}
    /\ UNCHANGED <<endpoint, emitted, delivery, pruning, task>>

\* pruneDeliveryPayloads: the ids of rows, any that have passed the retention
\* window, then an update of these ids.
AnyStatus(d) == Stored(d) /\ d \notin redacted
Prunable(d) == status[d] \in {"SUCCEEDED", "FAILED"} /\ d \notin redacted

SelectStale ==
    /\ pruning = {}
    /\ \E stale \in SUBSET {d \in Rows : Prunable(d)} : stale # {} /\ pruning' = stale
    /\ UNCHANGED <<endpoint, emitted, delivery, local, byHand>>

ClearPayloads ==
    /\ pruning # {}
    /\ \/ redacted' = redacted \cup {d \in pruning : Stored(d)}
       \/ UNCHANGED redacted                            \* the job dies
    /\ pruning' = {}
    /\ UNCHANGED <<endpoint, emitted, minted, born, status, attempts, age, local, byHand>>

-----------------------------------------------------------------------------
Owner == \E p \in Endpoints : Create(p) \/ Update(p) \/ Ping(p) \/ Remove(p)

Run(w) ==
    \/ Handle(w) \/ HandleAndPersist(w) \/ Recover(w) \/ NextChunk(w) \/ Crash(w)
    \/ \E d \in Rows : Post(w, d) \/ Finalize(w, d) \/ Fail(w, d)

Next ==
    \/ Owner \/ Tick \/ SelectStale \/ ClearPayloads
    \/ \E w \in Buses, e \in Events : Emit(w, e)
    \/ \E w \in Sweepers : ClaimStranded(w)
    \/ \E w \in Callers, d \in Rows : Redeliver(w, d)
    \/ \E w \in Workers : Run(w)

Spec == Init /\ [][Next]_vars

\* Timers keep firing, a busy worker gets on or dies, and the sweeper's pods,
\* requests and statements do not fail for ever: what it gets to do again and
\* again it does at some point.
Fairness ==
    /\ WF_vars(Tick)
    /\ \A w \in Workers : WF_vars(Run(w))
    /\ SF_vars(\E w \in Sweepers : ClaimStranded(w))
    /\ SF_vars(\E w \in Sweepers : Recover(w))
    /\ SF_vars(\E w \in Sweepers : NextChunk(w))
    /\ \A d \in Rows :
          /\ \A k \in 1..MaxAttempts :
                SF_vars(\E w \in Sweepers : loop[w][d].tries = k /\ Post(w, d))
          /\ SF_vars(\E w \in Sweepers : Finalize(w, d))

FairSpec == Spec /\ Fairness

-----------------------------------------------------------------------------
\* Every variable has its type: no retry loop ever makes more than MaxAttempts
\* POSTs, no age leaves the range the thresholds tell apart.
TypeOK ==
    /\ endpoint \in [Endpoints -> {"absent", "enabled", "disabled", "blocked", "deleted"}]
    /\ emitted \subseteq Events
    /\ minted \in [Rows -> Nat]
    /\ born \in [Rows -> Nat]
    /\ status \in [Rows -> {"ABSENT", "PENDING", "SUCCEEDED", "FAILED", "DELETED"}]
    /\ attempts \in [Rows -> Nat]
    /\ age \in [Rows -> 0..StrandedAfter]
    /\ redacted \subseteq Rows /\ pruning \subseteq Rows
    /\ task \in [Workers -> Task]
    /\ loop \in [Workers -> [Rows -> Loop]]
    /\ spent \subseteq Workers /\ byHand \subseteq Rows

\* However the emitter, the bus and the sweeper interleave and crash, an event has
\* at most one delivery row per endpoint: handleEvent sends the rows of the
\* emitter's transaction "rather than mint new ones".
OneRowPerEndpoint == \A d \in Rows : minted[d] <= 1

\* A delivery that nobody has finished yet still has the body to send: the
\* retention job, which selects ids and updates them later, never clears it.
PendingKeepsBody == \A d \in Rows : status[d] = "PENDING" => d \notin redacted

\* Holding a row: it is among the ids a worker was given, or in its retry loop.
Holds(w, d) == d \in task[w].ids \/ loop[w][d].at # "none"

\* A row the sweeper may still send is in no other worker's hands, on this or on
\* another replica: what claimStranded says its stamp buys.  (A manual redelivery
\* takes no claim.)
ClaimExclusive ==
    \A d \in Rows, w, v \in Buses \cup Sweepers : Holds(w, d) /\ Holds(v, d) => w = v

\* A delivery reported SUCCEEDED is never turned into FAILED, and so never sent
\* again, unless an integrator re-sent it: finalize writes whatever the row's status
\* has become, and only the claims keep a slower loop from overwriting a success.
SuccessStands ==
    [][\A d \in Rows : status[d] = "SUCCEEDED" /\ status'[d] = "FAILED" => d \in byHand]_vars

\* Nobody but an integrator makes the server start a retry loop on a row that has
\* used up its budget, although the counter is only written back at the end.
BudgetHolds == \A d \in Rows : d \in byHand \/ attempts[d] < Budget + MaxAttempts

\* A row waiting to be sent, or to be sent again.
Owed(d) == status[d] = "PENDING" \/ (status[d] = "FAILED" /\ attempts[d] < Budget)

\* Every stored delivery is sent in the end or uses up its budget, whatever crashes
\* in between, unless its endpoint stops accepting or its body is cleared.
EveryDeliverySettles ==
    \A d \in Rows : Owed(d) ~> (~Owed(d) \/ endpoint[d[2]] # "enabled" \/ d \in redacted)
=============================================================================
