----------------------- MODULE WebhookDeliveryProofs -----------------------
(***************************************************************************)
(* What WebhookDelivery guarantees for any number of events, endpoints,    *)
(* bus tasks, replicas and callers.                                        *)
(***************************************************************************)
EXTENDS WebhookDelivery, FiniteSetTheorems, TLAPS

\* The rows counted by createdAt are finitely many.
LEMMA RowsFinite == \A S \in SUBSET Rows : IsFiniteSet(S) /\ Cardinality(S) \in Nat
  <1>1. IsFiniteSet(Rows)
    BY WebhookInputs, FS_Product DEF Rows
  <1> QED
    BY <1>1, FS_Subset, FS_CardinalityType

\* Inserting rows keeps the types of what it writes.
LEMMA MintTypes ==
    ASSUME TypeOK, NEW S, Mint(S)
    PROVE  /\ minted' \in [Rows -> Nat] /\ born' \in [Rows -> Nat]
           /\ status' \in [Rows -> {"ABSENT", "PENDING", "SUCCEEDED", "FAILED", "DELETED"}]
           /\ attempts' \in [Rows -> Nat]
           /\ age' \in [Rows -> 0..StrandedAfter]
           /\ redacted' = redacted
  <1>1. Cardinality({c \in Rows : minted[c] > 0}) \in Nat
    BY RowsFinite
  <1>2. StrandedAfter \in Nat
    BY WebhookBounds
  <1> QED
    BY <1>1, <1>2 DEF TypeOK, Mint

\* A retry loop that starts, waits or ends is a well-formed one.
LEMMA LoopTypes ==
    ASSUME TypeOK
    PROVE  /\ NoLoop \in Loop
           /\ Idle \in Task
           /\ Fresh("send", 0) \in Loop
           /\ \A d \in Rows : Begin(d) \in Loop /\ Wait(d) \in Loop
  BY WebhookBounds DEF TypeOK, NoLoop, Idle, Loop, Task, Begin, Wait, Fresh

LEMMA TypeInit == Init => TypeOK
  <1> SUFFICES ASSUME Init PROVE TypeOK
    OBVIOUS
  <1>1. NoLoop \in Loop /\ Idle \in Task
    BY WebhookBounds DEF NoLoop, Idle, Loop, Task
  <1> QED
    BY <1>1, WebhookBounds DEF Init, TypeOK

LEMMA TypeStep == TypeOK /\ [Next]_vars => TypeOK'
  <1> SUFFICES ASSUME TypeOK, [Next]_vars PROVE TypeOK'
    OBVIOUS
  <1> USE LoopTypes, WebhookBounds
  <1>1. CASE Owner
    BY <1>1 DEF Owner, Create, Update, Ping, Remove, TypeOK, delivery, local
  <1>2. CASE Tick
    BY <1>2 DEF Tick, Older, Stored, TypeOK
  <1>3. CASE SelectStale
    BY <1>3 DEF SelectStale, TypeOK, delivery, local
  <1>4. CASE ClearPayloads
    BY <1>4 DEF ClearPayloads, TypeOK, local
  <1>5. ASSUME NEW w \in Buses, NEW e \in Events, Emit(w, e) PROVE TypeOK'
    <2> DEFINE ids == IF e \in Terminal THEN Targets(e) ELSE {}
    <2>1. Mint(ids)
      BY <1>5 DEF Emit
    <2>2. w \in Workers /\ ids \in SUBSET Rows
      BY DEF Workers, Targets
    <2>3. [pc |-> "handle", event |-> e, ids |-> ids] \in Task
      BY <2>2 DEF Task
    <2>4. task' \in [Workers -> Task]
      BY <1>5, <2>3 DEF Emit, TypeOK
    <2> QED
      BY <1>5, <2>1, <2>4, MintTypes DEF Emit, TypeOK
  <1>6. ASSUME NEW w \in Sweepers, ClaimStranded(w) PROVE TypeOK'
    <2>1. PICK B \in Batches({d \in Rows : Stranded(d)}) :
             /\ age' = [d \in Rows |-> IF d \in B THEN 0 ELSE age[d]]
             /\ task' = [task EXCEPT ![w] = [pc |-> "recover", event |-> "none", ids |-> B]]
      BY <1>6 DEF ClaimStranded
    <2>2. [pc |-> "recover", event |-> "none", ids |-> B] \in Task
      BY <2>1 DEF Task, Batches
    <2>3. task' \in [Workers -> Task]
      BY <2>1, <2>2 DEF TypeOK
    <2>4. age' \in [Rows -> 0..StrandedAfter]
      BY <2>1 DEF TypeOK
    <2> QED
      BY <1>6, <2>3, <2>4 DEF ClaimStranded, TypeOK
  <1>7. ASSUME NEW w \in Callers, NEW d \in Rows, Redeliver(w, d) PROVE TypeOK'
    BY <1>7 DEF Redeliver, Start, TypeOK, delivery
  <1>8. ASSUME NEW w \in Workers, Run(w) PROVE TypeOK'
    <2>1. CASE Handle(w)
      BY <2>1 DEF Handle, Start, TypeOK, delivery
    <2>2. CASE HandleAndPersist(w)
      <3>1. PICK S \in SUBSET Targets(task[w].event) :
               /\ Mint(S)
               /\ loop' = [loop EXCEPT ![w] =
                            [d \in Rows |-> IF S = Targets(task[w].event) /\ d \in S
                                             THEN Fresh("send", 0) ELSE NoLoop]]
        BY <2>2 DEF HandleAndPersist
      <3>2. loop' \in [Workers -> [Rows -> Loop]]
        BY <3>1 DEF TypeOK
      <3>3. task' \in [Workers -> Task]
        BY <2>2 DEF HandleAndPersist, TypeOK
      <3> QED
        BY <2>2, <3>1, <3>2, <3>3, MintTypes DEF HandleAndPersist, TypeOK
    <2>3. CASE Recover(w)
      <3>1. loop' \in [Workers -> [Rows -> Loop]]
        BY <2>3 DEF Recover, TypeOK
      <3> QED
        BY <2>3, <3>1 DEF Recover, TypeOK, delivery
    <2>4. CASE NextChunk(w)
      <3>1. PICK S \in SUBSET {d \in Rows : loop[w][d].at = "queued"} :
               loop' = [loop EXCEPT ![w] =
                       [d \in Rows |-> IF d \in S /\ Stored(d)
                                         THEN [loop[w][d] EXCEPT !.at = "send"]
                                       ELSE IF d \in S THEN NoLoop ELSE loop[w][d]]]
        BY <2>4 DEF NextChunk
      <3>2. \A d \in Rows : loop[w][d] \in Loop
        BY DEF TypeOK
      <3>3. \A d \in S : [loop[w][d] EXCEPT !.at = "send"] \in Loop
        BY <3>2 DEF Loop
      <3>4. loop' \in [Workers -> [Rows -> Loop]]
        BY <3>1, <3>2, <3>3 DEF TypeOK
      <3> QED
        BY <2>4, <3>4 DEF NextChunk, TypeOK, delivery
    <2>5. CASE Crash(w)
      BY <2>5 DEF Crash, TypeOK, delivery
    <2>6. ASSUME NEW d \in Rows, Post(w, d) PROVE TypeOK'
      <3>1. loop[w][d] \in Loop /\ loop[w][d].at = "send"
        BY <2>6 DEF TypeOK, Post
      <3>2. /\ \A ok \in BOOLEAN : Tried(loop[w][d], "record", ok) \in Loop
            /\ loop[w][d].tries # 1 => Tried(loop[w][d], "send", FALSE) \in Loop
        BY <3>1 DEF Loop, Tried
      <3>3. PICK l \in Loop : loop' = [loop EXCEPT ![w][d] = l]
        BY <2>6, <3>2 DEF Post
      <3>4. loop' \in [Workers -> [Rows -> Loop]]
        BY <3>3 DEF TypeOK
      <3>5. endpoint' \in [Endpoints -> {"absent", "enabled", "disabled", "blocked", "deleted"}]
        BY <2>6 DEF Post, TypeOK, Rows
      <3> QED
        BY <2>6, <3>4, <3>5 DEF Post, TypeOK, delivery
    <2>7. ASSUME NEW d \in Rows, Finalize(w, d) PROVE TypeOK'
      <3>1. loop[w][d] \in Loop
        BY DEF TypeOK
      <3> QED
        BY <2>7, <3>1 DEF Finalize, Loop, TypeOK
    <2>8. ASSUME NEW d \in Rows, Fail(w, d) PROVE TypeOK'
      BY <2>8 DEF Fail, TypeOK, delivery
    <2> QED
      BY <1>8, <2>1, <2>2, <2>3, <2>4, <2>5, <2>6, <2>7, <2>8 DEF Run
  <1>9. CASE UNCHANGED vars
    BY <1>9 DEF vars, delivery, local, TypeOK
  <1> QED
    BY <1>1, <1>2, <1>3, <1>4, <1>5, <1>6, <1>7, <1>8, <1>9 DEF Next

-----------------------------------------------------------------------------
(* A delivery row is inserted once, and keeps its body until it is finished. *)

\* A handler that will insert the rows of its event is the only one to hold that
\* event, and finds none of them.
Minting ==
    /\ \A d \in Rows : d[1] \notin emitted => minted[d] = 0
    /\ \A w \in Workers :
          task[w].pc = "handle" =>
             /\ task[w].event \in emitted
             /\ \A v \in Workers :
                   task[v].pc = "handle" /\ task[v].event = task[w].event => v = w
             /\ task[w].ids = {} => \A d \in Rows : d[1] = task[w].event => minted[d] = 0

\* What the retention job has in hand was finished when it was selected, and no
\* row returns to PENDING.
Clearing ==
    /\ \A d \in Rows : minted[d] = 0 <=> status[d] = "ABSENT"
    /\ \A d \in pruning \cup redacted : status[d] \notin {"ABSENT", "PENDING"}

RowInv == OneRowPerEndpoint /\ Minting /\ Clearing

LEMMA RowInit == Init => RowInv
  BY DEF Init, RowInv, OneRowPerEndpoint, Minting, Clearing, Idle

\* Inserting rows that do not exist keeps the row invariants of the rows.
LEMMA MintRows ==
    ASSUME TypeOK, OneRowPerEndpoint, Clearing, pruning' = pruning,
           NEW S \in SUBSET Rows, \A d \in S : minted[d] = 0, Mint(S)
    PROVE  OneRowPerEndpoint' /\ Clearing'
  <1>1. \A d \in Rows : /\ minted'[d] = IF d \in S THEN 1 ELSE minted[d]
                        /\ status'[d] = IF d \in S THEN "PENDING" ELSE status[d]
    BY DEF Mint
  <1>2. \A d \in S : status[d] = "ABSENT"
    BY DEF Clearing
  <1>3. redacted' = redacted
    BY DEF Mint
  <1> QED
    BY <1>1, <1>2, <1>3 DEF TypeOK, OneRowPerEndpoint, Clearing

LEMMA RowStep == TypeOK /\ RowInv /\ [Next]_vars => RowInv'
  <1> SUFFICES ASSUME TypeOK, RowInv, [Next]_vars PROVE RowInv'
    OBVIOUS
  <1> USE DEF RowInv, OneRowPerEndpoint, Minting, Clearing
  <1>1. CASE Owner
    <2>1. PICK p \in Endpoints : Create(p) \/ Update(p) \/ Ping(p) \/ Remove(p)
      BY <1>1 DEF Owner
    <2>2. CASE Create(p) \/ Update(p) \/ Ping(p)
      BY <2>2 DEF Create, Update, Ping, delivery, local
    <2>3. CASE Remove(p)
      <3>1. \A d \in Rows : \/ status'[d] = status[d]
                            \/ status[d] # "ABSENT" /\ status'[d] = "DELETED"
        BY <2>3 DEF Remove, Stored
      <3>2. pruning \subseteq Rows /\ redacted \subseteq Rows
        BY DEF TypeOK
      <3> QED
        BY <2>3, <3>1, <3>2 DEF Remove, local
    <2> QED
      BY <2>1, <2>2, <2>3
  <1>2. CASE Tick
    BY <1>2 DEF Tick
  <1>3. CASE SelectStale
    BY <1>3 DEF SelectStale, Prunable, delivery, local
  <1>4. CASE ClearPayloads
    BY <1>4 DEF ClearPayloads, local
  <1>5. ASSUME NEW w \in Buses, NEW e \in Events, Emit(w, e) PROVE RowInv'
    <2> DEFINE ids == IF e \in Terminal THEN Targets(e) ELSE {}
    <2>1. /\ Mint(ids) /\ e \notin emitted /\ emitted' = emitted \cup {e} /\ pruning' = pruning
          /\ task' = [task EXCEPT ![w] = [pc |-> "handle", event |-> e, ids |-> ids]]
      BY <1>5 DEF Emit
    <2>2. /\ w \in Workers /\ ids \in SUBSET Rows
          /\ \A d \in ids : d[1] = e
      BY DEF Workers, Targets
    <2>3. OneRowPerEndpoint' /\ Clearing'
      BY <2>1, <2>2, MintRows
    <2>4. /\ \A d \in Rows : d[1] # e => minted'[d] = minted[d]
          /\ ids = {} => minted' = minted
      BY <2>1, <2>2 DEF Mint, TypeOK
    <2>5. \A v \in Workers : task[v].pc = "handle" => task[v].event # e
      BY <2>1
    <2>6. /\ \A v \in Workers : v # w => task'[v] = task[v]
          /\ task'[w] = [pc |-> "handle", event |-> e, ids |-> ids]
      BY <2>1, <2>2 DEF TypeOK
    <2>7. Minting'
      BY <2>1, <2>2, <2>4, <2>5, <2>6
    <2> QED
      BY <2>3, <2>7
  <1>6. ASSUME NEW w \in Sweepers, ClaimStranded(w) PROVE RowInv'
    <2>1. PICK B : task' = [task EXCEPT ![w] = [pc |-> "recover", event |-> "none", ids |-> B]]
      BY <1>6 DEF ClaimStranded
    <2> QED
      BY <1>6, <2>1 DEF ClaimStranded, TypeOK
  <1>7. ASSUME NEW w \in Callers, NEW d \in Rows, Redeliver(w, d) PROVE RowInv'
    BY <1>7 DEF Redeliver, delivery
  <1>8. ASSUME NEW w \in Workers, Run(w) PROVE RowInv'
    <2>1. CASE Handle(w)
      BY <2>1 DEF Handle, TypeOK, delivery, Idle
    <2>2. CASE HandleAndPersist(w)
      <3> DEFINE e == task[w].event
      <3>1. PICK S \in SUBSET Targets(e) : Mint(S)
        BY <2>2 DEF HandleAndPersist
      <3>2. /\ task[w].pc = "handle" /\ task[w].ids = {}
            /\ task' = [task EXCEPT ![w] = Idle]
            /\ emitted' = emitted /\ pruning' = pruning
        BY <2>2 DEF HandleAndPersist, HasRows
      <3>3. /\ S \in SUBSET Rows
            /\ \A d \in S : d[1] = e
        BY DEF Targets
      <3>4. OneRowPerEndpoint' /\ Clearing'
        BY <3>1, <3>2, <3>3, MintRows
      <3>5. \A d \in Rows : d[1] # e => minted'[d] = minted[d]
        BY <3>1, <3>3 DEF Mint
      <3>6. /\ \A v \in Workers : v # w => task'[v] = task[v]
            /\ task'[w].pc = "idle"
        BY <3>2 DEF TypeOK, Idle
      <3>7. Minting'
        BY <3>2, <3>5, <3>6
      <3> QED
        BY <3>4, <3>7
    <2>3. CASE Recover(w)
      BY <2>3 DEF Recover, TypeOK, delivery, Idle
    <2>4. CASE NextChunk(w)
      BY <2>4 DEF NextChunk, delivery
    <2>5. CASE Crash(w)
      BY <2>5 DEF Crash, TypeOK, delivery, Idle
    <2>6. ASSUME NEW d \in Rows, Post(w, d) PROVE RowInv'
      BY <2>6 DEF Post, delivery
    <2>7. ASSUME NEW d \in Rows, Finalize(w, d) PROVE RowInv'
      BY <2>7 DEF Finalize, Stored, TypeOK
    <2>8. ASSUME NEW d \in Rows, Fail(w, d) PROVE RowInv'
      BY <2>8 DEF Fail, delivery
    <2> QED
      BY <1>8, <2>1, <2>2, <2>3, <2>4, <2>5, <2>6, <2>7, <2>8 DEF Run
  <1>9. CASE UNCHANGED vars
    BY <1>9 DEF vars, delivery, local
  <1> QED
    BY <1>1, <1>2, <1>3, <1>4, <1>5, <1>6, <1>7, <1>8, <1>9 DEF Next

\* Every variable of the delivery pipeline keeps its type, and no retry loop makes
\* more than MaxAttempts POSTs.
THEOREM DeliveryTypes == Spec => []TypeOK
  BY TypeInit, TypeStep, PTL DEF Spec

\* Whatever crashes or interleaves, persistDeliveries never inserts a second row for
\* an event and an endpoint.
THEOREM RowsUnique == Spec => []OneRowPerEndpoint
  <1>1. TypeOK /\ RowInv /\ [Next]_vars => RowInv'
    BY RowStep
  <1>2. RowInv => OneRowPerEndpoint
    BY DEF RowInv
  <1> QED
    BY <1>1, <1>2, RowInit, DeliveryTypes, PTL DEF Spec

\* The retention job never clears the body of a delivery that is not finished,
\* although it updates ids it selected earlier.
THEOREM BodiesKept == Spec => []PendingKeepsBody
  <1>1. TypeOK /\ RowInv /\ [Next]_vars => RowInv'
    BY RowStep
  <1>2. RowInv => PendingKeepsBody
    BY DEF RowInv, Clearing, PendingKeepsBody
  <1> QED
    BY <1>1, <1>2, RowInit, DeliveryTypes, PTL DEF Spec

-----------------------------------------------------------------------------
(* The stamp covers a sweep whose chunks fit into the cooldown.             *)

\* The chunks of a batch, sent one after the other, end before the shorter of the
\* two delays does, a retry loop lasting at most one Tick.
ChunksFit == BatchSize <= Concurrency * (Cooldown - 1)

Senders  == Buses \cup Sweepers
Queue(w) == {d \in Rows : loop[w][d].at = "queued"}

\* How many chunks may have gone by since d was stamped, w's present one included.
Elapsed(w, d) == IF w \in spent THEN age[d] ELSE age[d] + 1

\* What a worker may be doing.
Shape ==
    \A w \in Workers :
       /\ w \in Callers => task[w].pc = "idle" /\ \A d \in Rows : loop[w][d].at # "queued"
       /\ task[w].pc = "idle" => task[w].ids = {}
       /\ task[w].pc # "idle" => \A d \in Rows : loop[w][d].at = "none"
       /\ task[w].pc = "recover" => Cardinality(task[w].ids) <= BatchSize

\* A row somebody holds has been stamped within the cooldown.
Covered ==
    \A w \in Senders, d \in Rows : Holds(w, d) =>
       minted[d] # 0 /\ Elapsed(w, d) < Cooldown

\* A chunk is gone from the batch for every Tick that may have passed.
Paced ==
    \A w \in Senders, d \in Rows :
       /\ d \in task[w].ids => Elapsed(w, d) <= 1
       /\ d \in Queue(w) =>
             Cardinality(Queue(w)) + Concurrency * Elapsed(w, d) <= BatchSize

ClaimInv == Shape /\ Covered /\ Paced /\ ClaimExclusive

LEMMA ClaimInit == Init => ClaimInv
  BY DEF Init, ClaimInv, Shape, Covered, Paced, Queue, ClaimExclusive, Holds, Idle, NoLoop,
         Senders, Workers

LEMMA Times == \A c, x, y \in Nat : x <= y => c * x <= c * y /\ c * x \in Nat
  OBVIOUS

\* A batch of at least one row needs two Ticks.
LEMMA TwoTicks == ChunksFit => 2 <= Cooldown
  BY WebhookBounds DEF ChunksFit

LEMMA ElapsedType ==
    ASSUME TypeOK
    PROVE  /\ \A w, d : d \in Rows => Elapsed(w, d) \in Nat
           /\ \A w : Cardinality(Queue(w)) \in Nat
  <1>1. \A w : Queue(w) \in SUBSET Rows
    BY DEF Queue
  <1> QED
    BY <1>1, RowsFinite, WebhookBounds DEF Elapsed, TypeOK

\* What is left of a queue once a chunk is taken from it.
LEMMA Remainder ==
    ASSUME NEW Q \in SUBSET Rows, NEW S \in SUBSET Q,
           Cardinality(S) = IF Cardinality(Q) < Concurrency THEN Cardinality(Q) ELSE Concurrency
    PROVE  Q \ S = {} \/ Cardinality(Q \ S) = Cardinality(Q) - Concurrency
  <1>1. /\ IsFiniteSet(Q) /\ Cardinality(Q) \in Nat
        /\ IsFiniteSet(Q \ S) /\ Cardinality(Q \ S) \in Nat
    BY RowsFinite
  <1>2. Cardinality(Q \ S) = Cardinality(Q) - Cardinality(S)
    <2>1. Q \cap S = S
      OBVIOUS
    <2> QED
      BY <1>1, <2>1, FS_Difference
  <1>3. CASE Cardinality(Q) < Concurrency
    <2>1. Cardinality(Q \ S) = 0
      BY <1>1, <1>2, <1>3
    <2> QED
      BY <1>1, <2>1, FS_EmptySet
  <1>4. CASE ~(Cardinality(Q) < Concurrency)
    BY <1>2, <1>4
  <1> QED
    BY <1>3, <1>4

\* A row nobody holds may be handed to a worker that held nothing.
LEMMA HandOver ==
    ASSUME TypeOK, ChunksFit, ClaimInv, NEW w \in Senders, NEW S \in SUBSET Rows,
           \A v \in Senders, d \in S : ~Holds(v, d),
           \A d \in S : minted'[d] # 0 /\ age'[d] = 0,
           \A d \in Rows \ S : minted'[d] = minted[d] /\ age'[d] = age[d],
           \A v \in Senders \ {w} : (v \in spent' <=> v \in spent),
           \A v \in Senders \ {w} : task'[v] = task[v] /\ loop'[v] = loop[v],
           \A d \in Rows : Holds(w, d)' => d \in S /\ loop'[w][d].at # "queued"
    PROVE  (Covered /\ Paced /\ ClaimExclusive)'
  <1>1. \A v \in Senders \ {w}, d \in Rows :
           /\ Holds(v, d)' <=> Holds(v, d)
           /\ Holds(v, d) => d \notin S /\ Elapsed(v, d)' = Elapsed(v, d)
           /\ Queue(v)' = Queue(v)
    BY DEF Holds, Elapsed, Queue
  <1>2. \A d \in Rows : Holds(w, d)' => Elapsed(w, d)' \in {0, 1}
    BY DEF Elapsed
  <1>3. Covered'
    <2> SUFFICES ASSUME NEW v \in Senders, NEW d \in Rows, Holds(v, d)'
                 PROVE  minted'[d] # 0 /\ Elapsed(v, d)' < Cooldown
      BY DEF Covered
    <2>1. CASE v = w
      BY <1>2, <2>1, TwoTicks, WebhookBounds
    <2>2. CASE v # w
      BY <1>1, <2>2 DEF ClaimInv, Covered
    <2> QED
      BY <2>1, <2>2
  <1>4. Paced'
    <2> SUFFICES ASSUME NEW v \in Senders, NEW d \in Rows
                 PROVE  /\ d \in task'[v].ids => Elapsed(v, d)' <= 1
                        /\ d \in Queue(v)' =>
                              Cardinality(Queue(v)') + Concurrency * Elapsed(v, d)' <= BatchSize
      BY DEF Paced
    <2>0. (d \in task'[v].ids => Holds(v, d)') /\ (d \in Queue(v)' => Holds(v, d)')
      BY DEF Holds, Queue
    <2>1. CASE v = w
      <3>1. d \notin Queue(v)'
        BY <2>0, <2>1 DEF Queue
      <3> QED
        BY <1>2, <2>0, <2>1, <3>1
    <2>2. CASE v # w
      BY <1>1, <2>0, <2>2 DEF ClaimInv, Paced
    <2> QED
      BY <2>1, <2>2
  <1>5. ClaimExclusive'
    BY <1>1 DEF ClaimInv, ClaimExclusive, Senders
  <1> QED
    BY <1>3, <1>4, <1>5

\* A step that lets nobody hold more, lets no queue grow, and stamps rows, leaves
\* them, or ages those whose holder had not seen the last Tick.
LEMMA HoldLess ==
    ASSUME TypeOK, TypeOK', ClaimInv,
           \A v \in Senders, d \in Rows :
              Holds(v, d)' => /\ Holds(v, d)
                              /\ Elapsed(v, d)' <= Elapsed(v, d)
                              /\ d \in task'[v].ids => d \in task[v].ids
                              /\ d \in Queue(v)' => Queue(v)' = Queue(v),
           \A d \in Rows : minted[d] # 0 => minted'[d] # 0
    PROVE  (Covered /\ Paced /\ ClaimExclusive)'
  <1>1. Covered'
    <2> SUFFICES ASSUME NEW v \in Senders, NEW d \in Rows, Holds(v, d)'
                 PROVE  minted'[d] # 0 /\ Elapsed(v, d)' < Cooldown
      BY DEF Covered
    <2>1. Elapsed(v, d) \in Nat /\ Elapsed(v, d)' \in Nat /\ Cooldown \in Nat
      BY ElapsedType, WebhookBounds DEF Elapsed, TypeOK
    <2> QED
      BY <2>1 DEF ClaimInv, Covered
  <1>2. Paced'
    <2> SUFFICES ASSUME NEW v \in Senders, NEW d \in Rows
                 PROVE  /\ d \in task'[v].ids => Elapsed(v, d)' <= 1
                        /\ d \in Queue(v)' =>
                              Cardinality(Queue(v)') + Concurrency * Elapsed(v, d)' <= BatchSize
      BY DEF Paced
    <2>0. (d \in task'[v].ids => Holds(v, d)') /\ (d \in Queue(v)' => Holds(v, d)')
      BY DEF Holds, Queue
    <2>1. Elapsed(v, d) \in Nat /\ Elapsed(v, d)' \in Nat /\ Cardinality(Queue(v)) \in Nat
      BY ElapsedType, WebhookBounds DEF Elapsed, TypeOK
    <2>2. d \in task'[v].ids => Elapsed(v, d)' <= 1
      BY <2>0, <2>1 DEF ClaimInv, Paced
    <2>3. ASSUME d \in Queue(v)'
          PROVE  Cardinality(Queue(v)') + Concurrency * Elapsed(v, d)' <= BatchSize
      <3>1. Queue(v)' = Queue(v) /\ Elapsed(v, d)' <= Elapsed(v, d)
        BY <2>0, <2>3
      <3>2. Cardinality(Queue(v)) + Concurrency * Elapsed(v, d) <= BatchSize
        BY <2>3, <3>1 DEF ClaimInv, Paced
      <3>3. /\ Concurrency * Elapsed(v, d)' <= Concurrency * Elapsed(v, d)
            /\ Concurrency * Elapsed(v, d)' \in Nat /\ Concurrency * Elapsed(v, d) \in Nat
        BY <2>1, <3>1, Times, WebhookBounds
      <3> QED
        BY <2>1, <3>1, <3>2, <3>3, WebhookBounds
    <2> QED
      BY <2>2, <2>3
  <1>3. ClaimExclusive'
    BY DEF ClaimInv, ClaimExclusive, Senders
  <1> QED
    BY <1>1, <1>2, <1>3

\* A step that changes no stamp and no count of Ticks lets no time pass, and one
\* that only stamps rows lets less of it have passed.
LEMMA NoTimePasses ==
    ASSUME TypeOK, spent' = spent, \A d \in Rows : age'[d] = age[d] \/ age'[d] = 0
    PROVE  \A v \in Senders, d \in Rows : Elapsed(v, d)' <= Elapsed(v, d)
  BY WebhookBounds DEF Elapsed, TypeOK

LEMMA ClaimStep ==
    ASSUME ChunksFit, TypeOK, TypeOK', RowInv, ClaimInv, [Next]_vars
    PROVE  ClaimInv'
  <1> USE WebhookBounds
  <1>0. /\ Senders \subseteq Workers
        /\ Senders \cap Callers = {}
    BY WebhookInputs DEF Senders, Workers
  <1>00. /\ \A d \in Rows : Begin(d).at = "send" /\ Wait(d).at = "queued"
         /\ Fresh("send", 0).at = "send" /\ NoLoop.at = "none"
         /\ Idle.pc = "idle" /\ Idle.ids = {}
    BY DEF Begin, Wait, Fresh, NoLoop, Idle
  <1>1. CASE Owner \/ SelectStale \/ ClearPayloads \/ UNCHANGED vars
    <2>1. UNCHANGED <<minted, age, spent, task, loop>>
      BY <1>1 DEF Owner, Create, Update, Ping, Remove, SelectStale, ClearPayloads,
                  vars, delivery, local
    <2> QED
      BY <2>1 DEF ClaimInv, Shape, Covered, Paced, Queue, Elapsed, ClaimExclusive, Holds
  <1>2. CASE Tick
    <2>1. /\ UNCHANGED <<minted, task, loop>>
          /\ \A w \in spent : ~Busy(w)
          /\ spent' = {w \in Workers : Busy(w)}
          /\ \A d \in Rows : age'[d] \in {age[d], age[d] + 1}
      BY <1>2 DEF Tick, Older, TypeOK
    <2>2. \A w \in Senders, d \in Rows : Holds(w, d) => Busy(w)
      BY <1>0 DEF ClaimInv, Shape, Holds, Busy
    <2>3. \A w \in Senders, d \in Rows : Holds(w, d) => Elapsed(w, d)' <= Elapsed(w, d)
      BY <1>0, <2>1, <2>2 DEF Elapsed, TypeOK
    <2>4. \A w \in Senders, d \in Rows : (Holds(w, d)' <=> Holds(w, d)) /\ Queue(w)' = Queue(w)
      BY <2>1 DEF Holds, Queue
    <2>5. (Covered /\ Paced /\ ClaimExclusive)'
      BY <2>1, <2>3, <2>4, HoldLess
    <2>6. Shape'
      BY <2>1 DEF ClaimInv, Shape
    <2> QED
      BY <2>5, <2>6 DEF ClaimInv
  <1>3. ASSUME NEW w \in Buses, NEW e \in Events, Emit(w, e) PROVE ClaimInv'
    <2> DEFINE ids == IF e \in Terminal THEN Targets(e) ELSE {}
    <2>1. /\ Mint(ids) /\ e \notin emitted /\ spent' = spent \ {w} /\ ~Busy(w) /\ loop' = loop
          /\ task' = [task EXCEPT ![w] = [pc |-> "handle", event |-> e, ids |-> ids]]
      BY <1>3 DEF Emit
    <2>2. w \in Senders /\ ids \in SUBSET Rows /\ \A d \in ids : minted[d] = 0
      BY <2>1 DEF Senders, Targets, RowInv, Minting
    <2>3. \A v \in Senders, d \in ids : ~Holds(v, d)
      BY <2>2 DEF ClaimInv, Covered
    <2>4. /\ \A v \in Workers : v # w => task'[v] = task[v]
          /\ task'[w] = [pc |-> "handle", event |-> e, ids |-> ids]
      BY <1>0, <2>1, <2>2 DEF TypeOK
    <2>5. \A v \in Senders \ {w} : task'[v] = task[v] /\ loop'[v] = loop[v]
      BY <1>0, <2>1, <2>4
    <2>6. \A d \in Rows : Holds(w, d)' => d \in ids /\ loop'[w][d].at # "queued"
      BY <1>0, <2>1, <2>2, <2>4 DEF Holds, Busy
    <2>7. /\ \A d \in ids : minted'[d] # 0 /\ age'[d] = 0
          /\ \A d \in Rows \ ids : minted'[d] = minted[d] /\ age'[d] = age[d]
      BY <2>1, <2>2 DEF Mint, TypeOK
    <2>8. (Covered /\ Paced /\ ClaimExclusive)'
      BY <2>1, <2>2, <2>3, <2>5, <2>6, <2>7, HandOver
    <2>9. Shape'
      BY <1>0, <2>1, <2>2, <2>4 DEF ClaimInv, Shape, Busy
    <2> QED
      BY <2>8, <2>9 DEF ClaimInv
  <1>4. ASSUME NEW w \in Sweepers, ClaimStranded(w) PROVE ClaimInv'
    <2>1. PICK B \in Batches({d \in Rows : Stranded(d)}) :
             /\ age' = [d \in Rows |-> IF d \in B THEN 0 ELSE age[d]]
             /\ task' = [task EXCEPT ![w] = [pc |-> "recover", event |-> "none", ids |-> B]]
      BY <1>4 DEF ClaimStranded
    <2>2. ~Busy(w) /\ spent' = spent \ {w} /\ UNCHANGED <<minted, loop>>
      BY <1>4 DEF ClaimStranded
    <2>3. w \in Senders /\ B \in SUBSET Rows /\ \A d \in B : Stranded(d)
      BY <2>1 DEF Senders, Batches
    <2>4. \A d \in B : age[d] >= Cooldown /\ minted[d] # 0
      BY <2>3 DEF Stranded, RowInv, Clearing, TypeOK
    <2>5. \A v \in Senders, d \in B : ~Holds(v, d)
      BY <2>3, <2>4 DEF ClaimInv, Covered, Elapsed, TypeOK
    <2>6. /\ \A v \in Workers : v # w => task'[v] = task[v]
          /\ task'[w] = [pc |-> "recover", event |-> "none", ids |-> B]
      BY <1>0, <2>1, <2>3 DEF TypeOK
    <2>7. \A v \in Senders \ {w} : task'[v] = task[v] /\ loop'[v] = loop[v]
      BY <1>0, <2>2, <2>6
    <2>8. \A d \in Rows : Holds(w, d)' => d \in B /\ loop'[w][d].at # "queued"
      BY <1>0, <2>2, <2>3, <2>6 DEF Holds, Busy
    <2>9. (Covered /\ Paced /\ ClaimExclusive)'
      BY <2>1, <2>2, <2>3, <2>4, <2>5, <2>7, <2>8, HandOver
    <2>10. Cardinality(B) <= BatchSize
      <3>1. Cardinality({d \in Rows : Stranded(d)}) \in Nat
        BY RowsFinite
      <3> QED
        BY <2>1, <3>1 DEF Batches
    <2>11. Shape'
      BY <1>0, <2>2, <2>3, <2>6, <2>10 DEF ClaimInv, Shape, Busy
    <2> QED
      BY <2>9, <2>11 DEF ClaimInv
  <1>5. ASSUME NEW w \in Callers, NEW d \in Rows, Redeliver(w, d) PROVE ClaimInv'
    <2>1. /\ UNCHANGED <<minted, age, task>> /\ spent' = spent \ {w}
          /\ loop' = [loop EXCEPT ![w] = [c \in Rows |-> IF c \in {d} THEN Begin(c) ELSE NoLoop]]
      BY <1>5 DEF Redeliver, Start, delivery
    <2>2. /\ \A v \in Workers, c \in Rows : v # w => loop'[v][c] = loop[v][c]
          /\ w \in Workers => \A c \in Rows : loop'[w][c] \in {Begin(c), NoLoop}
      BY <2>1 DEF TypeOK
    <2>3. Shape'
      BY <2>1, <2>2 DEF ClaimInv, Shape, Begin, Fresh, NoLoop
    <2>4. \A v \in Senders, c \in Rows :
             /\ Holds(v, c)' <=> Holds(v, c)
             /\ Elapsed(v, c)' = Elapsed(v, c)
             /\ Queue(v)' = Queue(v)
      BY <1>0, <2>1, <2>2 DEF Holds, Elapsed, Queue
    <2>5. \A v \in Senders, c \in Rows : Elapsed(v, c)' <= Elapsed(v, c)
      BY <2>4, ElapsedType
    <2>6. (Covered /\ Paced /\ ClaimExclusive)'
      BY <2>1, <2>4, <2>5, HoldLess
    <2> QED
      BY <2>3, <2>6 DEF ClaimInv
  <1>6. ASSUME NEW w \in Workers, Run(w) PROVE ClaimInv'
    <2>1. CASE Handle(w)
      <3>1. /\ UNCHANGED <<minted, age, spent>>
            /\ task' = [task EXCEPT ![w] = Idle]
            /\ loop' = [loop EXCEPT ![w] =
                         [d \in Rows |-> IF d \in {c \in task[w].ids : Stored(c)}
                                           THEN Begin(d) ELSE NoLoop]]
        BY <2>1 DEF Handle, Start, delivery
      <3>2. /\ \A v \in Workers : v # w => task'[v] = task[v] /\ loop'[v] = loop[v]
            /\ task'[w] = Idle
            /\ \A d \in Rows : loop'[w][d] = IF d \in task[w].ids /\ Stored(d)
                                               THEN Begin(d) ELSE NoLoop
        BY <3>1 DEF TypeOK
      <3>3. \A v \in Senders, d \in Rows :
               /\ Holds(v, d)' => Holds(v, d)
               /\ d \in task'[v].ids => d \in task[v].ids
               /\ d \in Queue(v)' => Queue(v)' = Queue(v)
        BY <1>0, <1>00, <3>2 DEF Holds, Queue
      <3>4. Shape'
        BY <1>00, <3>2 DEF ClaimInv, Shape
      <3>5. (Covered /\ Paced /\ ClaimExclusive)'
        BY <3>1, <3>3, NoTimePasses, HoldLess
      <3> QED
        BY <3>4, <3>5 DEF ClaimInv
    <2>2. CASE HandleAndPersist(w)
      <3> DEFINE e == task[w].event
      <3>1. PICK S \in SUBSET Targets(e) :
               /\ Mint(S)
               /\ loop' = [loop EXCEPT ![w] =
                            [d \in Rows |-> IF S = Targets(e) /\ d \in S
                                             THEN Fresh("send", 0) ELSE NoLoop]]
        BY <2>2 DEF HandleAndPersist
      <3>2. /\ task[w].pc = "handle" /\ task[w].ids = {}
            /\ task' = [task EXCEPT ![w] = Idle] /\ spent' = spent
        BY <2>2 DEF HandleAndPersist, HasRows
      <3>3. w \in Senders
        BY <3>2 DEF ClaimInv, Shape, Workers, Senders
      <3>4. S \in SUBSET Rows /\ \A d \in S : minted[d] = 0
        BY <3>2 DEF Targets, RowInv, Minting
      <3>5. \A v \in Senders, d \in S : ~Holds(v, d)
        BY <3>4 DEF ClaimInv, Covered
      <3>6. /\ \A v \in Workers : v # w => task'[v] = task[v] /\ loop'[v] = loop[v]
            /\ task'[w] = Idle
            /\ \A d \in Rows : \/ loop'[w][d] = NoLoop
                               \/ loop'[w][d] = Fresh("send", 0) /\ d \in S
        <4>1. \A v \in Workers : v # w => task'[v] = task[v] /\ loop'[v] = loop[v]
          BY <3>1, <3>2 DEF TypeOK
        <4>2. task'[w] = Idle
          BY <3>2 DEF TypeOK
        <4>3. \A d \in Rows : loop'[w][d] = IF S = Targets(e) /\ d \in S
                                              THEN Fresh("send", 0) ELSE NoLoop
          BY <3>1 DEF TypeOK
        <4> QED
          BY <4>1, <4>2, <4>3
      <3>7. /\ \A v \in Senders \ {w} : task'[v] = task[v] /\ loop'[v] = loop[v]
            /\ \A d \in Rows : Holds(w, d)' => d \in S /\ loop'[w][d].at # "queued"
        BY <1>0, <1>00, <3>6 DEF Holds
      <3>8. /\ \A d \in S : minted'[d] # 0 /\ age'[d] = 0
            /\ \A d \in Rows \ S : minted'[d] = minted[d] /\ age'[d] = age[d]
        BY <3>1, <3>4 DEF Mint, TypeOK
      <3>9. (Covered /\ Paced /\ ClaimExclusive)'
        BY <3>2, <3>3, <3>4, <3>5, <3>7, <3>8, HandOver
      <3>10. Shape'
        BY <1>00, <3>6 DEF ClaimInv, Shape
      <3> QED
        BY <3>9, <3>10 DEF ClaimInv
    <2>3. CASE Recover(w)
      <3> DEFINE ids == {d \in task[w].ids : Stored(d)}
      <3>1. PICK S \in SUBSET ids :
               /\ Cardinality(S) = IF Cardinality(ids) < Concurrency
                                    THEN Cardinality(ids) ELSE Concurrency
               /\ loop' = [loop EXCEPT ![w] =
                            [d \in Rows |-> IF d \in S THEN Begin(d)
                                            ELSE IF d \in ids THEN Wait(d) ELSE NoLoop]]
        BY <2>3 DEF Recover
      <3>2. /\ task[w].pc = "recover" /\ task' = [task EXCEPT ![w] = Idle]
            /\ UNCHANGED <<minted, age, spent>>
        BY <2>3 DEF Recover, delivery
      <3>3. ids \in SUBSET Rows /\ ids \in SUBSET task[w].ids /\ task[w].ids \in SUBSET Rows
        BY DEF TypeOK, Task
      <3>4. /\ Cardinality(ids) \in Nat /\ Cardinality(ids) <= BatchSize
        <4>1. Cardinality(ids) <= Cardinality(task[w].ids)
          BY <3>3, RowsFinite, FS_Subset
        <4>2. Cardinality(task[w].ids) \in Nat /\ Cardinality(ids) \in Nat
          BY <3>3, RowsFinite
        <4> QED
          BY <3>2, <4>1, <4>2 DEF ClaimInv, Shape
      <3>5. /\ \A v \in Workers : v # w => task'[v] = task[v] /\ loop'[v] = loop[v]
            /\ task'[w] = Idle
            /\ \A d \in Rows : loop'[w][d] = IF d \in S THEN Begin(d)
                                             ELSE IF d \in ids THEN Wait(d) ELSE NoLoop
        BY <3>1, <3>2 DEF TypeOK
      <3>6. Queue(w)' = ids \ S
        BY <1>00, <3>3, <3>5 DEF Queue
      <3>7. Shape'
        BY <1>00, <3>2, <3>5 DEF ClaimInv, Shape
      <3>8. \A v \in Senders, d \in Rows :
               /\ Holds(v, d)' => Holds(v, d)
               /\ Elapsed(v, d)' = Elapsed(v, d)
        BY <1>0, <1>00, <3>2, <3>5 DEF Holds, Elapsed
      <3>9. Covered' /\ ClaimExclusive'
        BY <3>2, <3>8 DEF ClaimInv, Covered, ClaimExclusive, Senders
      <3>10. Paced'
        <4> SUFFICES ASSUME NEW v \in Senders, NEW d \in Rows
                     PROVE  /\ d \in task'[v].ids => Elapsed(v, d)' <= 1
                            /\ d \in Queue(v)' =>
                                 Cardinality(Queue(v)') + Concurrency * Elapsed(v, d)' <= BatchSize
          BY DEF Paced
        <4>1. CASE v # w
          <5>1. Queue(v)' = Queue(v) /\ task'[v] = task[v]
            BY <1>0, <3>5, <4>1 DEF Queue
          <5> QED
            BY <3>8, <5>1 DEF ClaimInv, Paced
        <4>2. CASE v = w
          <5>1. d \notin task'[v].ids
            BY <1>00, <3>5, <4>2
          <5>2. ASSUME d \in Queue(v)'
                PROVE  Cardinality(Queue(v)') + Concurrency * Elapsed(v, d)' <= BatchSize
            <6>1. Cardinality(Queue(v)') = Cardinality(ids) - Concurrency
              BY <3>1, <3>3, <3>6, <4>2, <5>2, Remainder
            <6>2. Elapsed(v, d)' \in Nat /\ Elapsed(v, d)' <= 1
              BY <3>3, <3>6, <3>8, <4>2, <5>2, ElapsedType DEF ClaimInv, Paced
            <6>3. Concurrency * Elapsed(v, d)' <= Concurrency
              BY <6>2
            <6> QED
              BY <3>4, <6>1, <6>2, <6>3
          <5> QED
            BY <5>1, <5>2
        <4> QED
          BY <4>1, <4>2
      <3> QED
        BY <3>7, <3>9, <3>10 DEF ClaimInv
    <2>4. CASE NextChunk(w)
      <3>1. PICK S \in SUBSET Queue(w) :
               /\ Cardinality(S) = IF Cardinality(Queue(w)) < Concurrency
                                    THEN Cardinality(Queue(w)) ELSE Concurrency
               /\ loop' = [loop EXCEPT ![w] =
                            [d \in Rows |-> IF d \in S /\ Stored(d)
                                              THEN [loop[w][d] EXCEPT !.at = "send"]
                                            ELSE IF d \in S THEN NoLoop ELSE loop[w][d]]]
        BY <2>4 DEF NextChunk, Queue
      <3>2. /\ Queue(w) # {} /\ \A d \in Rows : ~Active(w, d)
            /\ UNCHANGED <<minted, age, task>> /\ spent' = spent \ {w}
        BY <2>4 DEF NextChunk, Queue, delivery
      <3>3. w \in Senders /\ task[w].pc = "idle" /\ task[w].ids = {}
        BY <3>2 DEF ClaimInv, Shape, Queue, Senders, Workers
      <3>4. /\ \A v \in Workers : v # w => loop'[v] = loop[v]
            /\ \A d \in Rows : \/ d \in S /\ loop'[w][d].at \in {"send", "none"}
                               \/ d \notin S /\ loop'[w][d] = loop[w][d]
        <4>1. \A d \in Rows : loop'[w][d] = IF d \in S /\ Stored(d)
                                              THEN [loop[w][d] EXCEPT !.at = "send"]
                                            ELSE IF d \in S THEN NoLoop ELSE loop[w][d]
          BY <3>1 DEF TypeOK
        <4>2. \A d \in Rows : [loop[w][d] EXCEPT !.at = "send"].at = "send"
          BY DEF TypeOK, Loop
        <4>3. \A v \in Workers : v # w => loop'[v] = loop[v]
          BY <3>1 DEF TypeOK
        <4> QED
          BY <1>00, <4>1, <4>2, <4>3
      <3>5. Queue(w) \in SUBSET Rows /\ Queue(w)' = Queue(w) \ S
        BY <3>4 DEF Queue
      <3>6. \A v \in Senders, d \in Rows : Holds(v, d)' => Holds(v, d)
        BY <1>0, <3>2, <3>4 DEF Holds, Queue
      <3>7. Shape'
        BY <3>2, <3>3, <3>4 DEF ClaimInv, Shape, Senders
      <3>8. ClaimExclusive'
        BY <3>6 DEF ClaimInv, ClaimExclusive, Senders
      <3>9. \A v \in Senders \ {w}, d \in Rows :
               Elapsed(v, d)' = Elapsed(v, d) /\ Queue(v)' = Queue(v)
        BY <1>0, <3>2, <3>4 DEF Elapsed, Queue
      <3>10. ASSUME NEW d \in Rows, Holds(w, d)'
             PROVE  /\ d \in Queue(w)
                    /\ Elapsed(w, d)' < Cooldown
                    /\ d \in Queue(w)' =>
                          Cardinality(Queue(w)') + Concurrency * Elapsed(w, d)' <= BatchSize
        <4> DEFINE x == Elapsed(w, d)
                   q == Cardinality(Queue(w))
        <4>1. d \in Queue(w)
          <5>1. Holds(w, d) /\ ~Active(w, d)
            BY <3>2, <3>3, <3>6, <3>10
          <5>2. loop[w][d].at \in {"none", "queued", "send", "record"}
            BY DEF TypeOK, Loop
          <5> QED
            BY <3>3, <5>1, <5>2 DEF Holds, Active, Queue
        <4>2. x \in Nat /\ q \in Nat /\ q + Concurrency * x <= BatchSize
          BY <3>3, <4>1, ElapsedType DEF ClaimInv, Paced
        <4>3. q >= 1
          BY <4>1, <3>5, RowsFinite, FS_EmptySet
        <4>4. Elapsed(w, d)' \in Nat /\ Elapsed(w, d)' <= x + 1
          BY <3>2 DEF Elapsed, TypeOK
        <4>5. Concurrency * x \in Nat /\ Concurrency * x < Concurrency * (Cooldown - 1)
          BY <4>2, <4>3, Times DEF ChunksFit
        <4>6. x < Cooldown - 1
          <5> SUFFICES ASSUME x >= Cooldown - 1 PROVE FALSE
            BY <4>2
          <5>1. Concurrency * (Cooldown - 1) <= Concurrency * x
            BY <4>2, Times
          <5> QED
            BY <4>5, <5>1
        <4>7. ASSUME d \in Queue(w)'
              PROVE  Cardinality(Queue(w)') + Concurrency * Elapsed(w, d)' <= BatchSize
          <5>1. Cardinality(Queue(w)') = q - Concurrency
            BY <3>1, <3>5, <4>7, Remainder
          <5>2. /\ Concurrency * Elapsed(w, d)' <= Concurrency * (x + 1)
                /\ Concurrency * Elapsed(w, d)' \in Nat
            BY <4>2, <4>4, Times
          <5>3. Concurrency * (x + 1) = Concurrency * x + Concurrency
            BY <4>2
          <5> QED
            BY <4>2, <4>5, <5>1, <5>2, <5>3
        <4> QED
          BY <4>1, <4>2, <4>4, <4>6, <4>7
      <3>11. Covered'
        <4> SUFFICES ASSUME NEW v \in Senders, NEW d \in Rows, Holds(v, d)'
                     PROVE  minted'[d] # 0 /\ Elapsed(v, d)' < Cooldown
          BY DEF Covered
        <4>1. CASE v = w
          BY <3>2, <3>6, <3>10, <4>1 DEF ClaimInv, Covered
        <4>2. CASE v # w
          BY <3>2, <3>6, <3>9, <4>2 DEF ClaimInv, Covered
        <4> QED
          BY <4>1, <4>2
      <3>12. Paced'
        <4> SUFFICES ASSUME NEW v \in Senders, NEW d \in Rows
                     PROVE  /\ d \in task'[v].ids => Elapsed(v, d)' <= 1
                            /\ d \in Queue(v)' =>
                                 Cardinality(Queue(v)') + Concurrency * Elapsed(v, d)' <= BatchSize
          BY DEF Paced
        <4>1. CASE v = w
          <5>1. d \in Queue(v)' => Holds(v, d)'
            BY DEF Queue, Holds
          <5> QED
            BY <3>2, <3>3, <3>10, <4>1, <5>1
        <4>2. CASE v # w
          BY <3>2, <3>9, <4>2 DEF ClaimInv, Paced
        <4> QED
          BY <4>1, <4>2
      <3> QED
        BY <3>7, <3>8, <3>11, <3>12 DEF ClaimInv
    <2>5. CASE Crash(w)
      <3>1. UNCHANGED <<minted, age, spent>>
        BY <2>5 DEF Crash, delivery
      <3>2. /\ \A v \in Workers : v # w => task'[v] = task[v] /\ loop'[v] = loop[v]
            /\ task'[w] = Idle
            /\ \A d \in Rows : loop'[w][d] = NoLoop
        BY <2>5 DEF Crash, TypeOK
      <3>3. \A v \in Senders, d \in Rows :
               /\ Holds(v, d)' => Holds(v, d)
               /\ d \in task'[v].ids => d \in task[v].ids
               /\ d \in Queue(v)' => Queue(v)' = Queue(v)
        BY <1>0, <1>00, <3>2 DEF Holds, Queue
      <3>4. Shape'
        BY <3>2 DEF ClaimInv, Shape, Idle, NoLoop
      <3>5. (Covered /\ Paced /\ ClaimExclusive)'
        BY <3>1, <3>3, NoTimePasses, HoldLess
      <3> QED
        BY <3>4, <3>5 DEF ClaimInv
    <2>6. ASSUME NEW d \in Rows, Post(w, d) \/ Finalize(w, d) \/ Fail(w, d)
          PROVE  ClaimInv'
      <3>1. /\ UNCHANGED <<minted, spent, task>>
            /\ \A c \in Rows : age'[c] = age[c] \/ age'[c] = 0
        <4>1. UNCHANGED <<minted, spent, task>>
          BY <2>6 DEF Post, Finalize, Fail, delivery
        <4>2. age' \in {age, [age EXCEPT ![d] = 0]}
          BY <2>6 DEF Post, Finalize, Fail, delivery
        <4>3. age \in [Rows -> 0..StrandedAfter]
          BY DEF TypeOK
        <4> QED
          BY <4>1, <4>2, <4>3
      <3>2. /\ loop[w][d].at \in {"send", "record"}
            /\ \E l : l.at \in {"none", "send", "record"} /\ loop' = [loop EXCEPT ![w][d] = l]
        BY <2>6 DEF Post, Finalize, Fail, Active, Tried, NoLoop
      <3>3. PICK l : l.at \in {"none", "send", "record"} /\ loop' = [loop EXCEPT ![w][d] = l]
        BY <3>2
      <3>4. \A v \in Workers, c \in Rows :
               loop'[v][c] = IF v = w /\ c = d THEN l ELSE loop[v][c]
        BY <3>3 DEF TypeOK
      <3>5. \A v \in Senders, c \in Rows :
               /\ Holds(v, c)' => Holds(v, c)
               /\ c \in task'[v].ids => c \in task[v].ids
               /\ Queue(v)' = Queue(v)
        BY <1>0, <3>1, <3>2, <3>3, <3>4 DEF Holds, Queue
      <3>6. Shape'
        BY <3>1, <3>2, <3>3, <3>4 DEF ClaimInv, Shape
      <3>7. (Covered /\ Paced /\ ClaimExclusive)'
        BY <3>1, <3>5, NoTimePasses, HoldLess
      <3> QED
        BY <3>6, <3>7 DEF ClaimInv
    <2> QED
      BY <1>6, <2>1, <2>2, <2>3, <2>4, <2>5, <2>6 DEF Run
  <1> QED
    BY <1>1, <1>2, <1>3, <1>4, <1>5, <1>6 DEF Next

\* As long as the chunks of a batch fit into the cooldown, the stamp of claimStranded
\* keeps every other worker and replica off the rows whose send is in flight.
THEOREM ClaimsExclusive ==
    ASSUME ChunksFit PROVE Spec => []ClaimExclusive
  <1>1. TypeOK /\ RowInv /\ [Next]_vars => RowInv'
    BY RowStep
  <1>2. TypeOK /\ RowInv /\ ClaimInv /\ [Next]_vars => ClaimInv'
    BY TypeStep, ClaimStep
  <1>3. ClaimInv => ClaimExclusive
    BY DEF ClaimInv
  <1> QED
    BY <1>1, <1>2, <1>3, ClaimInit, RowInit, DeliveryTypes, PTL DEF Spec

-----------------------------------------------------------------------------
(* What a claim buys: the attempts counter and a recorded success are safe.  *)

\* Until an integrator steps in, only the holder of a row finishes it, so what it
\* read of the row still holds when it writes.
Spending ==
    /\ \A d \in Rows : status[d] = "PENDING" => d \in byHand \/ attempts[d] = 0
    /\ \A w \in Callers, d \in Rows : loop[w][d].at # "none" => d \in byHand
    /\ \A w \in Senders, d \in Rows : Holds(w, d) /\ d \notin byHand =>
          /\ status[d] # "SUCCEEDED"
          /\ d \in task[w].ids => attempts[d] < Budget
          /\ loop[w][d].at # "none" => loop[w][d].n + loop[w][d].tries < Budget + MaxAttempts

SpendInv == Spending /\ BudgetHolds

LEMMA BudgetPositive == Budget \in Nat /\ Budget > 0
  BY WebhookBounds DEF Budget

LEMMA SpendInit == Init => SpendInv
  BY BudgetPositive, WebhookBounds
  DEF Init, SpendInv, Spending, BudgetHolds, Holds, Idle, NoLoop, Senders, Workers

\* A step that finishes no row and lets nobody hold more.
LEMMA SpendLess ==
    ASSUME SpendInv, byHand \subseteq byHand',
           \A d \in Rows : /\ attempts'[d] = attempts[d]
                           /\ status'[d] = status[d] \/ status'[d] = "DELETED",
           \A w \in Callers, d \in Rows :
              loop'[w][d].at # "none" => loop[w][d].at # "none" \/ d \in byHand',
           \A w \in Senders, d \in Rows :
              /\ Holds(w, d)' => Holds(w, d)
              /\ d \in task'[w].ids => d \in task[w].ids
              /\ loop'[w][d].at # "none" =>
                    \/ /\ loop[w][d].at # "none"
                       /\ loop'[w][d].n + loop'[w][d].tries = loop[w][d].n + loop[w][d].tries
                    \/ /\ d \in task[w].ids
                       /\ loop'[w][d].n = attempts[d] /\ loop'[w][d].tries = MaxAttempts,
           TypeOK
    PROVE  SpendInv'
  <1>1. Spending'
    <2>1. \A d \in Rows : status'[d] = "PENDING" => d \in byHand' \/ attempts'[d] = 0
      BY DEF SpendInv, Spending
    <2>2. \A w \in Callers, d \in Rows : loop'[w][d].at # "none" => d \in byHand'
      BY DEF SpendInv, Spending
    <2>3. ASSUME NEW w \in Senders, NEW d \in Rows, Holds(w, d)', d \notin byHand'
          PROVE  /\ status'[d] # "SUCCEEDED"
                 /\ d \in task'[w].ids => attempts'[d] < Budget
                 /\ loop'[w][d].at # "none" => loop'[w][d].n + loop'[w][d].tries < Budget + MaxAttempts
      <3>1. /\ status[d] # "SUCCEEDED"
            /\ d \in task[w].ids => attempts[d] < Budget
            /\ loop[w][d].at # "none" => loop[w][d].n + loop[w][d].tries < Budget + MaxAttempts
        BY <2>3 DEF SpendInv, Spending
      <3>2. attempts[d] \in Nat /\ MaxAttempts \in Nat /\ Budget \in Nat
        BY BudgetPositive, WebhookBounds DEF TypeOK
      <3> QED
        BY <3>1, <3>2
    <2> QED
      BY <2>1, <2>2, <2>3 DEF Spending
  <1>2. BudgetHolds'
    BY DEF SpendInv, BudgetHolds
  <1> QED
    BY <1>1, <1>2 DEF SpendInv

LEMMA SpendStep ==
    ASSUME TypeOK, RowInv, ClaimInv, SpendInv, [Next]_vars
    PROVE  SpendInv'
  <1> USE WebhookBounds
  <1>0. /\ Senders \subseteq Workers /\ Callers \subseteq Workers
        /\ Senders \cap Callers = {} /\ Workers = Senders \cup Callers
    BY WebhookInputs DEF Senders, Workers
  <1>00. /\ \A d \in Rows : Begin(d).at = "send" /\ Begin(d).n = attempts[d] /\ Begin(d).tries = MaxAttempts
         /\ \A d \in Rows : Wait(d).at = "queued" /\ Wait(d).n = attempts[d] /\ Wait(d).tries = MaxAttempts
         /\ Fresh("send", 0).at = "send" /\ Fresh("send", 0).n = 0
         /\ Fresh("send", 0).tries = MaxAttempts
         /\ NoLoop.at = "none" /\ Idle.pc = "idle" /\ Idle.ids = {}
    BY DEF Begin, Wait, Fresh, NoLoop, Idle
  <1>1. CASE Owner \/ SelectStale \/ ClearPayloads \/ Tick \/ UNCHANGED vars
    <2>1. UNCHANGED <<attempts, task, loop, byHand>>
      BY <1>1 DEF Owner, Create, Update, Ping, Remove, SelectStale, ClearPayloads, Tick,
                  vars, delivery, local
    <2>2. \A d \in Rows : status'[d] = status[d] \/ status'[d] = "DELETED"
      BY <1>1 DEF Owner, Create, Update, Ping, Remove, SelectStale, ClearPayloads, Tick,
                  vars, delivery
    <2>3. \A w \in Senders, d \in Rows : Holds(w, d)' <=> Holds(w, d)
      BY <2>1 DEF Holds
    <2> QED
      BY <2>1, <2>2, <2>3, SpendLess
  <1>2. ASSUME NEW w \in Callers, NEW d \in Rows, Redeliver(w, d) PROVE SpendInv'
    <2>1. /\ UNCHANGED <<attempts, status, task>> /\ byHand' = byHand \cup {d}
          /\ loop' = [loop EXCEPT ![w] = [c \in Rows |-> IF c \in {d} THEN Begin(c) ELSE NoLoop]]
      BY <1>2 DEF Redeliver, Start, delivery
    <2>2. /\ \A v \in Workers : v # w => loop'[v] = loop[v]
          /\ \A c \in Rows : loop'[w][c].at # "none" => c = d
      BY <1>0, <1>00, <2>1 DEF TypeOK
    <2>3. \A v \in Senders : loop'[v] = loop[v]
      BY <1>0, <2>2
    <2>4. \A v \in Senders, c \in Rows : Holds(v, c)' <=> Holds(v, c)
      BY <2>1, <2>3 DEF Holds
    <2>5. \A v \in Callers, c \in Rows :
             loop'[v][c].at # "none" => loop[v][c].at # "none" \/ c \in byHand'
      BY <1>0, <2>1, <2>2
    <2> QED
      BY <2>1, <2>3, <2>4, <2>5, SpendLess
  <1>3. ASSUME NEW w \in Buses, NEW e \in Events, Emit(w, e) PROVE SpendInv'
    <2> DEFINE ids == IF e \in Terminal THEN Targets(e) ELSE {}
    <2>1. /\ Mint(ids) /\ e \notin emitted /\ ~Busy(w) /\ UNCHANGED <<loop, byHand>>
          /\ task' = [task EXCEPT ![w] = [pc |-> "handle", event |-> e, ids |-> ids]]
      BY <1>3 DEF Emit
    <2>2. w \in Senders /\ ids \in SUBSET Rows /\ \A d \in ids : minted[d] = 0
      BY <2>1 DEF Senders, Targets, RowInv, Minting
    <2>3. \A v \in Senders, d \in ids : ~Holds(v, d)
      BY <2>2 DEF ClaimInv, Covered
    <2>4. /\ \A v \in Workers : v # w => task'[v] = task[v]
          /\ task'[w].ids = ids
      BY <1>0, <2>1, <2>2 DEF TypeOK
    <2>5. \A d \in Rows : /\ attempts'[d] = IF d \in ids THEN 0 ELSE attempts[d]
                          /\ status'[d] = IF d \in ids THEN "PENDING" ELSE status[d]
      BY <2>1 DEF Mint
    <2>6. BudgetHolds'
      BY <2>1, <2>5, BudgetPositive DEF SpendInv, BudgetHolds
    <2>7. \A d \in Rows : status'[d] = "PENDING" => d \in byHand' \/ attempts'[d] = 0
      BY <2>1, <2>5 DEF SpendInv, Spending
    <2>8. \A v \in Callers, d \in Rows : loop'[v][d].at # "none" => d \in byHand'
      BY <2>1 DEF SpendInv, Spending
    <2>9. ASSUME NEW v \in Senders, NEW d \in Rows, Holds(v, d)', d \notin byHand'
          PROVE  /\ status'[d] # "SUCCEEDED"
                 /\ d \in task'[v].ids => attempts'[d] < Budget
                 /\ loop'[v][d].at # "none" => loop'[v][d].n + loop'[v][d].tries < Budget + MaxAttempts
      <3>1. CASE v = w
        <4>1. d \in ids /\ loop'[v][d].at = "none"
          BY <1>0, <2>1, <2>4, <2>9, <3>1 DEF Holds, Busy
        <4> QED
          BY <2>5, <4>1, BudgetPositive
      <3>2. CASE v # w
        <4>1. Holds(v, d) /\ task'[v] = task[v] /\ d \notin ids
          BY <1>0, <2>1, <2>3, <2>4, <2>9, <3>2 DEF Holds
        <4> QED
          BY <2>1, <2>5, <2>9, <4>1 DEF SpendInv, Spending
      <3> QED
        BY <3>1, <3>2
    <2> QED
      BY <2>6, <2>7, <2>8, <2>9 DEF SpendInv, Spending
  <1>4. ASSUME NEW w \in Sweepers, ClaimStranded(w) PROVE SpendInv'
    <2>1. PICK B \in Batches({d \in Rows : Stranded(d)}) :
             task' = [task EXCEPT ![w] = [pc |-> "recover", event |-> "none", ids |-> B]]
      BY <1>4 DEF ClaimStranded
    <2>2. ~Busy(w) /\ UNCHANGED <<loop, attempts, status, byHand>>
      BY <1>4 DEF ClaimStranded
    <2>3. w \in Senders /\ B \in SUBSET Rows /\ \A d \in B : Stranded(d)
      BY <2>1 DEF Senders, Batches
    <2>4. \A d \in B \ byHand : status[d] # "SUCCEEDED" /\ attempts[d] < Budget
      BY <2>3, BudgetPositive DEF Stranded, SpendInv, Spending
    <2>5. /\ \A v \in Workers : v # w => task'[v] = task[v]
          /\ task'[w].ids = B
      BY <1>0, <2>1, <2>3 DEF TypeOK
    <2>6. ASSUME NEW v \in Senders, NEW d \in Rows, Holds(v, d)', d \notin byHand'
          PROVE  /\ status'[d] # "SUCCEEDED"
                 /\ d \in task'[v].ids => attempts'[d] < Budget
                 /\ loop'[v][d].at # "none" => loop'[v][d].n + loop'[v][d].tries < Budget + MaxAttempts
      <3>1. CASE v = w
        <4>1. d \in B /\ loop'[v][d].at = "none"
          BY <1>0, <2>2, <2>5, <2>6, <3>1 DEF Holds, Busy
        <4> QED
          BY <2>2, <2>4, <2>6, <4>1
      <3>2. CASE v # w
        <4>1. Holds(v, d) /\ task'[v] = task[v]
          BY <1>0, <2>2, <2>5, <2>6, <3>2 DEF Holds
        <4> QED
          BY <2>2, <2>6, <4>1 DEF SpendInv, Spending
      <3> QED
        BY <3>1, <3>2
    <2> QED
      BY <2>2, <2>6 DEF SpendInv, Spending, BudgetHolds
  <1>5. ASSUME NEW w \in Workers, Run(w) PROVE SpendInv'
    <2>1. CASE Handle(w)
      <3>1. /\ UNCHANGED <<attempts, status, byHand>> /\ task[w].pc = "handle"
            /\ task' = [task EXCEPT ![w] = Idle]
            /\ loop' = [loop EXCEPT ![w] =
                         [d \in Rows |-> IF d \in {c \in task[w].ids : Stored(c)}
                                           THEN Begin(d) ELSE NoLoop]]
        BY <2>1 DEF Handle, Start, delivery
      <3>2. /\ \A v \in Workers : v # w => task'[v] = task[v] /\ loop'[v] = loop[v]
            /\ task'[w] = Idle
            /\ \A d \in Rows : loop'[w][d] = IF d \in task[w].ids /\ Stored(d)
                                               THEN Begin(d) ELSE NoLoop
        BY <3>1 DEF TypeOK
      <3>3. w \in Senders
        BY <1>0, <3>1 DEF ClaimInv, Shape
      <3>4. \A v \in Senders, d \in Rows :
              /\ Holds(v, d)' => Holds(v, d)
              /\ d \in task'[v].ids => d \in task[v].ids
              /\ loop'[v][d].at # "none" =>
                    \/ loop[v][d].at # "none" /\ loop'[v][d] = loop[v][d]
                    \/ d \in task[v].ids /\ loop'[v][d] \in {Begin(d), Wait(d)}
        BY <1>0, <1>00, <3>2 DEF Holds
      <3>5. \A v \in Callers : loop'[v] = loop[v]
        BY <1>0, <3>2, <3>3
      <3> QED
        BY <1>00, <3>1, <3>4, <3>5, SpendLess
    <2>2. CASE HandleAndPersist(w)
      <3> DEFINE e == task[w].event
      <3>1. PICK S \in SUBSET Targets(e) :
               /\ Mint(S)
               /\ loop' = [loop EXCEPT ![w] =
                            [d \in Rows |-> IF S = Targets(e) /\ d \in S
                                             THEN Fresh("send", 0) ELSE NoLoop]]
        BY <2>2 DEF HandleAndPersist
      <3>2. /\ task[w].pc = "handle" /\ task[w].ids = {} /\ byHand' = byHand
            /\ task' = [task EXCEPT ![w] = Idle]
        BY <2>2 DEF HandleAndPersist, HasRows
      <3>3. w \in Senders
        BY <1>0, <3>2 DEF ClaimInv, Shape
      <3>4. S \in SUBSET Rows /\ \A d \in S : minted[d] = 0
        BY <3>2 DEF Targets, RowInv, Minting
      <3>5. \A v \in Senders, d \in S : ~Holds(v, d)
        BY <3>4 DEF ClaimInv, Covered
      <3>6. /\ \A v \in Workers : v # w => task'[v] = task[v] /\ loop'[v] = loop[v]
            /\ task'[w] = Idle
            /\ \A d \in Rows : loop'[w][d] = IF S = Targets(e) /\ d \in S
                                              THEN Fresh("send", 0) ELSE NoLoop
        BY <3>1, <3>2 DEF TypeOK
      <3>7. \A d \in Rows : /\ attempts'[d] = IF d \in S THEN 0 ELSE attempts[d]
                            /\ status'[d] = IF d \in S THEN "PENDING" ELSE status[d]
        BY <3>1 DEF Mint
      <3>8. BudgetHolds'
        BY <3>2, <3>7, BudgetPositive DEF SpendInv, BudgetHolds
      <3>9. \A d \in Rows : status'[d] = "PENDING" => d \in byHand' \/ attempts'[d] = 0
        BY <3>2, <3>7 DEF SpendInv, Spending
      <3>10. \A v \in Callers, d \in Rows : loop'[v][d].at # "none" => d \in byHand'
        BY <1>0, <3>2, <3>3, <3>6 DEF SpendInv, Spending
      <3>11. ASSUME NEW v \in Senders, NEW d \in Rows, Holds(v, d)', d \notin byHand'
             PROVE  /\ status'[d] # "SUCCEEDED"
                    /\ d \in task'[v].ids => attempts'[d] < Budget
                    /\ loop'[v][d].at # "none" => loop'[v][d].n + loop'[v][d].tries < Budget + MaxAttempts
        <4>1. CASE v = w
          <5>1. d \in S /\ loop'[v][d] = Fresh("send", 0) /\ d \notin task'[v].ids
            BY <1>00, <3>6, <3>11, <4>1 DEF Holds
          <5> QED
            BY <1>00, <3>7, <5>1, BudgetPositive
        <4>2. CASE v # w
          <5>1. Holds(v, d) /\ task'[v] = task[v] /\ loop'[v] = loop[v] /\ d \notin S
            BY <1>0, <3>5, <3>6, <3>11, <4>2 DEF Holds
          <5> QED
            BY <3>2, <3>7, <3>11, <5>1 DEF SpendInv, Spending
        <4> QED
          BY <4>1, <4>2
      <3> QED
        BY <3>8, <3>9, <3>10, <3>11 DEF SpendInv, Spending
    <2>3. CASE Recover(w)
      <3> DEFINE ids == {d \in task[w].ids : Stored(d)}
      <3>1. PICK S \in SUBSET ids :
               loop' = [loop EXCEPT ![w] =
                            [d \in Rows |-> IF d \in S THEN Begin(d)
                                            ELSE IF d \in ids THEN Wait(d) ELSE NoLoop]]
        BY <2>3 DEF Recover
      <3>2. /\ task[w].pc = "recover" /\ task' = [task EXCEPT ![w] = Idle]
            /\ UNCHANGED <<attempts, status, byHand>>
        BY <2>3 DEF Recover, delivery
      <3>3. w \in Senders
        BY <1>0, <3>2 DEF ClaimInv, Shape
      <3>4. /\ \A v \in Workers : v # w => task'[v] = task[v] /\ loop'[v] = loop[v]
            /\ task'[w] = Idle
            /\ \A d \in Rows : loop'[w][d] = IF d \in S THEN Begin(d)
                                              ELSE IF d \in ids THEN Wait(d) ELSE NoLoop
        BY <3>1, <3>2 DEF TypeOK
      <3>5. \A v \in Senders, d \in Rows :
              /\ Holds(v, d)' => Holds(v, d)
              /\ d \in task'[v].ids => d \in task[v].ids
              /\ loop'[v][d].at # "none" =>
                    \/ loop[v][d].at # "none" /\ loop'[v][d] = loop[v][d]
                    \/ d \in task[v].ids /\ loop'[v][d] \in {Begin(d), Wait(d)}
        BY <1>0, <1>00, <3>4 DEF Holds
      <3>6. \A v \in Callers : loop'[v] = loop[v]
        BY <1>0, <3>3, <3>4
      <3> QED
        BY <1>00, <3>2, <3>5, <3>6, SpendLess
    <2>4. CASE NextChunk(w)
      <3>1. PICK S \in SUBSET Queue(w) :
               loop' = [loop EXCEPT ![w] =
                            [d \in Rows |-> IF d \in S /\ Stored(d)
                                              THEN [loop[w][d] EXCEPT !.at = "send"]
                                            ELSE IF d \in S THEN NoLoop ELSE loop[w][d]]]
        BY <2>4 DEF NextChunk, Queue
      <3>2. UNCHANGED <<attempts, status, byHand, task>> /\ Queue(w) # {}
        BY <2>4 DEF NextChunk, Queue, delivery
      <3>3. w \in Senders
        BY <1>0, <3>2 DEF ClaimInv, Shape, Queue
      <3>4. /\ \A v \in Workers : v # w => loop'[v] = loop[v]
            /\ \A d \in Rows : loop'[w][d] = IF d \in S /\ Stored(d)
                                               THEN [loop[w][d] EXCEPT !.at = "send"]
                                             ELSE IF d \in S THEN NoLoop ELSE loop[w][d]
        BY <3>1 DEF TypeOK
      <3>5. \A d \in Rows : LET l == [loop[w][d] EXCEPT !.at = "send"]
                            IN  l.n = loop[w][d].n /\ l.tries = loop[w][d].tries
        BY DEF TypeOK, Loop
      <3>6. \A d \in Rows : loop'[w][d].at # "none" =>
               /\ loop[w][d].at # "none"
               /\ loop'[w][d].n = loop[w][d].n /\ loop'[w][d].tries = loop[w][d].tries
        BY <1>00, <3>4, <3>5 DEF Queue
      <3>7. \A v \in Senders, d \in Rows :
              /\ Holds(v, d)' => Holds(v, d)
              /\ loop'[v][d].at # "none" =>
                    /\ loop[v][d].at # "none"
                    /\ loop'[v][d].n + loop'[v][d].tries = loop[v][d].n + loop[v][d].tries
        BY <1>0, <3>2, <3>4, <3>6 DEF Holds
      <3>8. \A v \in Callers : loop'[v] = loop[v]
        BY <1>0, <3>3, <3>4
      <3> QED
        BY <3>2, <3>7, <3>8, SpendLess
    <2>5. CASE Crash(w)
      <3>1. UNCHANGED <<attempts, status, byHand>>
        BY <2>5 DEF Crash, delivery
      <3>2. /\ \A v \in Workers : v # w => task'[v] = task[v] /\ loop'[v] = loop[v]
            /\ task'[w] = Idle
            /\ \A d \in Rows : loop'[w][d] = NoLoop
        BY <2>5 DEF Crash, TypeOK
      <3>3. \A v \in Senders, d \in Rows :
              /\ Holds(v, d)' => Holds(v, d)
              /\ d \in task'[v].ids => d \in task[v].ids
              /\ loop'[v][d].at # "none" => loop[v][d].at # "none" /\ loop'[v][d] = loop[v][d]
        BY <1>0, <1>00, <3>2 DEF Holds
      <3>4. \A v \in Callers, d \in Rows : loop'[v][d].at # "none" => loop[v][d].at # "none"
        BY <1>0, <1>00, <3>2
      <3> QED
        BY <3>1, <3>3, <3>4, SpendLess
    <2>6. ASSUME NEW d \in Rows, Post(w, d) \/ Fail(w, d) PROVE SpendInv'
      <3>1. UNCHANGED <<attempts, status, byHand, task>> /\ Active(w, d)
        BY <2>6 DEF Post, Fail, delivery, Active
      <3>2. PICK l : /\ loop' = [loop EXCEPT ![w][d] = l]
                     /\ \/ l = NoLoop
                        \/ l.n = loop[w][d].n + 1 /\ l.tries = loop[w][d].tries - 1
        BY <2>6 DEF Post, Fail, Tried
      <3>3. \A v \in Workers, c \in Rows :
               loop'[v][c] = IF v = w /\ c = d THEN l ELSE loop[v][c]
        BY <3>2 DEF TypeOK
      <3>4. loop[w][d].n \in Nat /\ loop[w][d].tries \in Nat
        BY DEF TypeOK, Loop
      <3>5. \A v \in Senders, c \in Rows :
              /\ Holds(v, c)' => Holds(v, c)
              /\ loop'[v][c].at # "none" =>
                    /\ loop[v][c].at # "none"
                    /\ loop'[v][c].n + loop'[v][c].tries = loop[v][c].n + loop[v][c].tries
        BY <1>0, <1>00, <3>1, <3>2, <3>3, <3>4 DEF Holds, Active
      <3>6. \A v \in Callers, c \in Rows : loop'[v][c].at # "none" => loop[v][c].at # "none"
        BY <1>0, <3>1, <3>3 DEF Active
      <3> QED
        BY <3>1, <3>5, <3>6, SpendLess
    <2>7. ASSUME NEW d \in Rows, Finalize(w, d) PROVE SpendInv'
      <3>1. /\ loop[w][d].at = "record" /\ UNCHANGED <<task, byHand>>
            /\ loop' = [loop EXCEPT ![w][d] = NoLoop]
        BY <2>7 DEF Finalize
      <3>2. \A v \in Workers, c \in Rows :
               loop'[v][c] = IF v = w /\ c = d THEN NoLoop ELSE loop[v][c]
        BY <3>1 DEF TypeOK
      <3>3. /\ \A c \in Rows \ {d} : attempts'[c] = attempts[c] /\ status'[c] = status[c]
            /\ \/ attempts'[d] = attempts[d] /\ status'[d] = status[d]
               \/ attempts'[d] = loop[w][d].n /\ status'[d] \in {"SUCCEEDED", "FAILED"}
        BY <2>7 DEF Finalize, TypeOK
      <3>4. loop[w][d].n \in Nat /\ loop[w][d].tries \in Nat
        BY DEF TypeOK, Loop
      <3>5. d \in byHand \/ loop[w][d].n < Budget + MaxAttempts
        <4>1. CASE w \in Callers
          BY <3>1, <4>1 DEF SpendInv, Spending
        <4>2. CASE w \in Senders
          BY <3>1, <3>4, <4>2, BudgetPositive DEF SpendInv, Spending, Holds
        <4> QED
          BY <1>0, <4>1, <4>2
      <3>6. BudgetHolds'
        BY <3>1, <3>3, <3>5 DEF SpendInv, BudgetHolds
      <3>7. \A c \in Rows : status'[c] = "PENDING" => c \in byHand' \/ attempts'[c] = 0
        BY <3>1, <3>3 DEF SpendInv, Spending
      <3>8. \A v \in Callers, c \in Rows : loop'[v][c].at # "none" => c \in byHand'
        BY <1>0, <1>00, <3>1, <3>2 DEF SpendInv, Spending
      <3>9. ASSUME NEW v \in Senders, NEW c \in Rows, Holds(v, c)', c \notin byHand'
            PROVE  /\ status'[c] # "SUCCEEDED"
                   /\ c \in task'[v].ids => attempts'[c] < Budget
                   /\ loop'[v][c].at # "none" => loop'[v][c].n + loop'[v][c].tries < Budget + MaxAttempts
        <4>1. Holds(v, c) /\ (loop'[v][c].at # "none" => loop[v][c].at # "none" /\ loop'[v][c] = loop[v][c])
          BY <1>0, <1>00, <3>1, <3>2, <3>9 DEF Holds
        <4>2. CASE c # d
          BY <3>1, <3>3, <3>9, <4>1, <4>2 DEF SpendInv, Spending
        <4>3. CASE c = d
          <5>1. w \in Senders
            BY <1>0, <3>1, <3>9, <4>3 DEF SpendInv, Spending
          <5>2. Holds(w, d)
            BY <3>1 DEF Holds
          <5>3. v = w
            BY <4>1, <4>3, <5>1, <5>2 DEF ClaimInv, ClaimExclusive, Senders
          <5>4. task[w].ids = {}
            BY <3>1 DEF ClaimInv, Shape
          <5>5. ~Holds(v, c)'
            BY <1>00, <3>1, <3>2, <4>3, <5>3, <5>4 DEF Holds
          <5> QED
            BY <3>9, <5>5
        <4> QED
          BY <4>2, <4>3
      <3> QED
        BY <3>6, <3>7, <3>8, <3>9 DEF SpendInv, Spending
    <2> QED
      BY <1>5, <2>1, <2>2, <2>3, <2>4, <2>5, <2>6, <2>7 DEF Run
  <1> QED
    BY <1>1, <1>2, <1>3, <1>4, <1>5 DEF Next

\* With sweeps that fit the cooldown, no row is tried beyond its budget unless an integrator
\* asked for it, whoever counts and whenever the count is written back.
THEOREM BudgetKept ==
    ASSUME ChunksFit PROVE Spec => []BudgetHolds
  <1>1. TypeOK /\ RowInv /\ [Next]_vars => RowInv'
    BY RowStep
  <1>2. TypeOK /\ RowInv /\ ClaimInv /\ [Next]_vars => ClaimInv'
    BY TypeStep, ClaimStep
  <1>3. TypeOK /\ RowInv /\ ClaimInv /\ SpendInv /\ [Next]_vars => SpendInv'
    BY SpendStep
  <1>4. SpendInv => BudgetHolds
    BY DEF SpendInv
  <1> QED
    BY <1>1, <1>2, <1>3, <1>4, SpendInit, ClaimInit, RowInit, DeliveryTypes, PTL DEF Spec

\* With sweeps that fit the cooldown, no slower retry loop turns a recorded success into a
\* failure, so a delivered event is not sent again.
THEOREM SuccessKept ==
    ASSUME ChunksFit PROVE Spec => SuccessStands
  <1>1. TypeOK /\ RowInv /\ [Next]_vars => RowInv'
    BY RowStep
  <1>2. TypeOK /\ RowInv /\ ClaimInv /\ [Next]_vars => ClaimInv'
    BY TypeStep, ClaimStep
  <1>3. TypeOK /\ RowInv /\ ClaimInv /\ SpendInv /\ [Next]_vars => SpendInv'
    BY SpendStep
  <1>4. TypeOK /\ SpendInv /\ [Next]_vars =>
          [\A d \in Rows : status[d] = "SUCCEEDED" /\ status'[d] = "FAILED" => d \in byHand]_vars
    <2> SUFFICES ASSUME TypeOK, SpendInv, Next,
                        NEW d \in Rows, status[d] = "SUCCEEDED", status'[d] = "FAILED"
                 PROVE  d \in byHand
      OBVIOUS
    <2>1. CASE Owner
      BY <2>1 DEF Owner, Create, Update, Ping, Remove, delivery, TypeOK
    <2>2. CASE Tick \/ SelectStale \/ ClearPayloads
      BY <2>2 DEF Tick, SelectStale, ClearPayloads, delivery
    <2>3. ASSUME NEW S, Mint(S) PROVE FALSE
      BY <2>3 DEF Mint, TypeOK
    <2>4. ASSUME NEW w \in Buses, NEW e \in Events, Emit(w, e) PROVE FALSE
      BY <2>3, <2>4 DEF Emit
    <2>5. ASSUME NEW w \in Workers, NEW c \in Rows, ClaimStranded(w) \/ Redeliver(w, c) PROVE FALSE
      BY <2>5 DEF ClaimStranded, Redeliver, delivery
    <2>6. ASSUME NEW w \in Workers, Run(w) PROVE d \in byHand
      <3>1. \E c \in Rows : Finalize(w, c)
        BY <2>3, <2>6 DEF Run, Handle, HandleAndPersist, Recover, NextChunk, Crash, Post, Fail, delivery
      <3>2. PICK c \in Rows : Finalize(w, c)
        BY <3>1
      <3>3. c = d
        BY <3>2 DEF Finalize, TypeOK
      <3>4. loop[w][d].at = "record"
        BY <3>2, <3>3 DEF Finalize
      <3> QED
        BY <3>4 DEF SpendInv, Spending, Holds, Workers, Senders
    <2> QED
      BY <2>1, <2>2, <2>4, <2>5, <2>6 DEF Next, Workers
  <1> QED
    BY <1>1, <1>2, <1>3, <1>4, SpendInit, ClaimInit, RowInit, DeliveryTypes, PTL
    DEF Spec, SuccessStands
=============================================================================
