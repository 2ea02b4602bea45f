------------------------------- MODULE Aliases -------------------------------
(***************************************************************************)
(* One payment handle: AliasesService.  A handle is claimed, pointed at    *)
(* more addresses, stripped of them, released, and recovered by an emailed *)
(* token together with a signature of the new address.  Requests of        *)
(* several callers interleave between their reads and their writes; the    *)
(* database's unique indexes and foreign keys are part of the writes.      *)
(* Challenges are single-use rows of the requests that hold them: a        *)
(* request here is one that holds a valid one.  One network.               *)
(***************************************************************************)
EXTENDS Integers, FiniteSets

CONSTANTS
    AliasOwners,    \* consumers
    AliasAddresses, \* addresses
    AliasChain(_),  \* the chain of an address
    AliasAdds,      \* addAddress requests
    AliasRemoves,   \* removeAddress requests
    AliasIssues,    \* startRecovery requests, each with the token it mints
    AliasFinishes,  \* completeRecovery requests
    MaxAliases,     \* bound: times the handle is claimed
    MaxTries        \* ALIAS_RECOVERY_MAX_ATTEMPTS

ASSUME AliasBounds == MaxAliases \in Nat /\ MaxTries \in Nat /\ IsFiniteSet(AliasFinishes)

VARIABLES
    handle,     \* the alias row: id (0 while the name is free) and owner
    claimed,    \* ids used so far
    pointers,   \* address -> id of the alias it is on (0: none), primary
    releasing,  \* owner -> id its release read (0: none)
    adding,     \* local state of an addAddress
    removing,   \* local state of a removeAddress
    issuing,    \* local state of a startRecovery
    tokens,     \* issue -> alias, status, attempts, whether it was just sent
    finishing,  \* local state of a completeRecovery
    proofs,     \* token -> signatures checked for it
    handed      \* token -> times it moved the handle

alVars == <<handle, claimed, pointers, releasing, adding, removing, issuing, tokens, finishing, proofs, handed>>

NobodysHandle == [id |-> 0, owner |-> "none"]
NoPointer == [id |-> 0, primary |-> FALSE]
NoAliasRequest == [pc |-> "idle", id |-> 0, a |-> "none", primary |-> FALSE]

AliasesInit ==
    /\ handle = NobodysHandle /\ claimed = 0
    /\ pointers = [a \in AliasAddresses |-> NoPointer]
    /\ releasing = [k \in AliasOwners |-> 0]
    /\ adding = [q \in AliasAdds |-> NoAliasRequest]
    /\ removing = [q \in AliasRemoves |-> NoAliasRequest]
    /\ issuing = [i \in AliasIssues |-> [pc |-> "idle", id |-> 0]]
    /\ tokens = [i \in AliasIssues |-> [id |-> 0, status |-> "none", tries |-> 0, fresh |-> FALSE]]
    /\ finishing = [f \in AliasFinishes |-> [pc |-> "idle", id |-> 0, t |-> "none"]]
    /\ proofs = [i \in AliasIssues |-> 0] /\ handed = [i \in AliasIssues |-> 0]

-----------------------------------------------------------------------------
(* claim and release                                                         *)

\* The unique index on the name settles the race; the first address is the default.
Claim(k, a) ==
    /\ handle.id = 0 /\ claimed < MaxAliases
    /\ claimed' = claimed + 1 /\ handle' = [id |-> claimed', owner |-> k]
    /\ pointers' = [pointers EXCEPT ![a] = [id |-> claimed', primary |-> TRUE]]
    /\ UNCHANGED <<releasing, adding, removing, issuing, tokens, finishing, proofs, handed>>

\* requireOwned of release.
ReadsOwnHandle(k) ==
    /\ handle.owner = k /\ releasing[k] = 0
    /\ releasing' = [releasing EXCEPT ![k] = handle.id]
    /\ UNCHANGED <<handle, claimed, pointers, adding, removing, issuing, tokens, finishing, proofs, handed>>

\* delete by id, which takes its addresses and recoveries along.
Release(k) ==
    /\ releasing[k] # 0 /\ releasing' = [releasing EXCEPT ![k] = 0]
    /\ IF handle.id = releasing[k]
       THEN /\ handle' = NobodysHandle
            /\ pointers' = [a \in AliasAddresses |-> NoPointer]
            /\ tokens' = [i \in AliasIssues |-> IF tokens[i].id = handle.id
                             THEN [tokens[i] EXCEPT !.status = "gone"] ELSE tokens[i]]
       ELSE UNCHANGED <<handle, pointers, tokens>>
    /\ UNCHANGED <<claimed, adding, removing, issuing, finishing, proofs, handed>>

-----------------------------------------------------------------------------
(* addAddress, removeAddress                                                 *)

OnChain(id, c) == {a \in AliasAddresses : pointers[a].id = id /\ AliasChain(a) = c}

\* Owned and under the limit; the challenge of the new address is spent.
AddReads(q, a) ==
    /\ adding[q].pc = "idle" /\ handle.id # 0
    /\ adding' = [adding EXCEPT ![q] = [pc |-> "count", id |-> handle.id, a |-> a, primary |-> FALSE]]
    /\ UNCHANGED <<handle, claimed, pointers, releasing, removing, issuing, tokens, finishing, proofs, handed>>

\* The first address on a chain is its default, and so is one that asks to be.
AddCounts(q) ==
    /\ adding[q].pc = "count"
    /\ \E asked \in BOOLEAN :
         adding' = [adding EXCEPT ![q].pc = "insert",
                      ![q].primary = asked \/ OnChain(adding[q].id, AliasChain(adding[q].a)) = {}]
    /\ UNCHANGED <<handle, claimed, pointers, releasing, removing, issuing, tokens, finishing, proofs, handed>>

\* alias_address_one_primary_per_network: on (alias, network), whatever the chain.
PrimaryIndexAllows(id, a, rows) == \A b \in AliasAddresses \ {a} : rows[b].id = id => ~rows[b].primary

\* The transaction: demote the chain's default, insert.  P2002 is "already on this alias".
AddInserts(q) ==
    LET r == adding[q]
        demoted == [b \in AliasAddresses |->
            IF r.primary /\ b \in OnChain(r.id, AliasChain(r.a)) THEN [pointers[b] EXCEPT !.primary = FALSE] ELSE pointers[b]]
        lands == pointers[r.a].id = 0 /\ (r.primary => PrimaryIndexAllows(r.id, r.a, demoted))
    IN
    /\ r.pc = "insert"
    /\ adding' = [adding EXCEPT ![q] = [NoAliasRequest EXCEPT
                    !.pc = IF handle.id # r.id THEN "failed" ELSE IF lands THEN "added"
                           ELSE IF pointers[r.a].id = r.id THEN "duplicate" ELSE "conflict"]]
    /\ pointers' = IF handle.id = r.id /\ lands
                   THEN [demoted EXCEPT ![r.a] = [id |-> r.id, primary |-> r.primary]] ELSE pointers
    /\ UNCHANGED <<handle, claimed, releasing, removing, issuing, tokens, finishing, proofs, handed>>

\* The row, and the count that must be above one.
RemoveReads(q, a) ==
    /\ removing[q].pc = "idle" /\ handle.id # 0 /\ pointers[a].id = handle.id
    /\ Cardinality({b \in AliasAddresses : pointers[b].id = handle.id}) > 1
    /\ removing' = [removing EXCEPT ![q] = [pc |-> "delete", id |-> handle.id, a |-> a, primary |-> pointers[a].primary]]
    /\ UNCHANGED <<handle, claimed, pointers, releasing, adding, issuing, tokens, finishing, proofs, handed>>

\* The transaction: delete, and promote a survivor if the row read was the default.
RemoveDeletes(q) ==
    LET r == removing[q]
        rest == [pointers EXCEPT ![r.a] = NoPointer]
    IN
    /\ r.pc = "delete" /\ removing' = [removing EXCEPT ![q] = [NoAliasRequest EXCEPT !.pc = "done"]]
    /\ IF handle.id = r.id /\ pointers[r.a].id = r.id
       THEN LET left == OnChain(r.id, AliasChain(r.a)) \ {r.a} IN
            IF r.primary /\ left # {}
            THEN \E b \in left : pointers' = IF PrimaryIndexAllows(r.id, b, rest)
                                             THEN [rest EXCEPT ![b].primary = TRUE] ELSE pointers
            ELSE pointers' = rest
       ELSE UNCHANGED pointers
    /\ UNCHANGED <<handle, claimed, releasing, adding, issuing, tokens, finishing, proofs, handed>>

-----------------------------------------------------------------------------
(* issueRecovery                                                             *)

IssueAt(i, pc) == issuing' = [issuing EXCEPT ![i].pc = pc]

\* Nothing to do when one was just sent for the alias.
IssueReads(i) ==
    /\ issuing[i].pc = "idle" /\ handle.id # 0
    /\ ~ \E j \in AliasIssues : tokens[j].id = handle.id /\ tokens[j].fresh /\ tokens[j].status # "gone"
    /\ issuing' = [issuing EXCEPT ![i] = [pc |-> "burn", id |-> handle.id]]
    /\ UNCHANGED <<handle, claimed, pointers, releasing, adding, removing, tokens, finishing, proofs, handed>>

\* Earlier recoveries of the alias are burned.
IssueBurns(i) ==
    /\ issuing[i].pc = "burn" /\ IssueAt(i, "create")
    /\ tokens' = [j \in AliasIssues |-> IF tokens[j].id = issuing[i].id /\ tokens[j].status = "live"
                     THEN [tokens[j] EXCEPT !.status = "spent"] ELSE tokens[j]]
    /\ UNCHANGED <<handle, claimed, pointers, releasing, adding, removing, finishing, proofs, handed>>

IssueCreates(i) ==
    /\ issuing[i].pc = "create" /\ IssueAt(i, "done")
    /\ tokens' = IF handle.id = issuing[i].id
                 THEN [tokens EXCEPT ![i] = [id |-> handle.id, status |-> "live", tries |-> 0, fresh |-> TRUE]]
                 ELSE tokens
    /\ UNCHANGED <<handle, claimed, pointers, releasing, adding, removing, finishing, proofs, handed>>

\* The resend window passes, and then the token's life.
TokenAges(i) ==
    /\ tokens[i].status # "none"
    /\ IF tokens[i].fresh THEN tokens' = [tokens EXCEPT ![i].fresh = FALSE]
       ELSE tokens[i].status = "live" /\ tokens' = [tokens EXCEPT ![i].status = "expired"]
    /\ UNCHANGED <<handle, claimed, pointers, releasing, adding, removing, issuing, finishing, proofs, handed>>

-----------------------------------------------------------------------------
(* completeRecovery                                                          *)

FinishAt(f, pc) == finishing' = [finishing EXCEPT ![f].pc = pc]
FinishEnds(f) == finishing' = [finishing EXCEPT ![f] = [pc |-> "done", id |-> 0, t |-> "none"]]
TokenLive(t) == tokens[t].status = "live" /\ tokens[t].tries < MaxTries

\* The alias, and a live recovery of it under the token presented.  The requests
\* are alike: which one is next does not matter.
CompletionReads(f, t) ==
    /\ finishing[f].pc = "idle" /\ f = CHOOSE g \in AliasFinishes : finishing[g].pc = "idle"
    /\ handle.id # 0 /\ tokens[t].id = handle.id /\ TokenLive(t)
    /\ finishing' = [finishing EXCEPT ![f] = [pc |-> "count", id |-> handle.id, t |-> t]]
    /\ UNCHANGED <<handle, claimed, pointers, releasing, adding, removing, issuing, tokens, proofs, handed>>

CountsAnyway(t) == TRUE
\* The presentation is checked again and counted in one statement.
Counts(t) == TokenLive(t)

FinishCounts(f) ==
    LET t == finishing[f].t IN
    /\ finishing[f].pc = "count"
    /\ IF Counts(t) THEN FinishAt(f, "prove") /\ tokens' = [tokens EXCEPT ![t].tries = @ + 1]
       ELSE FinishEnds(f) /\ UNCHANGED tokens
    /\ UNCHANGED <<handle, claimed, pointers, releasing, adding, removing, issuing, proofs, handed>>

\* The signature of the new address, good or not; its challenge is spent.
FinishProves(f) ==
    /\ finishing[f].pc = "prove" /\ proofs' = [proofs EXCEPT ![finishing[f].t] = @ + 1]
    /\ FinishAt(f, "hand") \/ FinishEnds(f)
    /\ UNCHANGED <<handle, claimed, pointers, releasing, adding, removing, issuing, tokens, handed>>

SpendsAnyway(t) == TRUE
\* The token is spent by the transaction that finds it unspent.
Spends(t) == tokens[t].status \in {"live", "expired"}

\* The transaction: spend the token, drop every address, add the new one, move the handle.
FinishHands(f, k, a) ==
    LET t == finishing[f].t IN
    /\ finishing[f].pc = "hand" /\ FinishEnds(f)
    /\ IF handle.id = finishing[f].id /\ Spends(t)
       THEN /\ tokens' = [tokens EXCEPT ![t].status = "spent"]
            /\ pointers' = [b \in AliasAddresses |-> IF b = a THEN [id |-> handle.id, primary |-> TRUE] ELSE NoPointer]
            /\ handle' = [handle EXCEPT !.owner = k] /\ handed' = [handed EXCEPT ![t] = @ + 1]
       ELSE UNCHANGED <<tokens, pointers, handle, handed>>
    /\ UNCHANGED <<claimed, releasing, adding, removing, issuing, proofs>>

-----------------------------------------------------------------------------
AliasesNext ==
    \/ \E k \in AliasOwners : ReadsOwnHandle(k) \/ Release(k) \/ \E a \in AliasAddresses : Claim(k, a)
    \/ \E q \in AliasAdds : AddCounts(q) \/ AddInserts(q) \/ \E a \in AliasAddresses : AddReads(q, a)
    \/ \E q \in AliasRemoves : RemoveDeletes(q) \/ \E a \in AliasAddresses : RemoveReads(q, a)
    \/ \E i \in AliasIssues : IssueReads(i) \/ IssueBurns(i) \/ IssueCreates(i) \/ TokenAges(i)
    \/ \E f \in AliasFinishes :
         \/ FinishCounts(f) \/ FinishProves(f) \/ \E t \in AliasIssues : CompletionReads(f, t)
         \/ \E k \in AliasOwners, a \in AliasAddresses : FinishHands(f, k, a)

-----------------------------------------------------------------------------
(* Properties                                                                *)

\* However many completions present one recovery token at the same time, it moves the
\* handle at most once (the conditional spend inside completeRecovery's transaction).
TokenHandsOverOnce == \A t \in AliasIssues : handed[t] <= 1

\* However many completions race, at most ALIAS_RECOVERY_MAX_ATTEMPTS signatures are checked
\* under one token: the presentation is counted before its proof, in one statement.
ProofsBounded == \A t \in AliasIssues : proofs[t] <= MaxTries

\* What a recovery token allows, however many requests present it at once.
RecoveryTokenBounded == TokenHandsOverOnce /\ ProofsBounded

\* What addAddress says: an address of another chain is not an alternative of this one's
\* default.  No address that is not on the alias is refused as already on it.
ConflictMeansThere == \A q \in AliasAdds : adding[q].pc # "conflict"

\* What removeAddress says: removing the last address anywhere is not allowed.
KeepsAnAddress == handle.id # 0 => \E a \in AliasAddresses : pointers[a].id = handle.id
=============================================================================
