----------------------------- MODULE WalletKeys -----------------------------
(***************************************************************************)
(* The end of a sign-in: `finish` keeps the account and its backups and    *)
(* provisions the account's gateway keys.  One account.  The gateway holds *)
(* the consumer's credentials and its forwarder, a map with an entry per   *)
(* credential; they are written by separate calls, and a credential with   *)
(* no entry authenticates with no scopes.  Sign-ins of several devices     *)
(* and the boot-time re-bake of the swap fee read and write the same       *)
(* consumer; a call may fail, and a restart kills what is in flight.       *)
(***************************************************************************)
EXTENDS Integers, FiniteSets

CONSTANTS
    Signers,       \* devices finishing a sign-in, each with its own wallet
    KeyEnvs,       \* KEY_ENVS
    MaxBackups,    \* WALLET_MAX_BACKUPS
    KeyFaults,     \* bound: failed gateway calls
    MaxKeys,       \* bound: keys minted
    MaxRestarts    \* bound: restarts with another fee

ASSUME KeyBounds ==
    IsFiniteSet(KeyEnvs) /\ {MaxBackups, KeyFaults, MaxKeys, MaxRestarts} \subseteq Nat

VARIABLES
    address,   \* wallet_account.address, "none" before the account exists
    boxes,     \* wallets with a wallet_backup row
    creds,     \* the consumer's credentials: <<id, env>>
    keyForwarder, \* the credential ids the forwarder has an entry for, and its fee
    fee,       \* WALLET_KEY_SWAP_FEE_BPS
    ids,       \* keys minted so far
    signer,    \* local state of a finish
    rebake,    \* local state of rebakeSwapFees
    keyFaults, \* faults so far
    overlap    \* whether two writers of the consumer overlapped: "never", "now",
               \* or "past" once a sign-in that ran alone completed

wkVars == <<address, boxes, creds, keyForwarder, fee, ids, signer, rebake, keyFaults, overlap>>

IdleSigner == [pc |-> "idle", new |-> FALSE, seen |-> {}, minted |-> {}, alone |-> FALSE]

WalletKeysInit ==
    /\ address = "none" /\ boxes = {} /\ creds = {}
    /\ keyForwarder = [ids |-> {}, fee |-> 0] /\ fee = 1 /\ ids = 0
    /\ signer = [c \in Signers |-> IdleSigner]
    /\ rebake = [pc |-> "idle", ids |-> {}]
    /\ keyFaults = 0 /\ overlap = "never"

Goes(c, pc) == signer' = [signer EXCEPT ![c].pc = pc]
Busy == {c \in Signers : signer[c].pc \in {"bake", "credential"}}

\* Entering the read-modify-write of the consumer.
Enters(c) ==
    LET crowded == Busy # {} \/ rebake.pc # "idle" IN
    /\ overlap' = IF crowded THEN "now" ELSE overlap
    /\ signer' = [d \in Signers |->
           IF d = c THEN [signer[c] EXCEPT !.pc = "bake", !.alone = ~crowded, !.seen = creds]
           ELSE [signer[d] EXCEPT !.alone = FALSE]]

-----------------------------------------------------------------------------
(* finish                                                                    *)

\* The session and the signature were checked; a new wallet's backup is refused
\* at the limit.
FinishReads(c, backup) ==
    /\ signer[c].pc = "idle"
    /\ backup => c \in boxes \/ Cardinality(boxes) < MaxBackups
    /\ signer' = [signer EXCEPT ![c].pc = IF backup THEN "upsertBox" ELSE "upsert", ![c].new = address = "none"]
    /\ UNCHANGED <<address, boxes, creds, keyForwarder, fee, ids, rebake, keyFaults, overlap>>

\* The account's own wallet moves only with its backup.
UpsertAccount(c) ==
    /\ signer[c].pc \in {"upsertBox", "upsert"}
    /\ address' = IF address = "none" \/ signer[c].pc = "upsertBox" \/ signer[c].new THEN c ELSE address
    /\ Goes(c, IF signer[c].pc = "upsertBox" THEN "box" ELSE "list")
    /\ UNCHANGED <<boxes, creds, keyForwarder, fee, ids, rebake, keyFaults, overlap>>

UpsertBackup(c) ==
    /\ signer[c].pc = "box" /\ boxes' = boxes \cup {c} /\ Goes(c, "list")
    /\ UNCHANGED <<address, creds, keyForwarder, fee, ids, rebake, keyFaults, overlap>>

-----------------------------------------------------------------------------
(* provision                                                                 *)

ListCredentials(c) ==
    /\ signer[c].pc = "list" /\ Enters(c)
    /\ UNCHANGED <<address, boxes, creds, keyForwarder, fee, ids, rebake, keyFaults>>

MintsAll(c) == KeyEnvs
\* A key for every environment that has none; the credential seen is reused.
Mints(c) == {env \in KeyEnvs : \A k \in signer[c].seen : k[2] # env}

OldOnly(c, minted) == {k[1] : k \in signer[c].seen}
\* forwardMap: an entry for every credential it will hold.
ForwardMap(c, minted) == {k[1] : k \in signer[c].seen \cup minted}

\* The consumer first, unless the forwarder already is what it should be.
BakeForwarder(c) ==
    /\ signer[c].pc = "bake" /\ ids + Cardinality(Mints(c)) <= MaxKeys
    /\ \E f \in [Mints(c) -> (ids + 1)..(ids + Cardinality(Mints(c)))] :
         /\ \A x, y \in Mints(c) : x # y => f[x] # f[y]
         /\ LET minted == {<<f[env], env>> : env \in Mints(c)} IN
            /\ keyForwarder' = [ids |-> ForwardMap(c, minted), fee |-> fee]
            /\ signer' = [signer EXCEPT ![c].pc = "credential", ![c].minted = minted]
    /\ ids' = ids + Cardinality(Mints(c))
    /\ UNCHANGED <<address, boxes, creds, fee, rebake, keyFaults, overlap>>

PutCredential(c, k) ==
    /\ signer[c].pc = "credential" /\ k \in signer[c].minted
    /\ creds' = creds \cup {k}
    /\ signer' = [signer EXCEPT ![c].minted = @ \ {k}]
    /\ UNCHANGED <<address, boxes, keyForwarder, fee, ids, rebake, keyFaults, overlap>>

\* The keys go back to the device, which may sign in again later.
Provisioned(c) ==
    /\ signer[c].pc = "credential" /\ signer[c].minted = {}
    /\ overlap' = IF signer[c].alone /\ overlap = "now" THEN "past" ELSE overlap
    /\ signer' = [signer EXCEPT ![c] = IdleSigner]
    /\ UNCHANGED <<address, boxes, creds, keyForwarder, fee, ids, rebake, keyFaults>>

\* A gateway call fails: the sign-in answers "try again shortly".
GatewayFails(c) ==
    /\ signer[c].pc \in {"list", "bake", "credential"} /\ keyFaults < KeyFaults
    /\ keyFaults' = keyFaults + 1
    /\ signer' = [signer EXCEPT ![c] = IdleSigner]
    /\ UNCHANGED <<address, boxes, creds, keyForwarder, fee, ids, rebake, overlap>>

-----------------------------------------------------------------------------
(* A restart with another fee, and the re-bake of onApplicationBootstrap     *)

Restart ==
    /\ fee <= MaxRestarts /\ fee' = fee + 1
    /\ signer' = [c \in Signers |-> IdleSigner]
    /\ rebake' = [pc |-> "list", ids |-> {}]
    /\ UNCHANGED <<address, boxes, creds, keyForwarder, ids, keyFaults, overlap>>

\* A consumer without a forwarder, or whose fee is current, is skipped.
RebakeReads ==
    /\ rebake.pc = "list"
    /\ IF keyForwarder.ids = {} \/ keyForwarder.fee = fee
       THEN rebake' = [pc |-> "idle", ids |-> {}] /\ UNCHANGED <<signer, overlap>>
       ELSE /\ rebake' = [pc |-> "put", ids |-> keyForwarder.ids]
            /\ overlap' = IF Busy # {} THEN "now" ELSE overlap
            /\ signer' = [c \in Signers |-> [signer[c] EXCEPT !.alone = FALSE]]
    /\ UNCHANGED <<address, boxes, creds, keyForwarder, fee, ids, keyFaults>>

RebakeEmpty == [ids |-> {}, fee |-> fee]
\* Only the fee changes, in the map that was read.
Rebaked == [ids |-> rebake.ids, fee |-> fee]

RebakePuts ==
    /\ rebake.pc = "put" /\ rebake' = [pc |-> "idle", ids |-> {}]
    /\ \/ keyForwarder' = Rebaked /\ UNCHANGED keyFaults
       \/ /\ keyFaults < KeyFaults /\ keyFaults' = keyFaults + 1 /\ UNCHANGED keyForwarder
    /\ UNCHANGED <<address, boxes, creds, fee, ids, signer, overlap>>

WalletKeysNext ==
    \/ \E c \in Signers :
         \/ \E backup \in BOOLEAN : FinishReads(c, backup)
         \/ UpsertAccount(c) \/ UpsertBackup(c)
         \/ ListCredentials(c) \/ BakeForwarder(c) \/ Provisioned(c) \/ GatewayFails(c)
         \/ \E k \in signer[c].minted : PutCredential(c, k)
    \/ Restart \/ RebakeReads \/ RebakePuts

-----------------------------------------------------------------------------
\* "a credential that authenticates before its entry exists reaches this service
\* with no scopes at all": through failed calls, restarts, re-bakes and retries
\* every credential has its entry, and the account one key per environment; if
\* sign-ins overlapped, the next one that runs alone puts the entries back.
CredentialForwarded ==
    /\ overlap # "now" => {k[1] : k \in creds} \subseteq keyForwarder.ids
    /\ overlap = "never" => \A k, l \in creds : k[2] = l[2] => k = l

\* The same without the exception: also while sign-ins of two devices overlap.
AlwaysForwarded == {k[1] : k \in creds} \subseteq keyForwarder.ids
=============================================================================
