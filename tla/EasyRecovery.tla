---------------------------- MODULE EasyRecovery ----------------------------
(***************************************************************************)
(* One easy recovery session: EasyRecoveryService and its sweeper.  The    *)
(* new device opens a session, an old one offers a sealed wallet with a    *)
(* code, and whoever sends the right code first takes it.  Codes are       *)
(* compared on a row read earlier; the writes that follow are conditional. *)
(* A request keeps the time it started at.                                 *)
(***************************************************************************)
EXTENDS Integers, FiniteSets

CONSTANTS
    ErOffers,  \* offer requests
    ErClaims,  \* claim requests
    ErMaxWrong \* EASY_RECOVERY_MAX_ATTEMPTS

ASSUME ErBounds == ErMaxWrong \in Nat \ {0}

VARIABLES
    erRow,     \* the session: status (ABSENT, OPEN, OFFERED, CLAIMED, GONE), attempts
    erOver,    \* the five minutes are over
    erOffer,   \* local state of an offer
    erClaim,   \* local state of a claim
    erTaken    \* claims that were handed the sealed wallet

erVars == <<erRow, erOver, erOffer, erClaim, erTaken>>

NoErRow == [status |-> "ABSENT", tries |-> 0]

EasyRecoveryInit ==
    /\ erRow = NoErRow /\ erOver = FALSE
    /\ erOffer = [o \in ErOffers |-> "idle"] /\ erClaim = [c \in ErClaims |-> "idle"]
    /\ erTaken = {}

CreateSession ==
    /\ erRow.status = "ABSENT" /\ erRow' = [erRow EXCEPT !.status = "OPEN"]
    /\ UNCHANGED <<erOver, erOffer, erClaim, erTaken>>

FiveMinutesPass ==
    /\ erRow.status # "ABSENT" /\ ~erOver /\ erOver' = TRUE
    /\ UNCHANGED <<erRow, erOffer, erClaim, erTaken>>

\* isLiveSession, of a row that is there.
ErLive == erRow.status \in {"OPEN", "OFFERED", "CLAIMED"} /\ ~erOver /\ erRow.tries < ErMaxWrong

\* The request takes the time: its writes compare expiresAt with it.
OfferStarts(o) ==
    /\ erOffer[o] = "idle" /\ erRow.status # "ABSENT" /\ ~erOver
    /\ erOffer' = [erOffer EXCEPT ![o] = "write"]
    /\ UNCHANGED <<erRow, erOver, erClaim, erTaken>>

Offer(o) ==
    /\ erOffer[o] = "write" /\ erOffer' = [erOffer EXCEPT ![o] = "done"]
    /\ erRow' = IF erRow.status = "OPEN" THEN [erRow EXCEPT !.status = "OFFERED"] ELSE erRow
    /\ UNCHANGED <<erOver, erClaim, erTaken>>

\* claim reads the row and compares the code with the hash it read.  The requests
\* are alike: which one is next does not matter.
SessionClaimReads(c) ==
    /\ erClaim[c] = "idle" /\ c = CHOOSE d \in ErClaims : erClaim[d] = "idle"
    /\ ErLive /\ erRow.status = "OFFERED"
    /\ \E pc \in {"accept", "refuse"} : erClaim' = [erClaim EXCEPT ![c] = pc]
    /\ UNCHANGED <<erRow, erOver, erOffer, erTaken>>

OfferedAnyTries == erRow.status = "OFFERED"
NotGone == erRow.status \in {"OFFERED", "CLAIMED"} /\ erRow.tries < ErMaxWrong
\* The condition of both updates of a claim.
StillOpen == erRow.status = "OFFERED" /\ erRow.tries < ErMaxWrong

\* The right code: OFFERED to CLAIMED, the ciphertext wiped and handed over.
AcceptCode(c) ==
    /\ erClaim[c] = "accept" /\ erClaim' = [erClaim EXCEPT ![c] = "done"]
    /\ IF StillOpen THEN /\ erRow' = [erRow EXCEPT !.status = "CLAIMED"]
                         /\ erTaken' = erTaken \cup {c}
       ELSE UNCHANGED <<erRow, erTaken>>
    /\ UNCHANGED <<erOver, erOffer>>

\* A wrong code is counted; the request then reads the counter back.
RefuseCode(c) ==
    /\ erClaim[c] = "refuse"
    /\ IF StillOpen THEN /\ erRow' = [erRow EXCEPT !.tries = @ + 1]
                         /\ erClaim' = [erClaim EXCEPT ![c] = "after"]
       ELSE erClaim' = [erClaim EXCEPT ![c] = "done"] /\ UNCHANGED erRow
    /\ UNCHANGED <<erOver, erOffer, erTaken>>

\* The last one allowed deletes the session.
BurnSession(c) ==
    /\ erClaim[c] = "after" /\ erClaim' = [erClaim EXCEPT ![c] = "done"]
    /\ erRow' = IF erRow.tries >= ErMaxWrong THEN [erRow EXCEPT !.status = "GONE"] ELSE erRow
    /\ UNCHANGED <<erOver, erOffer, erTaken>>

SweepsOpen == erOver /\ erRow.status \in {"OPEN", "OFFERED"}
\* The sweeper deletes whatever has expired, claimed or not.
Sweeps == erOver /\ erRow.status \notin {"ABSENT", "GONE"}

SweepSession ==
    /\ Sweeps /\ erRow' = [erRow EXCEPT !.status = "GONE"]
    /\ UNCHANGED <<erOver, erOffer, erClaim, erTaken>>

EasyRecoveryNext ==
    \/ CreateSession \/ FiveMinutesPass \/ SweepSession
    \/ \E o \in ErOffers : OfferStarts(o) \/ Offer(o)
    \/ \E c \in ErClaims : SessionClaimReads(c) \/ AcceptCode(c) \/ RefuseCode(c) \/ BurnSession(c)

\* The clock and the sweeper's ticks.
EasyRecoveryFairness == WF_erVars(FiveMinutesPass) /\ WF_erVars(SweepSession)

-----------------------------------------------------------------------------
(* Properties                                                                *)

\* The session as its owner sees it.
SessionPhase ==
    IF erRow.status = "ABSENT" THEN "none"
    ELSE IF erRow.status = "GONE" THEN "gone"
    ELSE IF erTaken # {} THEN "taken"
    ELSE IF erRow.tries < ErMaxWrong THEN "open" ELSE "shut"

RecoverySession == INSTANCE SingleUse WITH Takers <- ErClaims, phase <- SessionPhase, takers <- erTaken

\* The sealed wallet is handed to one claim, only while fewer wrong codes than the limit
\* were counted, and no row keeps it: however many codes race between their comparison
\* and claim's conditional updates, and whether the session is claimed, burned or left.
SessionSingleUse == RecoverySession!SingleUseSpec
=============================================================================
