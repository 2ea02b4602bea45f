---------------------------- MODULE ClaimsProofs ----------------------------
(***************************************************************************)
(* What a request may claim once - a sealed wallet, an emailed code, a     *)
(* sign-in, a private payment, a recovery token, a key per environment -   *)
(* proved for any number of requests in flight, retries and restarts.      *)
(* Each component's theorem is about that component alone; the last one    *)
(* carries them over to the server that runs all of them.                  *)
(***************************************************************************)
EXTENDS MCClaims, FiniteSetTheorems, TLAPS

-----------------------------------------------------------------------------
(***************************************************************************)
(* Easy recovery.  The wallet is handed over by the write that moves the   *)
(* row to CLAIMED, so a row that is still OFFERED was handed to nobody.    *)
(***************************************************************************)

EasyRecoveryInv ==
    /\ erRow \in [status : {"ABSENT", "OPEN", "OFFERED", "CLAIMED", "GONE"}, tries : Nat]
    /\ erRow.status = "ABSENT" => erRow.tries = 0
    /\ erTaken # {} => erRow.status \in {"CLAIMED", "GONE"}
    /\ erRow.status = "CLAIMED" => erTaken # {}

\* The steps of a session, for its owner: each issues it, hands it over, shuts it, forgets
\* it, or changes nothing the owner sees.
LEMMA EasyRecoveryStep ==
    ASSUME EasyRecoveryInv, [EasyRecoveryNext]_erVars
    PROVE  /\ EasyRecoveryInv'
           /\ RecoverySession!SingleUseNext \/ UNCHANGED RecoverySession!suVars
<1> USE ErBounds DEF EasyRecoveryInv
<1>1. CASE UNCHANGED erVars
  BY <1>1 DEF erVars, SessionPhase, RecoverySession!suVars
<1>2. CASE CreateSession
  <2>1. RecoverySession!Issue  BY <1>2 DEF CreateSession, SessionPhase, RecoverySession!Issue
  <2> QED  BY <1>2, <2>1 DEF CreateSession, RecoverySession!SingleUseNext
<1>3. CASE FiveMinutesPass
  BY <1>3 DEF FiveMinutesPass, SessionPhase, RecoverySession!suVars
<1>4. CASE SweepSession
  <2>1. RecoverySession!Forget
    BY <1>4 DEF SweepSession, Sweeps, SessionPhase, RecoverySession!Forget
  <2> QED  BY <1>4, <2>1 DEF SweepSession, Sweeps, RecoverySession!SingleUseNext
<1>5. ASSUME NEW o \in ErOffers, OfferStarts(o) \/ Offer(o)
      PROVE  EasyRecoveryInv' /\ UNCHANGED RecoverySession!suVars
  BY <1>5 DEF OfferStarts, Offer, SessionPhase, RecoverySession!suVars
<1>6. ASSUME NEW c \in ErClaims, SessionClaimReads(c)
      PROVE  EasyRecoveryInv' /\ UNCHANGED RecoverySession!suVars
  BY <1>6 DEF SessionClaimReads, SessionPhase, RecoverySession!suVars
<1>7. ASSUME NEW c \in ErClaims, AcceptCode(c)
      PROVE  EasyRecoveryInv' /\ (RecoverySession!SingleUseNext \/ UNCHANGED RecoverySession!suVars)
  <2>1. CASE StillOpen
    <3>1. erTaken = {} /\ erTaken' = {c} /\ erRow' = [erRow EXCEPT !.status = "CLAIMED"]
      BY <1>7, <2>1 DEF AcceptCode, StillOpen
    <3>2. RecoverySession!Take(c)
      BY <2>1, <3>1 DEF StillOpen, SessionPhase, RecoverySession!Take
    <3> QED  BY <3>1, <3>2 DEF RecoverySession!SingleUseNext
  <2>2. CASE ~StillOpen
    BY <1>7, <2>2 DEF AcceptCode, SessionPhase, RecoverySession!suVars
  <2> QED  BY <2>1, <2>2
<1>8. ASSUME NEW c \in ErClaims, RefuseCode(c)
      PROVE  EasyRecoveryInv' /\ (RecoverySession!SingleUseNext \/ UNCHANGED RecoverySession!suVars)
  <2>1. CASE StillOpen
    <3>1. /\ erRow' = [erRow EXCEPT !.tries = @ + 1] /\ UNCHANGED erTaken
          /\ erRow.status = "OFFERED" /\ erTaken = {} /\ SessionPhase = "open"
      BY <1>8, <2>1 DEF RefuseCode, StillOpen, SessionPhase
    <3>2. SessionPhase' \in {"open", "shut"}  BY <3>1 DEF SessionPhase
    <3>3. RecoverySession!Shut \/ UNCHANGED RecoverySession!suVars
      BY <3>1, <3>2 DEF RecoverySession!Shut, RecoverySession!suVars
    <3> QED  BY <3>1, <3>3 DEF RecoverySession!SingleUseNext
  <2>2. CASE ~StillOpen
    BY <1>8, <2>2 DEF RefuseCode, SessionPhase, RecoverySession!suVars
  <2> QED  BY <2>1, <2>2
<1>9. ASSUME NEW c \in ErClaims, BurnSession(c)
      PROVE  EasyRecoveryInv' /\ (RecoverySession!SingleUseNext \/ UNCHANGED RecoverySession!suVars)
  <2>1. CASE erRow.tries >= ErMaxWrong /\ erRow.status # "GONE"
    <3>1. RecoverySession!Forget
      BY <1>9, <2>1 DEF BurnSession, SessionPhase, RecoverySession!Forget
    <3> QED  BY <1>9, <2>1, <3>1 DEF BurnSession, RecoverySession!SingleUseNext
  <2>2. CASE ~(erRow.tries >= ErMaxWrong /\ erRow.status # "GONE")
    <3>1. UNCHANGED <<erRow, erTaken>>  BY <1>9, <2>2 DEF BurnSession
    <3> QED  BY <3>1 DEF SessionPhase, RecoverySession!suVars
  <2> QED  BY <2>1, <2>2
<1> QED  BY <1>1, <1>2, <1>3, <1>4, <1>5, <1>6, <1>7, <1>8, <1>9 DEF EasyRecoveryNext

\* A session's sealed wallet is handed to one claim, and only while it is open: the part
\* of SessionSingleUse that is not about time, for any number of offers and claims
\* (EasyRecoveryService.claim, its sweeper).
THEOREM SessionHandedOnce ==
    EasyRecoveryInit /\ [][EasyRecoveryNext]_erVars => RecoverySession!SingleUseSafety
<1>1. EasyRecoveryInit => EasyRecoveryInv /\ RecoverySession!SingleUseInit
  BY ErBounds DEF EasyRecoveryInit, EasyRecoveryInv, NoErRow, SessionPhase,
                  RecoverySession!SingleUseInit
<1>2. EasyRecoveryInv /\ [EasyRecoveryNext]_erVars =>
          EasyRecoveryInv' /\ [RecoverySession!SingleUseNext]_(RecoverySession!suVars)
  BY EasyRecoveryStep
<1> QED  BY <1>1, <1>2, PTL DEF RecoverySession!SingleUseSafety

-----------------------------------------------------------------------------
(***************************************************************************)
(* Emailed recovery codes.  The sweeper writes by id; it cannot bring a    *)
(* deleted row back because only the sweeper deletes.                      *)
(***************************************************************************)

RecoveryCodesInv ==
    /\ rcRow \in [status : {"NONE", "PENDING", "LOCKED", "CLAIMED", "EXPIRED", "GONE"},
                  tries : Nat, hash : BOOLEAN]
    /\ rcAnswer \in [RcAnswers -> [pc : {"idle", "right", "wrong", "done"}, read : Nat]]
    /\ rcTokens # {} => rcRow.status \notin {"NONE", "PENDING"}
    /\ rcSweep = "found" => rcRow.status \notin {"NONE", "GONE"}

\* The steps of a code, for its owner.
LEMMA RecoveryCodesStep ==
    ASSUME RecoveryCodesInv, [RecoveryCodesNext]_rcVars
    PROVE  /\ RecoveryCodesInv'
           /\ RecoveryCode!SingleUseNext \/ UNCHANGED RecoveryCode!suVars
<1> USE RcBounds DEF RecoveryCodesInv
<1>1. CASE UNCHANGED rcVars
  BY <1>1 DEF rcVars, RecoveryPhase, RecoveryCode!suVars
<1>2. CASE StartRecoveryEmail
  <2>1. RecoveryCode!Issue  BY <1>2 DEF StartRecoveryEmail, RecoveryPhase, RecoveryCode!Issue
  <2> QED  BY <1>2, <2>1 DEF StartRecoveryEmail, RecoveryCode!SingleUseNext
<1>3. CASE RecoveryClock
  BY <1>3 DEF RecoveryClock, RecoveryPhase, RecoveryCode!suVars
<1>4. CASE SweepFinds
  BY <1>4 DEF SweepFinds, RecoveryPhase, RecoveryCode!suVars
<1>5. CASE SweepExpires
  <2>1. /\ rcRow' = [rcRow EXCEPT !.status = "EXPIRED", !.hash = FALSE]
        /\ rcRow.status \notin {"NONE", "GONE"} /\ rcRow'.status = "EXPIRED"
        /\ UNCHANGED <<rcTokens, rcAnswer>> /\ rcSweep' = "idle"
    BY <1>5 DEF SweepExpires
  <2>2. RecoveryCode!Shut \/ UNCHANGED RecoveryCode!suVars
    BY <2>1 DEF RecoveryPhase, RecoveryCode!Shut, RecoveryCode!suVars
  <2> QED  BY <2>1, <2>2 DEF RecoveryCode!SingleUseNext
<1>6. CASE SweepDeletes
  <2>1. RecoveryCode!Forget
    BY <1>6 DEF SweepDeletes, Deletable, RecoveryPhase, RecoveryCode!Forget
  <2> QED  BY <1>6, <2>1 DEF SweepDeletes, Deletable, RecoveryCode!SingleUseNext
<1>7. ASSUME NEW a \in RcAnswers, CodeAnswerReads(a)
      PROVE  RecoveryCodesInv' /\ UNCHANGED RecoveryCode!suVars
  BY <1>7 DEF CodeAnswerReads, RecoveryPhase, RecoveryCode!suVars
<1>8. ASSUME NEW a \in RcAnswers, WrongAnswer(a)
      PROVE  RecoveryCodesInv' /\ (RecoveryCode!SingleUseNext \/ UNCHANGED RecoveryCode!suVars)
  <2>1. rcAnswer' \in [RcAnswers -> [pc : {"idle", "right", "wrong", "done"}, read : Nat]]
    BY <1>8 DEF WrongAnswer, CodeAnswerDone
  <2>2. CASE rcRow.status = "PENDING"
    <3>1. /\ rcRow' \in [status : {"PENDING", "LOCKED"}, tries : Nat, hash : BOOLEAN]
          /\ UNCHANGED <<rcTokens, rcSweep>>
      <4>1. PICK n \in Nat : n = rcAnswer[a].read + 1  OBVIOUS
      <4>2. \E st \in {"PENDING", "LOCKED"} : rcRow' = [rcRow EXCEPT !.tries = n, !.status = st]
        BY <1>8, <2>2, <4>1 DEF WrongAnswer
      <4> QED  BY <1>8, <4>2 DEF WrongAnswer
    <3>2. RecoveryCode!Shut \/ UNCHANGED RecoveryCode!suVars
      BY <2>2, <3>1 DEF RecoveryPhase, RecoveryCode!Shut, RecoveryCode!suVars
    <3> QED  BY <2>1, <2>2, <3>1, <3>2 DEF RecoveryCode!SingleUseNext
  <2>3. CASE rcRow.status # "PENDING"
    BY <1>8, <2>1, <2>3 DEF WrongAnswer, RecoveryPhase, RecoveryCode!suVars
  <2> QED  BY <2>2, <2>3
<1>9. ASSUME NEW a \in RcAnswers, RightAnswer(a)
      PROVE  RecoveryCodesInv' /\ (RecoveryCode!SingleUseNext \/ UNCHANGED RecoveryCode!suVars)
  <2>1. rcAnswer' \in [RcAnswers -> [pc : {"idle", "right", "wrong", "done"}, read : Nat]]
    BY <1>9 DEF RightAnswer, CodeAnswerDone
  <2>2. CASE AnswerWins(a)
    <3>1. /\ rcRow' = [status |-> "CLAIMED", tries |-> rcAnswer[a].read + 1, hash |-> FALSE]
          /\ rcTokens = {} /\ rcTokens' = {a} /\ UNCHANGED rcSweep
      BY <1>9, <2>2 DEF RightAnswer, AnswerWins
    <3>2. RecoveryCode!Take(a)
      BY <2>2, <3>1 DEF AnswerWins, RecoveryPhase, RecoveryCode!Take
    <3>3. RecoveryCodesInv'  BY <2>1, <3>1
    <3> QED  BY <3>2, <3>3 DEF RecoveryCode!SingleUseNext
  <2>3. CASE ~AnswerWins(a)
    BY <1>9, <2>1, <2>3 DEF RightAnswer, RecoveryPhase, RecoveryCode!suVars
  <2> QED  BY <2>2, <2>3
<1> QED  BY <1>1, <1>2, <1>3, <1>4, <1>5, <1>6, <1>7, <1>8, <1>9 DEF RecoveryCodesNext

\* An emailed code gives one identity token, and only while it is pending: the part of
\* RecoveryCodeSingleUse that is not about time, for any number of answers judged on a
\* stale read (RecoveryService.verifyEmail, the recovery sweeper).
THEOREM CodeGivenOnce ==
    RecoveryCodesInit /\ [][RecoveryCodesNext]_rcVars => RecoveryCode!SingleUseSafety
<1>1. RecoveryCodesInit => RecoveryCodesInv /\ RecoveryCode!SingleUseInit
  BY DEF RecoveryCodesInit, RecoveryCodesInv, RecoveryPhase, RecoveryCode!SingleUseInit
<1>2. RecoveryCodesInv /\ [RecoveryCodesNext]_rcVars =>
          RecoveryCodesInv' /\ [RecoveryCode!SingleUseNext]_(RecoveryCode!suVars)
  BY RecoveryCodesStep
<1> QED  BY <1>1, <1>2, PTL DEF RecoveryCode!SingleUseSafety

-----------------------------------------------------------------------------
(***************************************************************************)
(* The OAuth handshake.  A callback writes only over PENDING and nobody    *)
(* writes PENDING again, so the first identity is the only one; a device   *)
(* in flight carries the row it read, which held it.                       *)
(***************************************************************************)

HandshakeRow ==
    [status : {"ABSENT", "PENDING", "AUTHORIZED", "FAILED", "REDEEMED", "EXPIRED", "GONE"},
     who : Callbacks \cup {NoOne}, verified : BOOLEAN]

HandshakeInv ==
    /\ hs \in HandshakeRow
    /\ device \in [Devices -> [pc : {"idle", "burn", "lookup", "done"}, row : HandshakeRow]]
    /\ hs.status \in {"ABSENT", "PENDING"} =>
         hsFirst = NoOne /\ \A d \in Devices : device[d].pc # "burn"
    /\ hs.status \in {"ABSENT", "PENDING", "AUTHORIZED"} => hsHanded = {}
    /\ hs.status = "AUTHORIZED" => hs.who = hsFirst
    /\ \A d \in Devices : device[d].pc = "burn" => device[d].row.who = hsFirst
    /\ hsHanded = {} \/ \E d \in Devices : hsHanded = {<<d, hsFirst>>}

\* The callbacks: one of them authorizes the handshake.
LEMMA CallbackStep ==
    ASSUME HandshakeInv, NEW b \in Callbacks, CallbackReads(b) \/ CallbackWrites(b)
    PROVE  HandshakeInv'
<1> USE DEF HandshakeInv
<1>1. CASE CallbackReads(b) \/ (CallbackWrites(b) /\ ~CallbackWins(b))
  BY <1>1 DEF CallbackReads, CallbackWrites, hsVars
<1>2. CASE CallbackWrites(b) /\ CallbackWins(b)
  <2>1. hs.status = "PENDING" /\ UNCHANGED <<hsHanded, device>>
    BY <1>2 DEF CallbackWrites, CallbackWins
  <2>2. CASE hs' = [hs EXCEPT !.status = "FAILED"] /\ UNCHANGED hsFirst
    BY <2>1, <2>2 DEF HandshakeRow
  <2>3. ASSUME NEW v \in BOOLEAN, hs' = [status |-> "AUTHORIZED", who |-> b, verified |-> v],
               hsFirst' = b
        PROVE  HandshakeInv'
    BY <2>1, <2>3 DEF HandshakeRow
  <2> QED  BY <1>2, <2>1, <2>2, <2>3 DEF CallbackWrites, Written
<1> QED  BY <1>1, <1>2

\* The devices: one of them burns it.
LEMMA DeviceStep ==
    ASSUME HandshakeInv, NEW d \in Devices,
           StartEmail(d) \/ ClaimReads(d) \/ ClaimBurns(d) \/ ClaimAnswers(d)
    PROVE  HandshakeInv'
<1> USE DEF HandshakeInv
<1>0. NoRow \in HandshakeRow  BY DEF NoRow, HandshakeRow, NoOne
<1>1. CASE StartEmail(d)
  BY <1>1 DEF StartEmail, hsVars
<1>2. CASE ClaimReads(d)
  <2>1. hs.status = "AUTHORIZED" /\ UNCHANGED <<hs, hsFirst, hsHanded>>
    BY <1>2 DEF ClaimReads, hsVars
  <2>2. device' = [device EXCEPT ![d] = [pc |-> "burn", row |-> hs]]  BY <1>2 DEF ClaimReads
  <2> QED  BY <2>1, <2>2
<1>3. CASE ClaimBurns(d) /\ Burns(d)
  <2>1. /\ hs.status = "AUTHORIZED" /\ hs' = [hs EXCEPT !.status = "REDEEMED"] /\ UNCHANGED hsFirst
        /\ device[d].row.who = hsFirst /\ hsHanded' = {<<d, hsFirst>>}
    BY <1>3 DEF ClaimBurns, Burns, Written
  <2>2. device' = [device EXCEPT ![d].pc = "lookup"]  BY <1>3 DEF ClaimBurns
  <2>3. hs' \in HandshakeRow /\ hs'.status = "REDEEMED"  BY <2>1 DEF HandshakeRow
  <2>4. device' \in [Devices -> [pc : {"idle", "burn", "lookup", "done"}, row : HandshakeRow]]
    BY <2>2
  <2>5. \A e \in Devices : device'[e].pc = "burn" => device'[e].row.who = hsFirst'
    BY <2>1, <2>2
  <2> QED  BY <2>1, <2>3, <2>4, <2>5
<1>4. CASE (ClaimBurns(d) /\ ~Burns(d)) \/ ClaimAnswers(d)
  <2>1. UNCHANGED <<hs, hsFirst, hsHanded>> /\ device' = [device EXCEPT ![d] = [pc |-> "done", row |-> NoRow]]
    BY <1>4 DEF ClaimBurns, ClaimAnswers, DeviceDone, hsVars
  <2> QED  BY <1>0, <2>1
<1> QED  BY <1>1, <1>2, <1>3, <1>4

\* Every step of sign-in keeps the invariant, the sweeper's blind update included.
LEMMA WalletSignInStep ==
    ASSUME HandshakeInv, [WalletSignInNext]_siVars
    PROVE  HandshakeInv'
<1> USE DEF HandshakeInv
<1>1. CASE UNCHANGED <<hs, hsFirst, hsHanded, device>>
  BY <1>1
<1>2. CASE StartOauth
  BY <1>2 DEF StartOauth, HandshakeRow
<1>3. CASE SweepStep
  <2>1. CASE SweepReads \/ ExpireLoginCodes
    BY <1>1, <2>1 DEF SweepReads, ExpireLoginCodes, hsVars
  <2>2. CASE ExpireHandshakes
    <3>1. CASE hs' = [hs EXCEPT !.status = "EXPIRED", !.who = NoOne]
      BY <2>2, <3>1 DEF ExpireHandshakes, HandshakeRow
    <3> QED  BY <1>1, <2>2, <3>1 DEF ExpireHandshakes, Written
  <2>3. CASE DeleteSpent
    <3>1. CASE hs' = [NoRow EXCEPT !.status = "GONE"]
      <4>1. hs' \in HandshakeRow /\ hs'.status = "GONE"  BY <3>1 DEF NoRow, HandshakeRow, NoOne
      <4> QED  BY <2>3, <4>1 DEF DeleteSpent
    <3> QED  BY <1>1, <2>3, <3>1 DEF DeleteSpent
  <2> QED  BY <1>3, <2>1, <2>2, <2>3 DEF SweepStep
<1>4. CASE AgeHandshake \/ \E k \in Codes : AgeCode(k)
  BY <1>1, <1>4 DEF AgeHandshake, AgeCode, hsVars
<1>5. CASE \E v \in Answers : (\E k \in Codes : AnswerReads(v, k)) \/ AnswerWrong(v) \/ AnswerRight(v)
  BY <1>1, <1>5 DEF AnswerReads, AnswerWrong, AnswerRight, hsVars
<1> QED  BY <1>1, <1>2, <1>3, <1>4, <1>5, CallbackStep, DeviceStep DEF WalletSignInNext, siVars

\* A handshake is redeemed at most once, and for the identity its first callback wrote:
\* for any number of callbacks, devices and sweeps (handleCallback, claimOauth,
\* expireHandshakes).
THEOREM HandshakeRedeemedOnce ==
    WalletSignInInit /\ [][WalletSignInNext]_siVars => []HandshakeOnce
<1>1. WalletSignInInit => HandshakeInv
  BY DEF WalletSignInInit, HandshakeInv, HandshakeRow, NoRow, NoOne
<1>2. HandshakeInv /\ [WalletSignInNext]_siVars => HandshakeInv'  BY WalletSignInStep
<1>3. HandshakeInv => HandshakeOnce
  <2> SUFFICES ASSUME HandshakeInv PROVE HandshakeOnce  OBVIOUS
  <2>1. CASE hsHanded = {}  BY <2>1, FS_EmptySet DEF HandshakeOnce
  <2>2. ASSUME NEW d, hsHanded = {<<d, hsFirst>>} PROVE HandshakeOnce
    <3>1. Cardinality(hsHanded) = 1  BY <2>2, FS_Singleton
    <3> QED  BY <2>2, <3>1 DEF HandshakeOnce
  <2> QED  BY <2>1, <2>2 DEF HandshakeInv
<1> QED  BY <1>1, <1>2, <1>3, PTL

-----------------------------------------------------------------------------
(***************************************************************************)
(* Private payments.  assertUnused and the verification are done on what   *)
(* was read; a closed transfer does not change any more, and the unique    *)
(* indexes decide at the write.                                            *)
(***************************************************************************)

ZkHash == ZkTxs \cup {NoTx}

\* Every leg the hashes name was paid by a transfer that closed while p was open.
LegsPaid(p, h) ==
    \A leg \in Legs : h[leg] # NoTx =>
        h[leg] \in zkMade /\ p \in zkClosed[h[leg]] /\ ZkPays(h[leg]) = Target(p, leg)

ConfirmKnows(r) ==
    /\ r.pc \notin {"idle", "done"} =>
         r.p \in ZkIds /\ \A leg \in Legs : r.h[leg] # NoTx => r.h[leg] \in zkMade
    /\ r.pc = "claim" => LegsPaid(r.p, r.h)

Confirm ==
    [pc : {"idle", "load", "replay", "claim", "notify", "done"},
     p : ZkIds \cup {0}, h : [Legs -> ZkHash]]

ZkInv ==
    /\ zkStatus \in [ZkIds -> {"ABSENT", "PENDING", "SUCCEEDED"}]
    /\ zkHashes \in [ZkIds -> [Legs -> ZkHash]]
    /\ zkMade \subseteq ZkTxs
    /\ zkClosed \in [ZkTxs -> SUBSET ZkIds]
    /\ zkClient \in [ZkClients -> Confirm]
    /\ \A c \in ZkClients : ConfirmKnows(zkClient[c])
    /\ \A p \in ZkIds : zkStatus[p] = "SUCCEEDED" => LegsPaid(p, zkHashes[p])
    /\ \A p, q \in ZkIds, leg \in Legs :
         p # q /\ zkHashes[p][leg] # NoTx => zkHashes[q][leg] # zkHashes[p][leg]

\* A step that leaves the transfers alone and moves client c on.
LEMMA ConfirmGoes ==
    ASSUME ZkInv, NEW c \in ZkClients, NEW r \in Confirm, ConfirmKnows(r),
           zkClient' = [zkClient EXCEPT ![c] = r],
           UNCHANGED <<zkStatus, zkHashes, zkMade, zkClosed>>
    PROVE  ZkInv'
<1>1. \A p, h : LegsPaid(p, h)' <=> LegsPaid(p, h)  BY DEF LegsPaid
<1>2. ASSUME NEW x, ConfirmKnows(x) PROVE ConfirmKnows(x)'
  BY <1>1, <1>2 DEF ConfirmKnows
<1>3. ASSUME NEW d \in ZkClients PROVE ConfirmKnows(zkClient[d])'
  <2>1. zkClient'[d] = zkClient[d] \/ zkClient'[d] = r  BY DEF ZkInv
  <2>2. ASSUME NEW x, x = zkClient[d] PROVE ConfirmKnows(x)'  BY <1>2, <2>2 DEF ZkInv
  <2> QED  BY <1>2, <2>1, <2>2 DEF ConfirmKnows
<1> QED  BY <1>1, <1>3 DEF ZkInv

\* Rows and transfers that come, and payments that lapse, leave what is known known.
LEMMA ZkWorldStep ==
    ASSUME ZkInv, \/ \E p \in ZkIds : CreateZk(p) \/ LapseZk(p)
                  \/ \E x \in ZkTxs : CloseTransfer(x)
    PROVE  ZkInv'
<1> SUFFICES ASSUME zkMade \subseteq zkMade', \A x \in zkMade : zkClosed'[x] = zkClosed[x],
                    zkMade' \subseteq ZkTxs, zkClosed' \in [ZkTxs -> SUBSET ZkIds],
                    zkStatus' \in [ZkIds -> {"ABSENT", "PENDING", "SUCCEEDED"}],
                    \A p \in ZkIds : zkStatus'[p] = "SUCCEEDED" => zkStatus[p] = "SUCCEEDED",
                    UNCHANGED <<zkHashes, zkClient>>
             PROVE  ZkInv'
  <2>1. ASSUME NEW x \in ZkTxs, CloseTransfer(x)
        PROVE  /\ zkMade \subseteq zkMade' /\ \A y \in zkMade : zkClosed'[y] = zkClosed[y]
               /\ zkMade' \subseteq ZkTxs /\ zkClosed' \in [ZkTxs -> SUBSET ZkIds]
    <3>1. {p \in ZkIds : zkStatus[p] # "ABSENT" /\ p \notin zkLapsed} \in SUBSET ZkIds  OBVIOUS
    <3> QED  BY <2>1, <3>1 DEF CloseTransfer, ZkInv
  <2> QED  BY <2>1 DEF CreateZk, LapseZk, CloseTransfer, ZkInv
<1>1. \A p, h : LegsPaid(p, h) => LegsPaid(p, h)'  BY DEF LegsPaid
<1>2. ASSUME NEW c \in ZkClients PROVE ConfirmKnows(zkClient[c])'
  BY <1>1 DEF ConfirmKnows, ZkInv
<1> QED  BY <1>1, <1>2 DEF ZkInv

\* The steps of a confirm.
LEMMA ConfirmStepKeeps ==
    ASSUME ZkInv, NEW c \in ZkClients, StartConfirm(c) \/ ConfirmStep(c) \/ DieConfirm(c)
    PROVE  ZkInv'
<1> DEFINE p == zkClient[c].p
           h == zkClient[c].h
<1>0. zkClient[c] \in Confirm /\ ConfirmKnows(zkClient[c])  BY DEF ZkInv
<1>1. NoConfirm \in Confirm  BY DEF NoConfirm, Confirm, NoHashes, ZkHash
<1>2. CASE StartConfirm(c)
  <2>1. PICK q \in ZkIds, x \in zkMade, y \in zkMade, z \in zkMade \cup {NoTx} :
            LET k == [payment |-> x, fee |-> y, merchantFee |-> z] IN
            /\ zkStatus[q] # "ABSENT" /\ WellFormed(q, k)
            /\ zkClient' = [zkClient EXCEPT ![c] = [pc |-> "load", p |-> q, h |-> k]]
    BY <1>2 DEF StartConfirm
  <2> DEFINE g == [payment |-> x, fee |-> y, merchantFee |-> z]
             r == [pc |-> "load", p |-> q, h |-> g]
  <2>2. g \in [Legs -> ZkHash] /\ \A leg \in Legs : g[leg] # NoTx => g[leg] \in zkMade
    BY DEF Legs, ZkHash, ZkInv
  <2>3. r \in Confirm /\ ConfirmKnows(r)  BY <2>2 DEF Confirm, ConfirmKnows
  <2> QED  BY <1>2, <2>1, <2>3, ConfirmGoes DEF StartConfirm
<1>3. ASSUME NEW pc \in {"load", "replay", "claim", "notify", "done"}, At(c, pc),
             zkClient[c].pc \notin {"idle", "done"}, pc = "claim" => LegsPaid(p, h),
             UNCHANGED <<zkStatus, zkHashes, zkMade, zkClosed>>
      PROVE  ZkInv'
  <2>1. CASE pc = "done"
    <3> DEFINE r == [NoConfirm EXCEPT !.pc = "done"]
    <3>1. r \in Confirm /\ r.pc = "done"  BY <1>1 DEF Confirm
    <3>2. ConfirmKnows(r)  BY <3>1 DEF ConfirmKnows
    <3> QED  BY <1>3, <2>1, <3>1, <3>2, ConfirmGoes DEF At
  <2>2. CASE pc # "done"
    <3> DEFINE r == [zkClient[c] EXCEPT !.pc = pc]
    <3>1. r \in Confirm /\ r.pc = pc /\ r.p = p /\ r.h = h  BY <1>0 DEF Confirm
    <3>2. ConfirmKnows(r)  BY <1>0, <1>3, <3>1 DEF ConfirmKnows
    <3> QED  BY <1>3, <2>2, <3>1, <3>2, ConfirmGoes DEF At, ZkInv
  <2> QED  BY <2>1, <2>2
<1>4. CASE CheckZk(c)
  <2>1. Verified(p, h) => LegsPaid(p, h)
    BY <1>0, <1>4 DEF CheckZk, Verified, PaysLeg, LegsPaid, ConfirmKnows
  <2>2. \E pc \in {"replay", "claim", "done"} : At(c, pc) /\ (pc = "claim" => LegsPaid(p, h))
    BY <1>4, <2>1 DEF CheckZk
  <2> QED  BY <1>3, <1>4, <2>2 DEF CheckZk
<1>5. CASE ClaimZk(c)
  <2>1. CASE ~(zkStatus[p] = "PENDING" /\ ~HashTaken(p, h))
    <3>1. \E pc \in {"replay", "done"} : At(c, pc)  BY <1>5, <2>1 DEF ClaimZk
    <3> QED  BY <1>3, <1>5, <2>1, <3>1 DEF ClaimZk
  <2>2. CASE zkStatus[p] = "PENDING" /\ ~HashTaken(p, h)
    <3>1. p \in ZkIds /\ LegsPaid(p, h) /\ h \in [Legs -> ZkHash]
      BY <1>0, <1>5 DEF ClaimZk, ConfirmKnows, Confirm
    <3>2. /\ zkStatus' = [zkStatus EXCEPT ![p] = "SUCCEEDED"]
          /\ zkHashes' = [zkHashes EXCEPT ![p] = h] /\ UNCHANGED <<zkMade, zkClosed>>
          /\ zkClient' = [zkClient EXCEPT ![c] = [@ EXCEPT !.pc = "notify"]]
      BY <1>5, <2>2 DEF ClaimZk, At
    <3>3. \A q, g : LegsPaid(q, g)' <=> LegsPaid(q, g)  BY <3>2 DEF LegsPaid
    <3>4. \A q \in ZkIds : zkStatus'[q] = "SUCCEEDED" => LegsPaid(q, zkHashes'[q])
      BY <3>1, <3>2 DEF ZkInv
    <3>5. \A q, s \in ZkIds, leg \in Legs :
             q # s /\ zkHashes'[q][leg] # NoTx => zkHashes'[s][leg] # zkHashes'[q][leg]
      BY <2>2, <3>1, <3>2 DEF ZkInv, HashTaken
    <3>6. \A d \in ZkClients :
             /\ zkClient'[d] \in Confirm
             /\ zkClient'[d].p = zkClient[d].p /\ zkClient'[d].h = zkClient[d].h
             /\ zkClient'[d].pc = zkClient[d].pc \/ (d = c /\ zkClient'[d].pc = "notify")
      BY <3>2 DEF ZkInv, Confirm
    <3>7. ASSUME NEW d \in ZkClients PROVE ConfirmKnows(zkClient[d])'
      <4>1. ConfirmKnows(zkClient[d])  BY DEF ZkInv
      <4>2. d = c => zkClient[d].pc = "claim"  BY <1>5 DEF ClaimZk
      <4> QED  BY <3>2, <3>3, <3>6, <4>1, <4>2 DEF ConfirmKnows
    <3>8. zkClient' \in [ZkClients -> Confirm]  BY <3>2, <3>6 DEF ZkInv
    <3> QED  BY <3>1, <3>2, <3>3, <3>4, <3>5, <3>7, <3>8 DEF ZkInv
  <2> QED  BY <2>1, <2>2
<1>6. CASE NotifyZk(c) \/ DieConfirm(c)
  BY <1>3, <1>6 DEF NotifyZk, DieConfirm
<1> QED  BY <1>2, <1>4, <1>5, <1>6 DEF ConfirmStep

\* A settled private payment was paid while it was open, every leg of it, by transfers no
\* other payment settled with in the same role: for any number of payments, transfers and
\* concurrent confirms, through deaths and retries (ZkPaymentsService.confirm).
THEOREM ZkPaidOnceAlways ==
    ZkPaymentsInit /\ [][ZkPaymentsNext]_zkVars => []ZkPaidOnce
<1>1. ZkPaymentsInit => ZkInv
  BY DEF ZkPaymentsInit, ZkInv, NoConfirm, Confirm, NoHashes, ZkHash, ConfirmKnows
<1>2. ZkInv /\ [ZkPaymentsNext]_zkVars => ZkInv'
  <2> SUFFICES ASSUME ZkInv, [ZkPaymentsNext]_zkVars PROVE ZkInv'  OBVIOUS
  <2>1. CASE UNCHANGED zkVars
    BY <2>1 DEF zkVars, ZkInv, LegsPaid, ConfirmKnows
  <2> QED  BY <2>1, ZkWorldStep, ConfirmStepKeeps DEF ZkPaymentsNext
<1>3. ZkInv => ZkPaidOnce
  BY DEF ZkInv, LegsPaid, ZkPaidOnce
<1> QED  BY <1>1, <1>2, <1>3, PTL

-----------------------------------------------------------------------------
(***************************************************************************)
(* Gateway keys.  Nothing locks the consumer.  What protects it is that a  *)
(* sign-in that runs alone writes the forwarder from the credentials that  *)
(* are there, before it adds any: `alone` must imply that nobody else is   *)
(* between its read and its write.                                         *)
(***************************************************************************)

KeyIds(S) == {k[1] : k \in S}
OneKeyPerEnv(S, T) == \A k \in S, l \in T : k[2] = l[2] => k = l

Signer ==
    [pc : {"idle", "upsertBox", "upsert", "box", "list", "bake", "credential"}, new : BOOLEAN,
     seen : SUBSET (Nat \X KeyEnvs), minted : SUBSET (Nat \X KeyEnvs), alone : BOOLEAN]

KeysType ==
    /\ creds \subseteq Nat \X KeyEnvs
    /\ keyForwarder \in [ids : SUBSET Nat, fee : Nat]
    /\ fee \in Nat /\ ids \in Nat
    /\ signer \in [Signers -> Signer]
    /\ rebake \in [pc : {"idle", "list", "put"}, ids : SUBSET Nat]
    /\ overlap \in {"never", "now", "past"}

\* A sign-in that runs alone knows the credentials, then that each has its entry.
KnowsKeys(c) ==
    /\ Busy = {c} /\ rebake.pc = "idle"
    /\ signer[c].pc = "bake" => signer[c].seen = creds
    /\ signer[c].pc = "credential" =>
         /\ KeyIds(creds) \subseteq keyForwarder.ids
         /\ KeyIds(signer[c].minted) \subseteq keyForwarder.ids
         /\ overlap = "never" => OneKeyPerEnv(signer[c].minted, creds \cup signer[c].minted)

KeysInv ==
    /\ KeysType
    /\ \A c \in Busy : signer[c].alone => KnowsKeys(c)
    /\ overlap # "now" =>
         /\ \A c \in Busy : signer[c].alone
         /\ KeyIds(creds) \subseteq keyForwarder.ids
         /\ rebake.pc = "put" => rebake.ids = keyForwarder.ids
    /\ overlap = "never" => OneKeyPerEnv(creds, creds)

\* A step that leaves the consumer alone and only ends sign-ins, or moves them towards
\* their read, takes nothing away.
LEMMA KeysFrame ==
    ASSUME KeysInv, KeysType', UNCHANGED <<creds, keyForwarder, rebake, overlap>>,
           Busy' \subseteq Busy, \A c \in Busy' : signer'[c] = signer[c]
    PROVE  KeysInv'
<1>1. ASSUME NEW c \in Busy', signer'[c].alone PROVE KnowsKeys(c)'
  <2>1. c \in Busy /\ signer'[c] = signer[c] /\ KnowsKeys(c)  BY <1>1 DEF KeysInv
  <2>2. Busy' = {c}  BY <1>1, <2>1 DEF KnowsKeys
  <2> QED  BY <2>1, <2>2 DEF KnowsKeys, KeyIds, OneKeyPerEnv
<1>2. overlap' # "now" => \A c \in Busy' : signer'[c].alone
  BY DEF KeysInv
<1> QED  BY <1>1, <1>2 DEF KeysInv, KeyIds, OneKeyPerEnv

\* The locals a sign-in writes keep their types.
LEMMA SignerFields ==
    ASSUME NEW r \in Signer
    PROVE  /\ \A pc \in {"upsertBox", "upsert"}, new \in BOOLEAN :
                [r EXCEPT !.pc = pc, !.new = new] \in Signer
           /\ \A m \in SUBSET (Nat \X KeyEnvs) :
                [r EXCEPT !.pc = "credential", !.minted = m] \in Signer
<1>1. ASSUME NEW pc \in {"upsertBox", "upsert"}, NEW new \in BOOLEAN
      PROVE  [r EXCEPT !.pc = pc, !.new = new] \in Signer
  BY DEF Signer
<1>2. ASSUME NEW m \in SUBSET (Nat \X KeyEnvs)
      PROVE  [r EXCEPT !.pc = "credential", !.minted = m] \in Signer
  BY DEF Signer
<1> QED  BY <1>1, <1>2

\* The types of the gateway's consumer and of the sign-ins.
LEMMA KeysTypeStep ==
    ASSUME KeysType, [WalletKeysNext]_wkVars
    PROVE  KeysType'
<1> USE DEF KeysType
<1>0. IdleSigner \in Signer  BY DEF IdleSigner, Signer
<1>1. CASE UNCHANGED wkVars  BY <1>1 DEF wkVars
<1>2. ASSUME NEW c \in Signers, NEW backup \in BOOLEAN, FinishReads(c, backup) PROVE KeysType'
  <2>1. PICK pc \in {"upsertBox", "upsert"}, new \in BOOLEAN :
            signer' = [signer EXCEPT ![c].pc = pc, ![c].new = new]
    BY <1>2, Zenon DEF FinishReads
  <2>2. [signer[c] EXCEPT !.pc = pc, !.new = new] \in Signer  BY SignerFields
  <2>3. signer' \in [Signers -> Signer]  BY <2>1, <2>2
  <2> QED  BY <1>2, <2>3 DEF FinishReads
<1>3. ASSUME NEW c \in Signers, UpsertAccount(c) \/ UpsertBackup(c) PROVE KeysType'
  <2>1. signer' \in [Signers -> Signer]
    BY <1>3 DEF UpsertAccount, UpsertBackup, Goes, Signer
  <2> QED  BY <1>3, <2>1 DEF UpsertAccount, UpsertBackup
<1>4. ASSUME NEW c \in Signers, ListCredentials(c) PROVE KeysType'
  <2>1. \A d \in Signers, b \in BOOLEAN :
          /\ [signer[d] EXCEPT !.alone = FALSE] \in Signer
          /\ [signer[d] EXCEPT !.pc = "bake", !.alone = b, !.seen = creds] \in Signer
    BY DEF Signer
  <2>2. signer' \in [Signers -> Signer] /\ overlap' \in {"never", "now", "past"}
    BY <1>4, <2>1 DEF ListCredentials, Enters
  <2> QED  BY <1>4, <2>2 DEF ListCredentials
<1>5. ASSUME NEW c \in Signers, BakeForwarder(c) PROVE KeysType'
  <2>1. IsFiniteSet(Mints(c)) /\ Cardinality(Mints(c)) \in Nat /\ Mints(c) \subseteq KeyEnvs
    BY KeyBounds, FS_Subset, FS_CardinalityType DEF Mints
  <2>2. PICK f \in [Mints(c) -> (ids + 1)..(ids + Cardinality(Mints(c)))] :
          LET minted == {<<f[env], env>> : env \in Mints(c)} IN
          /\ keyForwarder' = [ids |-> ForwardMap(c, minted), fee |-> fee]
          /\ signer' = [signer EXCEPT ![c].pc = "credential", ![c].minted = minted]
    BY <1>5 DEF BakeForwarder
  <2> DEFINE minted == {<<f[env], env>> : env \in Mints(c)}
  <2>3. \A env \in Mints(c) : f[env] \in Nat  BY <2>1
  <2>4. minted \in SUBSET (Nat \X KeyEnvs)  BY <2>1, <2>3
  <2>5. signer[c].seen \in SUBSET (Nat \X KeyEnvs)  BY DEF Signer
  <2>6. ForwardMap(c, minted) \in SUBSET Nat  BY <2>4, <2>5 DEF ForwardMap
  <2>7. signer' \in [Signers -> Signer]
    <3>1. PICK m \in SUBSET (Nat \X KeyEnvs) :
              signer' = [signer EXCEPT ![c].pc = "credential", ![c].minted = m]
      BY <2>2, <2>4
    <3>2. [signer[c] EXCEPT !.pc = "credential", !.minted = m] \in Signer  BY SignerFields
    <3> QED  BY <3>1, <3>2
  <2>8. keyForwarder' \in [ids : SUBSET Nat, fee : Nat]  BY <2>2, <2>6
  <2>9. ids' \in Nat  BY <1>5, <2>1 DEF BakeForwarder
  <2> QED  BY <1>5, <2>7, <2>8, <2>9 DEF BakeForwarder
<1>6. ASSUME NEW c \in Signers, NEW k \in signer[c].minted, PutCredential(c, k) PROVE KeysType'
  <2>1. k \in Nat \X KeyEnvs /\ signer[c].minted \ {k} \in SUBSET (Nat \X KeyEnvs)
    BY DEF Signer
  <2>2. signer' \in [Signers -> Signer]  BY <1>6, <2>1 DEF PutCredential, Signer
  <2> QED  BY <1>6, <2>1, <2>2 DEF PutCredential
<1>7. ASSUME NEW c \in Signers, Provisioned(c) \/ GatewayFails(c) PROVE KeysType'
  BY <1>0, <1>7 DEF Provisioned, GatewayFails
<1>8. CASE Restart  BY <1>0, <1>8 DEF Restart
<1>9. CASE RebakeReads
  <2>1. \A d \in Signers : [signer[d] EXCEPT !.alone = FALSE] \in Signer  BY DEF Signer
  <2>2. signer' \in [Signers -> Signer]  BY <1>9, <2>1 DEF RebakeReads
  <2>3. rebake' \in [pc : {"idle", "list", "put"}, ids : SUBSET Nat]
    BY <1>9 DEF RebakeReads
  <2> QED  BY <1>9, <2>2, <2>3 DEF RebakeReads
<1>10. CASE RebakePuts  BY <1>10 DEF RebakePuts, Rebaked
<1> QED
  BY <1>1, <1>2, <1>3, <1>4, <1>5, <1>6, <1>7, <1>8, <1>9, <1>10 DEF WalletKeysNext

\* Where one sign-in is not alone, none is, and the overlap is on record.
LEMMA CrowdKnown ==
    ASSUME KeysInv, NEW c \in Busy, ~signer[c].alone
    PROVE  overlap = "now" /\ \A d \in Busy : ~signer[d].alone
<1>1. overlap = "now"  BY DEF KeysInv
<1>2. ASSUME NEW d \in Busy, signer[d].alone PROVE FALSE
  BY <1>2 DEF KeysInv, KnowsKeys
<1> QED  BY <1>1, <1>2

\* While it is on record and nobody is alone, nothing is promised.
LEMMA CrowdKeeps ==
    ASSUME KeysType', overlap' = "now", \A d \in Busy' : ~signer'[d].alone
    PROVE  KeysInv'
BY DEF KeysInv

\* listCredentials: whoever is already at work, or the re-bake, makes it a crowd.
LEMMA ListKeeps ==
    ASSUME KeysInv, KeysType', NEW c \in Signers, ListCredentials(c)
    PROVE  KeysInv'
<1> DEFINE crowded == Busy # {} \/ rebake.pc # "idle"
<1>1. /\ overlap' = IF crowded THEN "now" ELSE overlap
      /\ UNCHANGED <<creds, keyForwarder, rebake>> /\ c \notin Busy
      /\ signer' = [d \in Signers |->
           IF d = c THEN [signer[c] EXCEPT !.pc = "bake", !.alone = ~crowded, !.seen = creds]
           ELSE [signer[d] EXCEPT !.alone = FALSE]]
  BY DEF ListCredentials, Enters, Busy
<1>2. \A d \in Signers \ {c} :
         signer'[d].pc = signer[d].pc /\ signer'[d].alone = FALSE
  <2> SUFFICES ASSUME NEW d \in Signers \ {c}
               PROVE  signer'[d].pc = signer[d].pc /\ signer'[d].alone = FALSE
    OBVIOUS
  <2>1. signer[d] \in Signer  BY DEF KeysInv, KeysType
  <2>2. signer'[d] = [signer[d] EXCEPT !.alone = FALSE]  BY <1>1
  <2> QED  BY <2>1, <2>2 DEF Signer
<1>3. PICK b \in BOOLEAN : b = ~crowded  OBVIOUS
<1>4. signer'[c].pc = "bake" /\ signer'[c].alone = b /\ signer'[c].seen = creds
  <2>1. signer[c] \in Signer  BY DEF KeysInv, KeysType
  <2>2. signer'[c] = [signer[c] EXCEPT !.pc = "bake", !.alone = b, !.seen = creds]  BY <1>1, <1>3
  <2> QED  BY <2>1, <2>2 DEF Signer
<1>5. CASE crowded
  <2>1. \A d \in Busy' : ~signer'[d].alone  BY <1>2, <1>3, <1>4, <1>5 DEF Busy
  <2> QED  BY <1>1, <1>5, <2>1, CrowdKeeps
<1>6. CASE ~crowded
  <2>1. Busy = {} /\ rebake.pc = "idle" /\ overlap' = overlap  BY <1>1, <1>6
  <2>2. Busy' = {c}  BY <1>2, <1>4, <2>1 DEF Busy
  <2>3. KnowsKeys(c)'
    BY <1>1, <1>4, <2>1, <2>2 DEF KnowsKeys
  <2> QED  BY <1>1, <1>3, <1>4, <1>6, <2>1, <2>2, <2>3 DEF KeysInv, KeyIds, OneKeyPerEnv
<1> QED  BY <1>5, <1>6

\* putConsumer: alone, the forwarder gets an entry for every credential there is and for
\* every one that is about to be.
LEMMA BakeKeeps ==
    ASSUME KeysInv, KeysType', NEW c \in Signers, BakeForwarder(c)
    PROVE  KeysInv'
<1>1. PICK f \in [Mints(c) -> (ids + 1)..(ids + Cardinality(Mints(c)))] :
        LET minted == {<<f[env], env>> : env \in Mints(c)} IN
        /\ keyForwarder' = [ids |-> ForwardMap(c, minted), fee |-> fee]
        /\ signer' = [signer EXCEPT ![c].pc = "credential", ![c].minted = minted]
  BY DEF BakeForwarder
<1> DEFINE minted == {<<f[env], env>> : env \in Mints(c)}
<1>2. UNCHANGED <<creds, rebake, overlap>> /\ signer[c].pc = "bake" /\ c \in Busy
  BY DEF BakeForwarder, Busy
<1>3. signer[c] \in Signer  BY DEF KeysInv, KeysType
<1>4. \A d \in Signers \ {c} : signer'[d] = signer[d]  BY <1>1 DEF KeysInv, KeysType
<1>5. /\ signer'[c].pc = "credential" /\ signer'[c].alone = signer[c].alone
      /\ signer'[c].minted = minted
  <2> HIDE DEF minted
  <2>1. signer' = [signer EXCEPT ![c].pc = "credential", ![c].minted = minted]
    BY <1>1 DEF minted
  <2> QED  BY <1>3, <2>1 DEF KeysInv, KeysType, Signer
<1>6. Busy' = Busy  BY <1>2, <1>4, <1>5 DEF Busy
<1>7. CASE ~signer[c].alone
  <2>1. \A d \in Busy' : ~signer'[d].alone  BY <1>2, <1>4, <1>5, <1>6, <1>7, CrowdKnown DEF Busy
  <2> QED  BY <1>2, <1>7, <2>1, CrowdKnown, CrowdKeeps
<1>8. CASE signer[c].alone
  <2>1. KnowsKeys(c) /\ signer[c].seen = creds  BY <1>2, <1>8 DEF KeysInv, KnowsKeys
  <2>2. KeyIds(creds) \subseteq keyForwarder'.ids /\ KeyIds(minted) \subseteq keyForwarder'.ids
    BY <1>1, <2>1 DEF ForwardMap, KeyIds
  <2>3. \A env \in Mints(c), k \in creds : k[2] # env  BY <2>1 DEF Mints
  <2>4. OneKeyPerEnv(minted, creds \cup minted)
    <3> SUFFICES ASSUME NEW k \in minted, NEW l \in creds \cup minted, k[2] = l[2]
                 PROVE  k = l
      BY DEF OneKeyPerEnv
    <3>1. PICK e \in Mints(c) : k = <<f[e], e>>  OBVIOUS
    <3>2. l \notin creds  BY <2>3, <3>1
    <3>3. PICK g \in Mints(c) : l = <<f[g], g>>  BY <3>2
    <3> QED  BY <3>1, <3>3
  <2>5. Busy' = {c} /\ rebake'.pc = "idle"  BY <1>2, <1>6, <2>1 DEF KnowsKeys
  <2> HIDE DEF minted
  <2>6. KnowsKeys(c)'
    BY <1>2, <1>5, <2>2, <2>4, <2>5 DEF KnowsKeys, KeyIds, OneKeyPerEnv
  <2> QED
    BY <1>2, <1>5, <1>8, <2>2, <2>5, <2>6 DEF KeysInv, KeyIds, OneKeyPerEnv
<1> QED  BY <1>7, <1>8

\* createCredential: the entry is there before the credential.
LEMMA PutKeeps ==
    ASSUME KeysInv, KeysType', NEW c \in Signers, NEW k \in signer[c].minted, PutCredential(c, k)
    PROVE  KeysInv'
<1>1. /\ creds' = creds \cup {k} /\ UNCHANGED <<keyForwarder, rebake, overlap>>
      /\ signer[c].pc = "credential" /\ c \in Busy
  BY DEF PutCredential, Busy
<1>2. \A d \in Signers \ {c} : signer'[d] = signer[d]
  BY DEF PutCredential, KeysInv, KeysType
<1>3. /\ signer'[c].pc = "credential" /\ signer'[c].alone = signer[c].alone
      /\ signer'[c].minted = signer[c].minted \ {k}
  BY <1>1 DEF PutCredential, KeysInv, KeysType, Signer
<1>4. Busy' = Busy  BY <1>1, <1>2, <1>3 DEF Busy
<1>5. CASE ~signer[c].alone
  <2>1. \A d \in Busy' : ~signer'[d].alone  BY <1>1, <1>2, <1>3, <1>4, <1>5, CrowdKnown DEF Busy
  <2> QED  BY <1>1, <1>5, <2>1, CrowdKnown, CrowdKeeps
<1>6. CASE signer[c].alone
  <2>1. KnowsKeys(c)  BY <1>1, <1>6 DEF KeysInv
  <2>2. KeyIds(creds') \subseteq keyForwarder'.ids
    BY <1>1, <2>1 DEF KnowsKeys, KeyIds
  <2>3. overlap = "never" =>
          /\ OneKeyPerEnv(creds', creds')
          /\ OneKeyPerEnv(signer'[c].minted, creds' \cup signer'[c].minted)
    BY <1>1, <1>3, <2>1 DEF KeysInv, KnowsKeys, OneKeyPerEnv
  <2>4. Busy' = {c} /\ rebake'.pc = "idle"  BY <1>1, <1>4, <2>1 DEF KnowsKeys
  <2>5. KeyIds(signer'[c].minted) \subseteq keyForwarder'.ids
    BY <1>1, <1>3, <2>1 DEF KnowsKeys, KeyIds
  <2>6. KnowsKeys(c)'
    BY <1>1, <1>3, <2>2, <2>3, <2>4, <2>5 DEF KnowsKeys, KeyIds, OneKeyPerEnv
  <2> QED
    BY <1>1, <1>3, <1>6, <2>2, <2>3, <2>4, <2>6 DEF KeysInv, KeyIds, OneKeyPerEnv
<1> QED  BY <1>5, <1>6

\* A sign-in that was alone to its end leaves every credential with its entry.
LEMMA ProvisionedKeeps ==
    ASSUME KeysInv, KeysType', NEW c \in Signers, Provisioned(c)
    PROVE  KeysInv'
<1>1. /\ UNCHANGED <<creds, keyForwarder, rebake>> /\ signer[c].pc = "credential" /\ c \in Busy
      /\ overlap' = IF signer[c].alone /\ overlap = "now" THEN "past" ELSE overlap
      /\ signer' = [signer EXCEPT ![c] = IdleSigner]
  BY DEF Provisioned, Busy
<1>2. Busy' = Busy \ {c} /\ \A d \in Busy' : signer'[d] = signer[d]
  BY <1>1 DEF KeysInv, KeysType, Busy, IdleSigner
<1>3. CASE overlap' = overlap
  BY <1>1, <1>2, <1>3, KeysFrame
<1>4. CASE signer[c].alone /\ overlap = "now"
  <2>1. KnowsKeys(c)  BY <1>1, <1>4 DEF KeysInv
  <2>2. Busy' = {} /\ overlap' = "past"  BY <1>1, <1>2, <1>4, <2>1 DEF KnowsKeys
  <2> QED  BY <1>1, <2>1, <2>2 DEF KeysInv, KnowsKeys, KeyIds
<1> QED  BY <1>1, <1>3, <1>4

\* rebakeSwapFees: it writes back the map it read, so it must not have been overtaken.
LEMMA RebakeKeeps ==
    ASSUME KeysInv, KeysType', RebakeReads \/ RebakePuts
    PROVE  KeysInv'
<1>1. CASE RebakeReads
  <2>1. /\ UNCHANGED <<creds, keyForwarder>> /\ rebake.pc = "list"
        /\ \A c \in Busy : ~signer[c].alone
    BY <1>1 DEF RebakeReads, KeysInv, KnowsKeys
  <2>2. CASE rebake' = [pc |-> "idle", ids |-> {}] /\ UNCHANGED <<signer, overlap>>
    <3>1. Busy' = Busy  BY <2>2 DEF Busy
    <3> QED  BY <2>1, <2>2, <3>1 DEF KeysInv, KeyIds, OneKeyPerEnv
  <2>3. CASE /\ rebake' = [pc |-> "put", ids |-> keyForwarder.ids]
             /\ overlap' = IF Busy # {} THEN "now" ELSE overlap
             /\ signer' = [c \in Signers |-> [signer[c] EXCEPT !.alone = FALSE]]
    <3>1. \A c \in Signers : signer'[c].pc = signer[c].pc /\ signer'[c].alone = FALSE
      BY <2>3 DEF KeysInv, KeysType, Signer
    <3>2. Busy' = Busy  BY <3>1 DEF Busy
    <3>3. CASE Busy # {}
      BY <2>3, <3>1, <3>2, <3>3, CrowdKeeps DEF Busy
    <3>4. CASE Busy = {}
      BY <2>1, <2>3, <3>2, <3>4 DEF KeysInv, KeyIds, OneKeyPerEnv
    <3> QED  BY <3>3, <3>4
  <2> QED  BY <1>1, <2>2, <2>3 DEF RebakeReads
<1>2. CASE RebakePuts
  <2>1. /\ UNCHANGED <<creds, signer, overlap>> /\ rebake.pc = "put" /\ rebake'.pc = "idle"
        /\ keyForwarder' = keyForwarder \/ keyForwarder'.ids = rebake.ids
    BY <1>2 DEF RebakePuts, Rebaked
  <2>2. Busy' = Busy /\ \A c \in Busy : ~signer[c].alone
    BY <2>1 DEF Busy, KeysInv, KnowsKeys
  <2> QED  BY <2>1, <2>2 DEF KeysInv, KeyIds, OneKeyPerEnv
<1> QED  BY <1>1, <1>2

\* Every step of a sign-in, a restart and the re-bake keeps the invariant.
LEMMA WalletKeysStep ==
    ASSUME KeysInv, [WalletKeysNext]_wkVars
    PROVE  KeysInv'
<1>0. KeysType'  BY KeysTypeStep DEF KeysInv
<1>1. CASE UNCHANGED wkVars
  BY <1>0, <1>1, KeysFrame DEF wkVars, Busy
<1>2. ASSUME NEW c \in Signers,
             \/ \E backup \in BOOLEAN : FinishReads(c, backup)
             \/ UpsertAccount(c) \/ UpsertBackup(c) \/ GatewayFails(c)
      PROVE  KeysInv'
  <2>1. UNCHANGED <<creds, keyForwarder, rebake, overlap>>
    BY <1>2 DEF FinishReads, UpsertAccount, UpsertBackup, GatewayFails
  <2>2. \A d \in Signers \ {c} : signer'[d] = signer[d]
    BY <1>2 DEF FinishReads, UpsertAccount, UpsertBackup, GatewayFails, Goes, KeysInv, KeysType
  <2>3. signer'[c].pc \notin {"bake", "credential"}
    <3>0. signer \in [Signers -> Signer]  BY DEF KeysInv, KeysType
    <3>1. ASSUME NEW backup \in BOOLEAN, FinishReads(c, backup)
          PROVE  signer'[c].pc \notin {"bake", "credential"}
      <4>1. PICK pc \in {"upsertBox", "upsert"}, new \in BOOLEAN :
                signer' = [signer EXCEPT ![c].pc = pc, ![c].new = new]
        BY <3>1, Zenon DEF FinishReads
      <4> QED  BY <3>0, <4>1 DEF Signer
    <3>2. CASE UpsertAccount(c) \/ UpsertBackup(c)
      BY <3>0, <3>2 DEF UpsertAccount, UpsertBackup, Goes, Signer
    <3>3. CASE GatewayFails(c)
      BY <3>0, <3>3 DEF GatewayFails, IdleSigner
    <3> QED  BY <1>2, <3>1, <3>2, <3>3
  <2> QED  BY <1>0, <2>1, <2>2, <2>3, KeysFrame DEF Busy
<1>3. CASE Restart
  <2>1. Busy' = {}  BY <1>3 DEF Restart, Busy, IdleSigner
  <2>2. /\ UNCHANGED <<creds, keyForwarder, overlap>> /\ rebake'.pc = "list"
    BY <1>3 DEF Restart
  <2> QED  BY <1>0, <2>1, <2>2 DEF KeysInv, KeyIds, OneKeyPerEnv
<1> QED
  BY <1>0, <1>1, <1>2, <1>3, ListKeeps, BakeKeeps, PutKeeps, ProvisionedKeeps, RebakeKeeps
     DEF WalletKeysNext

\* Every credential of the account has its entry in the forwarder unless sign-ins overlap,
\* and a sign-in that then runs alone puts back what was lost: for any number of devices,
\* environments, failed calls, restarts and re-bakes (WalletKeysService.provision,
\* rebakeSwapFees).
THEOREM KeysForwarded ==
    WalletKeysInit /\ [][WalletKeysNext]_wkVars => []CredentialForwarded
<1>1. WalletKeysInit => KeysInv
  BY DEF WalletKeysInit, KeysInv, KeysType, IdleSigner, Signer, Busy, KeyIds, OneKeyPerEnv
<1>2. KeysInv /\ [WalletKeysNext]_wkVars => KeysInv'
  BY WalletKeysStep
<1>3. KeysInv => CredentialForwarded
  BY DEF KeysInv, KeyIds, OneKeyPerEnv, CredentialForwarded
<1> QED  BY <1>1, <1>2, <1>3, PTL

-----------------------------------------------------------------------------
(***************************************************************************)
(* Recovery tokens of aliases.  A presentation is counted before it is     *)
(* proved: the proofs made and the ones under way never exceed the count.  *)
(* A token that moved the handle stays spent, because a token is created   *)
(* once.                                                                   *)
(***************************************************************************)

AliasToken ==
    [id : Nat, status : {"none", "live", "spent", "expired", "gone"}, tries : Nat, fresh : BOOLEAN]
Completion ==
    [pc : {"idle", "count", "prove", "hand", "done"}, id : Nat, t : AliasIssues \cup {"none"}]

\* Completions between counting a presentation of t and checking its proof.
Proving(t) == {f \in AliasFinishes : finishing[f].pc = "prove" /\ finishing[f].t = t}

AliasType ==
    /\ handle \in [id : Nat, owner : AliasOwners \cup {"none"}] /\ claimed \in Nat
    /\ issuing \in [AliasIssues -> [pc : {"idle", "burn", "create", "done"}, id : Nat]]
    /\ tokens \in [AliasIssues -> AliasToken]
    /\ finishing \in [AliasFinishes -> Completion]
    /\ proofs \in [AliasIssues -> Nat] /\ handed \in [AliasIssues -> Nat]

TokenKnown(f) ==
    finishing[f].pc \in {"count", "prove", "hand"} =>
        finishing[f].t \in AliasIssues /\ tokens[finishing[f].t].status # "none"

TokenCounted(t) ==
    /\ issuing[t].pc # "done" => tokens[t].status = "none"
    /\ tokens[t].status = "none" => tokens[t].id = 0 /\ proofs[t] = 0 /\ handed[t] = 0
    /\ tokens[t].tries <= MaxTries
    /\ proofs[t] + Cardinality(Proving(t)) <= tokens[t].tries
    /\ handed[t] <= 1
    /\ handed[t] = 1 => tokens[t].status \in {"spent", "gone"}

AliasInv ==
    /\ AliasType
    /\ \A f \in AliasFinishes : TokenKnown(f)
    /\ \A t \in AliasIssues : TokenCounted(t)

\* How many completions prove a token: finitely many, and a completion joins or leaves.
LEMMA ProvingCounts ==
    ASSUME NEW t
    PROVE  /\ IsFiniteSet(Proving(t)) /\ Cardinality(Proving(t)) \in Nat
           /\ \A f : Cardinality(Proving(t) \cup {f}) =
                       IF f \in Proving(t) THEN Cardinality(Proving(t)) ELSE Cardinality(Proving(t)) + 1
           /\ \A f : Cardinality(Proving(t) \ {f}) =
                       IF f \in Proving(t) THEN Cardinality(Proving(t)) - 1 ELSE Cardinality(Proving(t))
<1>1. IsFiniteSet(Proving(t))  BY AliasBounds, FS_Subset DEF Proving
<1> QED  BY <1>1, FS_CardinalityType, FS_AddElement, FS_RemoveElement

\* Steps of the owner's side: no token changes, no completion moves.
LEMMA AliasFrame ==
    ASSUME AliasInv, handle' \in [id : Nat, owner : AliasOwners \cup {"none"}], claimed' \in Nat,
           UNCHANGED <<issuing, tokens, finishing, proofs, handed>>
    PROVE  AliasInv'
<1>1. \A t : Proving(t)' = Proving(t)  BY DEF Proving
<1> QED  BY <1>1 DEF AliasInv, AliasType, TokenKnown, TokenCounted

\* A step that only spends, expires, removes or ages tokens.
LEMMA TokensFade ==
    ASSUME AliasInv, handle' \in [id : Nat, owner : AliasOwners \cup {"none"}], UNCHANGED claimed,
           UNCHANGED <<finishing, proofs, handed>>,
           issuing' \in [AliasIssues -> [pc : {"idle", "burn", "create", "done"}, id : Nat]],
           tokens' \in [AliasIssues -> AliasToken],
           \A t \in AliasIssues :
              /\ issuing'[t].pc = "done" <=> issuing[t].pc = "done"
              /\ tokens'[t].id = tokens[t].id /\ tokens'[t].tries = tokens[t].tries
              /\ tokens'[t].status = "none" <=> tokens[t].status = "none"
              /\ tokens[t].status \in {"spent", "gone"} => tokens'[t].status \in {"spent", "gone"}
    PROVE  AliasInv'
<1>1. \A t : Proving(t)' = Proving(t)  BY DEF Proving
<1>2. ASSUME NEW t \in AliasIssues PROVE TokenCounted(t)'
  BY <1>1 DEF AliasInv, TokenCounted
<1>3. ASSUME NEW f \in AliasFinishes PROVE TokenKnown(f)'
  BY DEF AliasInv, TokenKnown
<1> QED  BY <1>2, <1>3 DEF AliasInv, AliasType

\* startRecovery, the clock and release.
LEMMA IssueKeeps ==
    ASSUME AliasInv, NEW i \in AliasIssues,
           IssueReads(i) \/ IssueBurns(i) \/ IssueCreates(i) \/ TokenAges(i)
    PROVE  AliasInv'
<1> USE DEF AliasInv, AliasType
<1>1. CASE IssueReads(i)
  BY <1>1, TokensFade DEF IssueReads
<1>2. CASE IssueBurns(i)
  <2>1. \A t \in AliasIssues : tokens'[t] =
          IF tokens[t].id = issuing[i].id /\ tokens[t].status = "live"
          THEN [tokens[t] EXCEPT !.status = "spent"] ELSE tokens[t]
    BY <1>2 DEF IssueBurns
  <2>2. tokens' \in [AliasIssues -> AliasToken]
    <3>1. ASSUME NEW t \in AliasIssues PROVE tokens'[t] \in AliasToken
      <4>1. tokens[t] \in AliasToken  OBVIOUS
      <4>2. [tokens[t] EXCEPT !.status = "spent"] \in AliasToken  BY <4>1 DEF AliasToken
      <4> QED  BY <2>1, <4>1, <4>2
    <3>2. tokens' = [t \in AliasIssues |-> tokens'[t]]  BY <1>2 DEF IssueBurns
    <3> QED  BY <3>1, <3>2
  <2>3. ASSUME NEW t \in AliasIssues
        PROVE  /\ tokens'[t].id = tokens[t].id /\ tokens'[t].tries = tokens[t].tries
               /\ tokens'[t].status = "none" <=> tokens[t].status = "none"
               /\ tokens[t].status \in {"spent", "gone"} => tokens'[t].status \in {"spent", "gone"}
    <3>1. tokens[t] \in AliasToken  OBVIOUS
    <3>2. tokens'[t] = tokens[t] \/ (tokens[t].status = "live" /\ tokens'[t] = [tokens[t] EXCEPT !.status = "spent"])
      BY <2>1
    <3> QED  BY <3>1, <3>2 DEF AliasToken
  <2>4. issuing' = [issuing EXCEPT ![i].pc = "create"] /\ issuing[i].pc = "burn"
    BY <1>2 DEF IssueBurns, IssueAt
  <2> QED  BY <1>2, <2>2, <2>3, <2>4, TokensFade DEF IssueBurns
<1>3. CASE IssueCreates(i)
  <2>1. /\ issuing[i].pc = "create" /\ issuing' = [issuing EXCEPT ![i].pc = "done"]
        /\ UNCHANGED <<handle, claimed, finishing, proofs, handed>>
    BY <1>3 DEF IssueCreates, IssueAt
  <2>2. \A t : Proving(t)' = Proving(t)  BY <2>1 DEF Proving
  <2>3. tokens[i].status = "none" /\ Proving(i) = {} /\ proofs[i] = 0 /\ handed[i] = 0
    <3>1. tokens[i].status = "none" /\ proofs[i] = 0 /\ handed[i] = 0  BY <2>1 DEF TokenCounted
    <3>2. \A f \in AliasFinishes : finishing[f].pc = "prove" => finishing[f].t # i
      BY <3>1 DEF TokenKnown
    <3> QED  BY <3>1, <3>2 DEF Proving
  <2>4. CASE tokens' = tokens
    BY <2>1, <2>2, <2>4 DEF TokenCounted, TokenKnown
  <2>5. CASE tokens' = [tokens EXCEPT ![i] = [id |-> handle.id, status |-> "live", tries |-> 0, fresh |-> TRUE]]
    <3>1. tokens' \in [AliasIssues -> AliasToken]  BY <2>5 DEF AliasToken
    <3>2. TokenCounted(i)'
      <4>1. /\ tokens'[i] = [id |-> handle.id, status |-> "live", tries |-> 0, fresh |-> TRUE]
            /\ proofs'[i] = 0 /\ handed'[i] = 0 /\ issuing'[i].pc = "done"
        BY <2>1, <2>3, <2>5
      <4>2. Cardinality(Proving(i)') = 0  BY <2>2, <2>3, FS_EmptySet
      <4> QED  BY <4>1, <4>2, AliasBounds DEF TokenCounted
    <3>3. ASSUME NEW t \in AliasIssues \ {i} PROVE TokenCounted(t)'
      BY <2>1, <2>2, <2>5 DEF TokenCounted
    <3>4. ASSUME NEW f \in AliasFinishes PROVE TokenKnown(f)'
      BY <2>1, <2>5 DEF TokenKnown
    <3> QED  BY <2>1, <3>1, <3>2, <3>3, <3>4
  <2> QED  BY <1>3, <2>4, <2>5 DEF IssueCreates
<1>4. CASE TokenAges(i)
  <2>1. /\ tokens[i] \in AliasToken /\ tokens[i].status # "none"
        /\ \/ tokens' = [tokens EXCEPT ![i].fresh = FALSE]
           \/ tokens[i].status = "live" /\ tokens' = [tokens EXCEPT ![i].status = "expired"]
    BY <1>4 DEF TokenAges
  <2>2. PICK r \in AliasToken :
          /\ tokens' = [tokens EXCEPT ![i] = r] /\ r.id = tokens[i].id /\ r.tries = tokens[i].tries
          /\ r.status = tokens[i].status \/ (tokens[i].status = "live" /\ r.status = "expired")
    <3>1. CASE tokens' = [tokens EXCEPT ![i].fresh = FALSE]
      <4> DEFINE r == [tokens[i] EXCEPT !.fresh = FALSE]
      <4>1. r \in AliasToken /\ r.id = tokens[i].id /\ r.tries = tokens[i].tries
            /\ r.status = tokens[i].status
        BY <2>1 DEF AliasToken
      <4> QED  BY <3>1, <4>1
    <3>2. CASE tokens[i].status = "live" /\ tokens' = [tokens EXCEPT ![i].status = "expired"]
      <4> DEFINE r == [tokens[i] EXCEPT !.status = "expired"]
      <4>1. r \in AliasToken /\ r.id = tokens[i].id /\ r.tries = tokens[i].tries
            /\ r.status = "expired"
        BY <2>1 DEF AliasToken
      <4> QED  BY <3>2, <4>1
    <3> QED  BY <2>1, <3>1, <3>2
  <2>3. /\ tokens' \in [AliasIssues -> AliasToken]
        /\ \A t \in AliasIssues :
              /\ tokens'[t].id = tokens[t].id /\ tokens'[t].tries = tokens[t].tries
              /\ tokens'[t].status = "none" <=> tokens[t].status = "none"
              /\ tokens[t].status \in {"spent", "gone"} => tokens'[t].status \in {"spent", "gone"}
    BY <2>1, <2>2
  <2> QED  BY <1>4, <2>3, TokensFade DEF TokenAges
<1> QED  BY <1>1, <1>2, <1>3, <1>4

\* Release takes the alias's tokens along; an alias id is never 0.
LEMMA ReleaseKeeps ==
    ASSUME AliasInv, NEW k \in AliasOwners, Release(k)
    PROVE  AliasInv'
<1>1. CASE handle.id # releasing[k]
  BY <1>1, AliasFrame DEF Release, AliasInv, AliasType
<1>2. CASE handle.id = releasing[k]
  <2>1. /\ handle.id # 0 /\ handle' = NobodysHandle
        /\ UNCHANGED <<claimed, issuing, finishing, proofs, handed>>
        /\ tokens' = [i \in AliasIssues |-> IF tokens[i].id = handle.id
                        THEN [tokens[i] EXCEPT !.status = "gone"] ELSE tokens[i]]
    BY <1>2 DEF Release
  <2>2. ASSUME NEW t \in AliasIssues
        PROVE  /\ tokens'[t] \in AliasToken
               /\ tokens'[t].id = tokens[t].id /\ tokens'[t].tries = tokens[t].tries
               /\ tokens'[t].status = "none" <=> tokens[t].status = "none"
               /\ tokens[t].status \in {"spent", "gone"} => tokens'[t].status \in {"spent", "gone"}
    <3>1. tokens[t] \in AliasToken /\ (tokens[t].status = "none" => tokens[t].id = 0)
      BY DEF AliasInv, AliasType, TokenCounted
    <3>2. \/ tokens'[t] = tokens[t]
          \/ tokens[t].id = handle.id /\ tokens'[t] = [tokens[t] EXCEPT !.status = "gone"]
      BY <2>1
    <3> QED  BY <2>1, <3>1, <3>2 DEF AliasToken
  <2>3. tokens' \in [AliasIssues -> AliasToken]  BY <2>1, <2>2
  <2>4. handle' \in [id : Nat, owner : AliasOwners \cup {"none"}]  BY <2>1 DEF NobodysHandle
  <2> QED  BY <2>1, <2>2, <2>3, <2>4, TokensFade DEF AliasInv, AliasType
<1> QED  BY <1>1, <1>2

\* A completion that stays out of its proof.
LEMMA CompletionGoes ==
    ASSUME AliasInv, NEW f \in AliasFinishes, NEW r \in Completion,
           finishing[f].pc # "prove", r.pc # "prove",
           r.pc \in {"count", "hand"} => r.t \in AliasIssues /\ tokens[r.t].status # "none",
           finishing' = [finishing EXCEPT ![f] = r],
           UNCHANGED <<handle, claimed, issuing, tokens, proofs, handed>>
    PROVE  AliasInv'
<1>1. \A t : Proving(t)' = Proving(t)  BY DEF Proving, AliasInv, AliasType, Completion
<1>2. finishing' \in [AliasFinishes -> Completion]  BY DEF AliasInv, AliasType
<1>3. ASSUME NEW g \in AliasFinishes PROVE TokenKnown(g)'
  BY DEF AliasInv, AliasType, Completion, TokenKnown
<1> QED  BY <1>1, <1>2, <1>3 DEF AliasInv, AliasType, TokenCounted

\* completeRecovery: the presentation is counted, then proved, then the handle moves.
LEMMA CompletionKeeps ==
    ASSUME AliasInv, NEW f \in AliasFinishes,
           \/ FinishCounts(f) \/ FinishProves(f) \/ \E t \in AliasIssues : CompletionReads(f, t)
           \/ \E k \in AliasOwners, a \in AliasAddresses : FinishHands(f, k, a)
    PROVE  AliasInv'
<1> DEFINE ended == [pc |-> "done", id |-> 0, t |-> "none"]
<1>0. /\ finishing[f] \in Completion /\ ended \in Completion /\ TokenKnown(f)
      /\ finishing \in [AliasFinishes -> Completion]
  BY DEF AliasInv, AliasType, Completion
<1>1. ASSUME NEW t \in AliasIssues, CompletionReads(f, t) PROVE AliasInv'
  <2> DEFINE r == [pc |-> "count", id |-> handle.id, t |-> t]
  <2>1. r \in Completion /\ finishing[f].pc = "idle" /\ tokens[t].status = "live"
        /\ finishing' = [finishing EXCEPT ![f] = r]
    BY <1>1 DEF CompletionReads, Completion, AliasInv, AliasType, TokenLive
  <2> QED  BY <1>1, <2>1, CompletionGoes DEF CompletionReads
<1>2. CASE FinishCounts(f)
  <2>1. PICK t \in AliasIssues : t = finishing[f].t /\ finishing[f].pc = "count"
    BY <1>0, <1>2 DEF FinishCounts, TokenKnown
  <2>2. CASE ~Counts(t)
    BY <1>0, <1>2, <2>1, <2>2, CompletionGoes DEF FinishCounts, FinishEnds
  <2>3. CASE Counts(t)
    <3>1. /\ finishing' = [finishing EXCEPT ![f].pc = "prove"]
          /\ tokens' = [tokens EXCEPT ![t].tries = @ + 1]
          /\ UNCHANGED <<handle, claimed, issuing, proofs, handed>>
      BY <1>2, <2>1, <2>3 DEF FinishCounts, FinishAt
    <3>2. /\ tokens[t] \in AliasToken /\ tokens[t].status = "live" /\ tokens[t].tries < MaxTries
          /\ tokens' \in [AliasIssues -> AliasToken]
      BY <2>3, <3>1 DEF Counts, TokenLive, AliasInv, AliasType, AliasToken
    <3>3. /\ tokens'[t].tries = tokens[t].tries + 1 /\ tokens'[t].status = tokens[t].status
          /\ \A s \in AliasIssues \ {t} : tokens'[s] = tokens[s]
      BY <3>1, <3>2 DEF AliasInv, AliasType, AliasToken
    <3>4. Proving(t)' = Proving(t) \cup {f} /\ \A s \in AliasIssues \ {t} : Proving(s)' = Proving(s)
      BY <1>0, <2>1, <3>1 DEF Proving, Completion
    <3>5. TokenCounted(t)'
      <4>1. f \notin Proving(t)  BY <2>1 DEF Proving
      <4>2. Cardinality(Proving(t)') = Cardinality(Proving(t)) + 1 /\ Cardinality(Proving(t)) \in Nat
        BY <3>4, <4>1, ProvingCounts
      <4>3. /\ TokenCounted(t) /\ tokens[t].tries \in Nat /\ proofs[t] \in Nat /\ handed[t] \in Nat
        BY DEF AliasInv, AliasType, AliasToken
      <4> QED  BY <3>1, <3>2, <3>3, <4>2, <4>3, AliasBounds DEF TokenCounted
    <3>6. ASSUME NEW s \in AliasIssues \ {t} PROVE TokenCounted(s)'
      BY <3>1, <3>3, <3>4 DEF AliasInv, TokenCounted
    <3>7. ASSUME NEW g \in AliasFinishes PROVE TokenKnown(g)'
      <4>1. TokenKnown(g) /\ finishing'[g].t = finishing[g].t /\ (g # f => finishing'[g] = finishing[g])
        BY <1>0, <3>1 DEF AliasInv, Completion
      <4> QED  BY <2>1, <3>2, <3>3, <4>1 DEF TokenKnown
    <3>8. finishing' \in [AliasFinishes -> Completion]  BY <1>0, <3>1 DEF Completion
    <3> QED  BY <3>1, <3>2, <3>5, <3>6, <3>7, <3>8 DEF AliasInv, AliasType
  <2> QED  BY <2>2, <2>3
<1>3. CASE FinishProves(f)
  <2>1. PICK t \in AliasIssues : t = finishing[f].t /\ finishing[f].pc = "prove"
    BY <1>0, <1>3 DEF FinishProves, TokenKnown
  <2>2. /\ proofs' = [proofs EXCEPT ![t] = @ + 1]
        /\ UNCHANGED <<handle, claimed, issuing, tokens, handed>>
    BY <1>3, <2>1 DEF FinishProves
  <2>3. PICK r \in Completion :
          /\ finishing' = [finishing EXCEPT ![f] = r] /\ r.pc \in {"hand", "done"}
          /\ r.pc = "hand" => r.t = t
    <3>1. CASE FinishEnds(f)  BY <1>0, <3>1 DEF FinishEnds
    <3>2. CASE FinishAt(f, "hand")
      <4>1. [finishing[f] EXCEPT !.pc = "hand"] \in Completion
            /\ [finishing[f] EXCEPT !.pc = "hand"].t = t
            /\ [finishing[f] EXCEPT !.pc = "hand"].pc = "hand"
        BY <1>0, <2>1 DEF Completion
      <4> QED  BY <3>2, <4>1 DEF FinishAt
    <3> QED  BY <1>3, <3>1, <3>2 DEF FinishProves
  <2>4. Proving(t)' = Proving(t) \ {f} /\ \A s \in AliasIssues \ {t} : Proving(s)' = Proving(s)
    BY <1>0, <2>1, <2>3 DEF Proving
  <2>5. TokenCounted(t)'
    <3>1. f \in Proving(t)  BY <2>1 DEF Proving
    <3>2. Cardinality(Proving(t)') = Cardinality(Proving(t)) - 1 /\ Cardinality(Proving(t)) \in Nat
      BY <2>4, <3>1, ProvingCounts
    <3>3. /\ TokenCounted(t) /\ tokens[t].tries \in Nat /\ proofs[t] \in Nat /\ proofs'[t] = proofs[t] + 1
      BY <2>2 DEF AliasInv, AliasType, AliasToken
    <3>4. tokens[t].status # "none"  BY <1>0, <2>1 DEF TokenKnown
    <3> QED  BY <2>2, <3>2, <3>3, <3>4 DEF TokenCounted
  <2>6. ASSUME NEW s \in AliasIssues \ {t} PROVE TokenCounted(s)'
    BY <2>2, <2>4 DEF AliasInv, AliasType, TokenCounted
  <2>7. ASSUME NEW g \in AliasFinishes PROVE TokenKnown(g)'
    BY <1>0, <2>1, <2>2, <2>3 DEF AliasInv, TokenKnown
  <2>8. finishing' \in [AliasFinishes -> Completion] /\ proofs' \in [AliasIssues -> Nat]
    BY <1>0, <2>2, <2>3 DEF AliasInv, AliasType
  <2> QED  BY <2>2, <2>5, <2>6, <2>7, <2>8 DEF AliasInv, AliasType
<1>4. ASSUME NEW k \in AliasOwners, NEW a \in AliasAddresses, FinishHands(f, k, a) PROVE AliasInv'
  <2>1. PICK t \in AliasIssues : t = finishing[f].t /\ finishing[f].pc = "hand"
    BY <1>0, <1>4 DEF FinishHands, TokenKnown
  <2>2. finishing' = [finishing EXCEPT ![f] = ended]
    BY <1>4 DEF FinishHands, FinishEnds
  <2>3. CASE ~(handle.id = finishing[f].id /\ Spends(t))
    BY <1>0, <1>4, <2>1, <2>2, <2>3, CompletionGoes DEF FinishHands
  <2>4. CASE handle.id = finishing[f].id /\ Spends(t)
    <3>1. /\ tokens' = [tokens EXCEPT ![t].status = "spent"] /\ handed' = [handed EXCEPT ![t] = @ + 1]
          /\ handle' = [handle EXCEPT !.owner = k] /\ UNCHANGED <<claimed, issuing, proofs>>
      BY <1>4, <2>1, <2>4 DEF FinishHands
    <3>2. \A s : Proving(s)' = Proving(s)  BY <1>0, <2>1, <2>2 DEF Proving
    <3>3. /\ tokens[t] \in AliasToken /\ tokens[t].status \in {"live", "expired"}
          /\ tokens' \in [AliasIssues -> AliasToken] /\ tokens'[t].status = "spent"
          /\ tokens'[t].tries = tokens[t].tries /\ \A s \in AliasIssues \ {t} : tokens'[s] = tokens[s]
      BY <2>4, <3>1 DEF Spends, AliasInv, AliasType, AliasToken
    <3>4. TokenCounted(t) /\ handed[t] \in Nat /\ handed[t] # 1 /\ handed'[t] = handed[t] + 1
      BY <3>1, <3>3 DEF AliasInv, AliasType, TokenCounted
    <3>5. TokenCounted(t)'  BY <3>1, <3>2, <3>3, <3>4 DEF TokenCounted
    <3>6. ASSUME NEW s \in AliasIssues \ {t} PROVE TokenCounted(s)'
      BY <3>1, <3>2, <3>3 DEF AliasInv, AliasType, TokenCounted
    <3>7. ASSUME NEW g \in AliasFinishes PROVE TokenKnown(g)'
      BY <1>0, <2>2, <3>3 DEF AliasInv, TokenKnown
    <3>8. finishing' \in [AliasFinishes -> Completion] /\ handed' \in [AliasIssues -> Nat]
      BY <1>0, <2>2, <3>1 DEF AliasInv, AliasType
    <3>9. handle' \in [id : Nat, owner : AliasOwners \cup {"none"}]
      BY <3>1 DEF AliasInv, AliasType
    <3> QED  BY <3>1, <3>3, <3>5, <3>6, <3>7, <3>8, <3>9 DEF AliasInv, AliasType
  <2> QED  BY <2>3, <2>4
<1> QED  BY <1>1, <1>2, <1>3, <1>4

\* Every step of the aliases keeps the invariant.
LEMMA AliasesStep ==
    ASSUME AliasInv, [AliasesNext]_alVars
    PROVE  AliasInv'
<1>1. CASE UNCHANGED alVars
  BY <1>1, AliasFrame DEF alVars, AliasInv, AliasType
<1>2. ASSUME NEW k \in AliasOwners, NEW a \in AliasAddresses, Claim(k, a) PROVE AliasInv'
  BY <1>2, AliasFrame DEF Claim, AliasInv, AliasType
<1>3. ASSUME NEW k \in AliasOwners, ReadsOwnHandle(k) PROVE AliasInv'
  BY <1>3, AliasFrame DEF ReadsOwnHandle, AliasInv, AliasType
<1>4. ASSUME NEW q \in AliasAdds,
             AddCounts(q) \/ AddInserts(q) \/ \E a \in AliasAddresses : AddReads(q, a)
      PROVE  AliasInv'
  <2>1. UNCHANGED <<handle, claimed, issuing, tokens, finishing, proofs, handed>>
    BY <1>4 DEF AddCounts, AddInserts, AddReads
  <2> QED  BY <2>1, AliasFrame DEF AliasInv, AliasType
<1>5. ASSUME NEW q \in AliasRemoves, RemoveDeletes(q) \/ \E a \in AliasAddresses : RemoveReads(q, a)
      PROVE  AliasInv'
  <2>1. UNCHANGED <<handle, claimed, issuing, tokens, finishing, proofs, handed>>
    BY <1>5 DEF RemoveDeletes, RemoveReads
  <2> QED  BY <2>1, AliasFrame DEF AliasInv, AliasType
<1> QED
  BY <1>1, <1>2, <1>3, <1>4, <1>5, ReleaseKeeps, IssueKeeps, CompletionKeeps DEF AliasesNext

\* One recovery token moves the handle at most once and has at most MaxTries proofs
\* checked, for any number of completions presenting it at once, whatever owners do to the
\* alias meanwhile (AliasesService.completeRecovery, its count and its transaction).
THEOREM TokenBoundedAlways ==
    AliasesInit /\ [][AliasesNext]_alVars => []RecoveryTokenBounded
<1>1. AliasesInit => AliasInv
  <2> SUFFICES ASSUME AliasesInit PROVE AliasInv  OBVIOUS
  <2>1. \A t : Proving(t) = {}  BY DEF AliasesInit, Proving
  <2>2. AliasType
    BY DEF AliasesInit, AliasType, AliasToken, Completion, NobodysHandle
  <2>3. ASSUME NEW t \in AliasIssues PROVE TokenCounted(t)
    <3>1. /\ issuing[t].pc = "idle" /\ proofs[t] = 0 /\ handed[t] = 0
          /\ tokens[t] = [id |-> 0, status |-> "none", tries |-> 0, fresh |-> FALSE]
      BY DEF AliasesInit
    <3> QED  BY <2>1, <3>1, FS_EmptySet, AliasBounds DEF TokenCounted
  <2>4. \A f \in AliasFinishes : TokenKnown(f)  BY DEF AliasesInit, TokenKnown
  <2> QED  BY <2>2, <2>3, <2>4 DEF AliasInv
<1>2. AliasInv /\ [AliasesNext]_alVars => AliasInv'
  BY AliasesStep
<1>3. AliasInv => RecoveryTokenBounded
  <2> SUFFICES ASSUME AliasInv, NEW t \in AliasIssues PROVE handed[t] <= 1 /\ proofs[t] <= MaxTries
    BY DEF RecoveryTokenBounded, TokenHandsOverOnce, ProofsBounded
  <2>1. /\ Cardinality(Proving(t)) \in Nat /\ proofs[t] \in Nat /\ tokens[t].tries \in Nat
        /\ TokenCounted(t)
    BY ProvingCounts DEF AliasInv, AliasType, AliasToken
  <2> QED  BY <2>1, AliasBounds DEF TokenCounted
<1> QED  BY <1>1, <1>2, <1>3, PTL

-----------------------------------------------------------------------------
(***************************************************************************)
(* The server that runs them all.                                          *)
(***************************************************************************)

\* A step of the server is, for each component, a step of it or none.
LEMMA OneMoves ==
    ASSUME [ClaimsNext]_claimsVars
    PROVE  /\ [ZkPaymentsNext]_zkVars /\ [WalletSignInNext]_siVars /\ [WalletKeysNext]_wkVars
           /\ [AliasesNext]_alVars /\ [EasyRecoveryNext]_erVars /\ [RecoveryCodesNext]_rcVars
BY DEF ClaimsNext, claimsVars, Rest

\* Every invariant of the components in the server that runs them all.
THEOREM ClaimsHold ==
    ClaimsSpec => [](ZkPaidOnce /\ HandshakeOnce /\ CredentialForwarded /\ RecoveryTokenBounded)
<1>1. ClaimsInit => ZkPaymentsInit /\ WalletSignInInit /\ WalletKeysInit /\ AliasesInit
  BY DEF ClaimsInit
<1>2. [ClaimsNext]_claimsVars => /\ [ZkPaymentsNext]_zkVars /\ [WalletSignInNext]_siVars
                                 /\ [WalletKeysNext]_wkVars /\ [AliasesNext]_alVars
  BY OneMoves
<1> QED
  BY <1>1, <1>2, ZkPaidOnceAlways, HandshakeRedeemedOnce, KeysForwarded, TokenBoundedAlways, PTL
     DEF ClaimsSpec

\* What both ways to recover a wallet owe the wallet's owner, time aside.
THEOREM RecoveriesSingleUse ==
    ClaimsSpec => RecoverySession!SingleUseSafety /\ RecoveryCode!SingleUseSafety
<1>1. ClaimsInit => EasyRecoveryInit /\ RecoveryCodesInit
  BY DEF ClaimsInit
<1>2. [ClaimsNext]_claimsVars => [EasyRecoveryNext]_erVars /\ [RecoveryCodesNext]_rcVars
  BY OneMoves
<1> QED  BY <1>1, <1>2, SessionHandedOnce, CodeGivenOnce, PTL DEF ClaimsSpec
=============================================================================
