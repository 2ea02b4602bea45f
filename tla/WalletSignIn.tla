---------------------------- MODULE WalletSignIn ----------------------------
(***************************************************************************)
(* The wallet's sign-in: one OAuth handshake, the emailed codes of one     *)
(* inbox, and the sweeper that clears both.  Callbacks, redemptions and    *)
(* answers to a code each read a row, wait, and write it; the sweeper      *)
(* reads the stale rows and then overwrites them by id.  Tokens, PKCE and  *)
(* the account behind the email are choices of the environment.            *)
(***************************************************************************)
EXTENDS Integers, FiniteSets

CONSTANTS
    Callbacks,    \* provider callbacks of the handshake
    Devices,      \* redemptions of the handshake
    Answers,      \* answers to a code
    MaxCodes,     \* bound: codes minted
    CodeAttempts  \* LOGIN_CODE_MAX_ATTEMPTS

ASSUME SignInBounds == MaxCodes \in Nat /\ CodeAttempts \in Nat \ {0}

Codes == 1..MaxCodes
NoOne == "nobody"

VARIABLES
    hs,        \* the wallet_auth_handshake row
    hsAge,     \* 0, 1: past expiresAt, 2: and untouched for the grace
    hsFirst,   \* the identity the handshake was authorized with first
    hsHanded,  \* the identities it was redeemed for, one per redemption
    codes,     \* the wallet_login_code rows
    codeAge,   \* 0, 1: past expiresAt, 2: and past the grace
    codeUses,  \* code -> how many answers it signed in
    callback,  \* local state of a callback
    device,    \* local state of a redemption, or of an email sign-in
    answer,    \* local state of an answer
    sweep      \* local state of the sweeper

siVars == <<hs, hsAge, hsFirst, hsHanded, codes, codeAge, codeUses,
            callback, device, answer, sweep>>
hsVars == <<hs, hsAge, hsFirst>>
codeVars == <<codes, codeAge>>

NoRow == [status |-> "ABSENT", who |-> NoOne, verified |-> FALSE]
NoCode == [status |-> "ABSENT", attempts |-> 0, live |-> FALSE]

WalletSignInInit ==
    /\ hs = NoRow /\ hsAge = 0 /\ hsFirst = NoOne /\ hsHanded = {}
    /\ codes = [k \in Codes |-> NoCode] /\ codeAge = [k \in Codes |-> 0]
    /\ codeUses = [k \in Codes |-> 0]
    /\ callback = [b \in Callbacks |-> "idle"]
    /\ device = [d \in Devices |-> [pc |-> "idle", row |-> NoRow]]
    /\ answer = [v \in Answers |-> [pc |-> "idle", k |-> 0, row |-> NoCode]]
    /\ sweep = [pc |-> "idle", hs |-> FALSE, codes |-> {}]

-----------------------------------------------------------------------------
(* The handshake: startOauth, handleCallback                                 *)

StartOauth ==
    /\ hs.status = "ABSENT" /\ hs' = [hs EXCEPT !.status = "PENDING"]
    /\ UNCHANGED <<hsAge, hsFirst, hsHanded, codeVars, codeUses, callback, device, answer, sweep>>

\* A write moves updatedAt, from which the sweeper counts the grace.
Written(row) == hs' = row /\ hsAge' = IF hsAge = 2 THEN 1 ELSE hsAge

\* Callbacks are alike, and devices are: which one is next does not matter.
NextCallback(b) == callback[b] = "idle" /\ b = CHOOSE c \in Callbacks : callback[c] = "idle"
NextDevice(d) == device[d].pc = "idle" /\ d = CHOOSE e \in Devices : device[e].pc = "idle"

CallbackReads(b) ==
    /\ NextCallback(b) /\ hs.status # "ABSENT"
    /\ callback' = [callback EXCEPT ![b] = IF hs.status = "PENDING" /\ hsAge = 0 THEN "exchange" ELSE "done"]
    /\ UNCHANGED <<hsVars, hsHanded, codeVars, codeUses, device, answer, sweep>>

AnyStatus(b) == hs.status # "GONE"
\* "Conditional on PENDING, so two callbacks racing on one state cannot both write".
CallbackWins(b) == hs.status = "PENDING"

\* The exchange answered: an identity, with or without a confirmed email, or a
\* refusal or a transport failure, which end in failHandshake.
CallbackWrites(b) ==
    /\ callback[b] = "exchange" /\ callback' = [callback EXCEPT ![b] = "done"]
    /\ IF CallbackWins(b)
       THEN \/ Written([hs EXCEPT !.status = "FAILED"]) /\ UNCHANGED hsFirst
            \/ /\ \E verified \in BOOLEAN :
                    Written([status |-> "AUTHORIZED", who |-> b, verified |-> verified])
               /\ hsFirst' = IF hsFirst = NoOne THEN b ELSE hsFirst
       ELSE UNCHANGED hsVars
    /\ UNCHANGED <<hsHanded, codeVars, codeUses, device, answer, sweep>>

-----------------------------------------------------------------------------
(* Codes: startEmail, mintLoginCode                                          *)

NextCode == 1 + Cardinality({k \in Codes : codes[k].status # "ABSENT"})

\* The row is written, then the mail sent: a failed delivery leaves it.
MintLoginCode ==
    /\ NextCode \in Codes
    /\ codes' = [codes EXCEPT ![NextCode] = [status |-> "PENDING", attempts |-> 0, live |-> TRUE]]
    /\ UNCHANGED codeAge

\* Unless assertCanSendCode refuses, which changes nothing.
StartEmail(d) ==
    /\ NextDevice(d) /\ MintLoginCode
    /\ device' = [device EXCEPT ![d].pc = "done"]
    /\ UNCHANGED <<hsVars, hsHanded, codeUses, callback, answer, sweep>>

-----------------------------------------------------------------------------
(* claimOauth                                                                *)

\* assertCanSendCode may refuse an unconfirmed email, and leaves the row for a retry.
\* An AUTHORIZED row is redeemable whatever its expiry, until the sweeper has it.
ClaimReads(d) ==
    /\ NextDevice(d) /\ hs.status = "AUTHORIZED"
    /\ device' = [device EXCEPT ![d] = [pc |-> "burn", row |-> hs]]
    /\ UNCHANGED <<hsVars, hsHanded, codeVars, codeUses, callback, answer, sweep>>

DeviceDone(d) == device' = [device EXCEPT ![d] = [pc |-> "done", row |-> NoRow]]

BurnAnyway(d) == hs.status # "GONE"
\* "Single-shot: burn it before anything is handed back".
Burns(d) == hs.status = "AUTHORIZED"

ClaimBurns(d) ==
    /\ device[d].pc = "burn"
    /\ IF Burns(d)
       THEN /\ Written([hs EXCEPT !.status = "REDEEMED"])
            /\ hsHanded' = hsHanded \cup {<<d, device[d].row.who>>}
            /\ device' = [device EXCEPT ![d].pc = "lookup"]
       ELSE /\ DeviceDone(d)
            /\ UNCHANGED <<hs, hsAge, hsHanded>>
    /\ UNCHANGED <<hsFirst, codeVars, codeUses, callback, answer, sweep>>

\* The account is looked up.  An existing one whose inbox Authentik proved in this
\* browser, or a new one with a confirmed email, is ready; otherwise a code goes out.
ClaimAnswers(d) ==
    /\ device[d].pc = "lookup" /\ DeviceDone(d)
    /\ \/ device[d].row.verified /\ UNCHANGED codeVars
       \/ MintLoginCode
    /\ UNCHANGED <<hsVars, hsHanded, codeUses, callback, answer, sweep>>

-----------------------------------------------------------------------------
(* verifyEmail                                                               *)

AnswerReads(v, k) ==
    /\ answer[v].pc = "idle" /\ codes[k].status = "PENDING" /\ codeAge[k] = 0
    /\ \E right \in BOOLEAN :
         answer' = [answer EXCEPT ![v] = [pc |-> IF right /\ codes[k].live THEN "right" ELSE "wrong",
                                          k |-> k, row |-> codes[k]]]
    /\ UNCHANGED <<hsVars, hsHanded, codeVars, codeUses, callback, device, sweep>>

AnswerDone(v) == answer' = [answer EXCEPT ![v] = [pc |-> "idle", k |-> 0, row |-> NoCode]]

\* A wrong answer: an update by id of the counter and the status that were read.
AnswerWrong(v) ==
    /\ answer[v].pc = "wrong" /\ AnswerDone(v)
    /\ LET k == answer[v].k  attempts == answer[v].row.attempts + 1 IN
       codes' = IF codes[k].status = "GONE" THEN codes ELSE
                [codes EXCEPT ![k].attempts = attempts,
                              ![k].status = IF attempts >= CodeAttempts THEN "LOCKED" ELSE "PENDING"]
    /\ UNCHANGED <<hsVars, hsHanded, codeAge, codeUses, callback, device, sweep>>

\* "Single-shot, for the same reason the handshake is".
ClaimsCode(v) == codes[answer[v].k].status = "PENDING"

AnswerRight(v) ==
    /\ answer[v].pc = "right" /\ AnswerDone(v)
    /\ LET k == answer[v].k IN
       IF ClaimsCode(v)
       THEN /\ codes' = [codes EXCEPT ![k].status = "CLAIMED", ![k].live = FALSE,
                                      ![k].attempts = answer[v].row.attempts + 1]
            /\ codeUses' = [codeUses EXCEPT ![k] = @ + 1]
       ELSE UNCHANGED <<codes, codeUses>>
    /\ UNCHANGED <<hsVars, hsHanded, codeAge, callback, device, sweep>>

-----------------------------------------------------------------------------
(* The sweeper and time                                                      *)

PendingOnly == hs.status = "PENDING"
StaleHandshake == hs.status \in {"PENDING", "AUTHORIZED"}

SweepReads ==
    /\ sweep.pc = "idle"
    /\ sweep' = [pc |-> "hs", hs |-> StaleHandshake /\ hsAge > 0, codes |-> {}]
    /\ UNCHANGED <<hsVars, hsHanded, codeVars, codeUses, callback, device, answer>>

\* An update by id: it does not look at the status again.
ExpireHandshakes ==
    /\ sweep.pc = "hs"
    /\ IF sweep.hs /\ hs.status # "GONE"
       THEN Written([hs EXCEPT !.status = "EXPIRED", !.who = NoOne])
       ELSE UNCHANGED <<hs, hsAge>>
    /\ sweep' = [sweep EXCEPT !.pc = "codes", !.hs = FALSE,
                              !.codes = {k \in Codes : codes[k].status = "PENDING" /\ codeAge[k] > 0}]
    /\ UNCHANGED <<hsFirst, hsHanded, codeVars, codeUses, callback, device, answer>>

\* "The code hash goes with it".
Expires(k) == [codes[k] EXCEPT !.status = "EXPIRED", !.live = FALSE]

ExpireLoginCodes ==
    /\ sweep.pc = "codes" /\ sweep' = [sweep EXCEPT !.pc = "delete", !.codes = {}]
    /\ codes' = [k \in Codes |-> IF k \in sweep.codes /\ codes[k].status # "GONE" THEN Expires(k) ELSE codes[k]]
    /\ UNCHANGED <<hsVars, hsHanded, codeAge, codeUses, callback, device, answer>>

DeleteSpent ==
    /\ sweep.pc = "delete" /\ sweep' = [sweep EXCEPT !.pc = "idle"]
    /\ hs' = IF hs.status \in {"REDEEMED", "FAILED", "EXPIRED"} /\ hsAge = 2
             THEN [NoRow EXCEPT !.status = "GONE"] ELSE hs
    /\ codes' = [k \in Codes |->
           IF codes[k].status \in {"CLAIMED", "LOCKED", "EXPIRED"} /\ codeAge[k] = 2
           THEN [NoCode EXCEPT !.status = "GONE"] ELSE codes[k]]
    /\ UNCHANGED <<hsAge, hsFirst, hsHanded, codeAge, codeUses, callback, device, answer>>

AgeHandshake ==
    /\ hs.status # "ABSENT" /\ hsAge < 2 /\ hsAge' = hsAge + 1
    /\ UNCHANGED <<hs, hsFirst, hsHanded, codeVars, codeUses, callback, device, answer, sweep>>

AgeCode(k) ==
    /\ codes[k].status # "ABSENT" /\ codeAge[k] < 2
    /\ codeAge' = [codeAge EXCEPT ![k] = @ + 1]
    /\ UNCHANGED <<hsVars, hsHanded, codes, codeUses, callback, device, answer, sweep>>

SweepStep == SweepReads \/ ExpireHandshakes \/ ExpireLoginCodes \/ DeleteSpent

WalletSignInNext ==
    \/ StartOauth \/ SweepStep \/ AgeHandshake
    \/ \E b \in Callbacks : CallbackReads(b) \/ CallbackWrites(b)
    \/ \E d \in Devices : StartEmail(d) \/ ClaimReads(d) \/ ClaimBurns(d) \/ ClaimAnswers(d)
    \/ \E v \in Answers : (\E k \in Codes : AnswerReads(v, k)) \/ AnswerWrong(v) \/ AnswerRight(v)
    \/ \E k \in Codes : AgeCode(k)

\* The sweeper is a scheduled job; time passes.
WalletSignInFairness ==
    /\ WF_siVars(SweepStep /\ (hs.status # "ABSENT" \/ codes[1].status # "ABSENT"))
    /\ WF_siVars(AgeHandshake) /\ \A k \in Codes : WF_siVars(AgeCode(k))

-----------------------------------------------------------------------------
\* A handshake is redeemed at most once, and for the identity its first callback
\* wrote, however callbacks, redemptions and the sweeper's blind update interleave.
HandshakeOnce ==
    /\ Cardinality(hsHanded) <= 1
    /\ \A h \in hsHanded : h[2] = hsFirst

\* "while it is set, the row is a redeemable sign-in": the sweeper eventually takes
\* the identity out of a stale handshake nobody redeemed, and the hash out of a
\* stale code, through callbacks and answers that write from a stale read.
StaleSignInCleared ==
    /\ hsAge > 0 /\ hs.status = "AUTHORIZED" ~> hs.status \in {"REDEEMED", "EXPIRED", "GONE"}
    /\ \A k \in Codes : codeAge[k] > 0 /\ codes[k].live ~> ~codes[k].live

\* "Single-shot": a code signs in once.
CodeUsedOnce == \A k \in Codes : codeUses[k] <= 1
=============================================================================
