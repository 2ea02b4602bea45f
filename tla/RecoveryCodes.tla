---------------------------- MODULE RecoveryCodes ----------------------------
(***************************************************************************)
(* One code a recovery server emailed: RecoveryService's startEmail and    *)
(* verifyEmail, and the recovery sweeper.  An answer is judged on the row  *)
(* it read; its write is conditional, and so is every other answer's in    *)
(* flight.  Whether the server may mail at all, the resend window and the  *)
(* daily cap only decide that there is no code.                            *)
(***************************************************************************)
EXTENDS Integers, FiniteSets

CONSTANTS
    RcAnswers,  \* verifyEmail requests
    RcMaxWrong  \* RECOVERY_CODE_MAX_ATTEMPTS

ASSUME RcBounds == RcMaxWrong \in Nat \ {0}

VARIABLES
    rcRow,     \* the row: status ("NONE" before, "GONE" after), attempts, hash kept
    rcTime,    \* "live", "over" (past expiresAt), "grace" (and past the sweep's grace)
    rcAnswer,  \* request -> step, attempts read
    rcSweep,   \* the sweeper: idle, or holding the stale row's id, then deleting
    rcTokens   \* answers that were given an identity token

rcVars == <<rcRow, rcTime, rcAnswer, rcSweep, rcTokens>>

RecoveryCodesInit ==
    /\ rcRow = [status |-> "NONE", tries |-> 0, hash |-> FALSE] /\ rcTime = "live"
    /\ rcAnswer = [a \in RcAnswers |-> [pc |-> "idle", read |-> 0]]
    /\ rcSweep = "idle" /\ rcTokens = {}

\* startEmail: only the hash is stored.
StartRecoveryEmail ==
    /\ rcRow.status = "NONE" /\ rcRow' = [status |-> "PENDING", tries |-> 0, hash |-> TRUE]
    /\ UNCHANGED <<rcTime, rcAnswer, rcSweep, rcTokens>>

RecoveryClock ==
    /\ rcRow.status # "NONE" /\ rcTime # "grace"
    /\ rcTime' = IF rcTime = "live" THEN "over" ELSE "grace"
    /\ UNCHANGED <<rcRow, rcAnswer, rcSweep, rcTokens>>

\* The row is pending and in time; the code is compared with the hash read.
CodeAnswerReads(a) ==
    /\ rcAnswer[a].pc = "idle" /\ rcRow.status = "PENDING" /\ rcTime = "live"
    /\ \E pc \in {"right", "wrong"} : rcAnswer' = [rcAnswer EXCEPT ![a] = [pc |-> pc, read |-> rcRow.tries]]
    /\ UNCHANGED <<rcRow, rcTime, rcSweep, rcTokens>>

CodeAnswerDone(a) == rcAnswer' = [rcAnswer EXCEPT ![a].pc = "done"]

\* The attempts are the ones read, plus one, if the row is still pending.
WrongAnswer(a) ==
    LET tries == rcAnswer[a].read + 1 IN
    /\ rcAnswer[a].pc = "wrong" /\ CodeAnswerDone(a)
    /\ rcRow' = IF rcRow.status # "PENDING" THEN rcRow
                ELSE [rcRow EXCEPT !.tries = tries, !.status = IF tries >= RcMaxWrong THEN "LOCKED" ELSE "PENDING"]
    /\ UNCHANGED <<rcTime, rcSweep, rcTokens>>

SameAttempts(a) == rcRow.tries = rcAnswer[a].read
\* The compare-and-swap of a right answer: pending, and no answer since the read.
AnswerWins(a) == rcRow.status = "PENDING" /\ rcRow.tries = rcAnswer[a].read

RightAnswer(a) ==
    /\ rcAnswer[a].pc = "right" /\ CodeAnswerDone(a)
    /\ IF AnswerWins(a)
       THEN /\ rcRow' = [status |-> "CLAIMED", tries |-> rcAnswer[a].read + 1, hash |-> FALSE]
            /\ rcTokens' = rcTokens \cup {a}
       ELSE UNCHANGED <<rcRow, rcTokens>>
    /\ UNCHANGED <<rcTime, rcSweep>>

\* run: the stale rows are read ...
SweepFinds ==
    /\ rcSweep = "idle" /\ rcRow.status = "PENDING" /\ rcTime # "live" /\ rcSweep' = "found"
    /\ UNCHANGED <<rcRow, rcTime, rcAnswer, rcTokens>>

\* ... and written by id, whatever became of them.
SweepExpires ==
    /\ rcSweep = "found" /\ rcSweep' = "idle"
    /\ rcRow' = [rcRow EXCEPT !.status = "EXPIRED", !.hash = FALSE]
    /\ UNCHANGED <<rcTime, rcAnswer, rcTokens>>

DeletesClaimed == rcRow.status = "CLAIMED" /\ rcTime = "grace"
\* Decided codes are deleted after the grace period.
Deletable == rcRow.status \notin {"NONE", "PENDING", "GONE"} /\ rcTime = "grace"

SweepDeletes ==
    /\ rcSweep = "idle" /\ Deletable /\ rcRow' = [rcRow EXCEPT !.status = "GONE", !.hash = FALSE]
    /\ UNCHANGED <<rcTime, rcAnswer, rcSweep, rcTokens>>

RecoveryCodesNext ==
    \/ StartRecoveryEmail \/ RecoveryClock \/ SweepFinds \/ SweepExpires \/ SweepDeletes
    \/ \E a \in RcAnswers : CodeAnswerReads(a) \/ WrongAnswer(a) \/ RightAnswer(a)

\* The clock and the sweeper's ticks; a request that never writes is not waited for.
RecoveryCodesFairness ==
    WF_rcVars(RecoveryClock) /\ WF_rcVars(SweepFinds) /\ WF_rcVars(SweepExpires) /\ WF_rcVars(SweepDeletes)

-----------------------------------------------------------------------------
(* Properties                                                                *)

\* The code as its owner sees it.  A row the sweep wrote over after a late right answer
\* still was taken.
RecoveryPhase ==
    IF rcRow.status = "NONE" THEN "none"
    ELSE IF rcRow.status = "GONE" THEN "gone"
    ELSE IF rcTokens # {} THEN "taken"
    ELSE IF rcRow.status = "PENDING" THEN "open" ELSE "shut"

RecoveryCode == INSTANCE SingleUse WITH Takers <- RcAnswers, phase <- RecoveryPhase, takers <- rcTokens

\* An emailed recovery code gives one identity token, only while it is pending, and leaves
\* no row: verifyEmail's compare-and-swap against answers judged on an older read, against
\* the lock of a wrong answer, and against the sweep that writes by id.
RecoveryCodeSingleUse == RecoveryCode!SingleUseSpec
=============================================================================
