------------------------- MODULE IntentsRefinement -------------------------
(***************************************************************************)
(* PaymentIntents implements PaymentPromise.                               *)
(***************************************************************************)
EXTENDS PaymentIntents

\* What a status means to the integrator; a report (SUBMITTED) is no outcome.
Fate(s) ==
    CASE s = "ABSENT" -> "none"
      [] s \in OpenFor -> "open"
      [] s = "SUCCEEDED" -> "paid"
      [] s \in {"FAILED", "CANCELLED"} -> "given up"
      [] s = "EXPIRED" -> "lapsed"
      [] OTHER -> "removed"

Promise == INSTANCE PaymentPromise WITH
    Promised <- Ids, Receipts <- Txs, Unspent <- NoIntent,
    fate <- [i \in Ids |-> Fate(status[i])],
    spent <- claim,
    told <- {i \in Ids : "SUCCEEDED" \in notified[i]}

\* Whatever order the handlers' reads, verifications, commits, deletes and emissions come
\* in, each step is one the integrator was promised: an intent and the payment it uses
\* change together, once, and success is announced only of a settled intent.
IntentsKeepPromise == Promise!PromiseSpec
=============================================================================
