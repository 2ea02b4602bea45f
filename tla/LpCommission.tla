---------------------------- MODULE LpCommission ----------------------------
(***************************************************************************)
(* What a withdrawal from a liquidity pool is charged, over the life of    *)
(* one account's position: deposits and withdrawals settle one at a time,  *)
(* the pool's reserve moves in between, and the cost of a deposit may be   *)
(* captured late or not at all.  One of the two assets, which are treated  *)
(* alike; amounts are stroops.                                             *)
(***************************************************************************)
EXTENDS Integers, Sequences, FiniteSetsExt

CONSTANTS
    MaxLpOps,     \* bound: operations that settle
    LpShareSizes, \* shares an operation mints or burns
    LpReserves,   \* the reserves trades may leave behind
    OtherShares,  \* shares of the pool's other holders
    LpFeeBps,     \* the plan's commission
    LpSlipBps,    \* slippageBps of a withdrawal
    LpMerchantBps \* merchantFee.bps of a withdrawal

\* MAX_MERCHANT_FEE_BPS is 1,000, and both rates are shares of one payout.
ASSUME LpRates ==
    /\ MaxLpOps \in Nat /\ OtherShares \in Nat \ {0} /\ LpSlipBps \in 0..10000
    /\ LpShareSizes \subseteq Nat /\ LpReserves \subseteq Nat /\ LpReserves # {}
    /\ LpMerchantBps \in 0..1000 /\ LpFeeBps \in 0..(10000 - LpMerchantBps)

VARIABLES
    lpOps,     \* the SUCCEEDED rows: kind, shares, cost, captured
    lpReserve, \* the pool's reserve of the asset
    lpTaxed,   \* shares whose gain was taxed so far
    lpEntry,   \* deposits since the account last held nothing: shares, cost, all captured
    lpLast     \* the last withdrawal: what it guarantees, redeems of covered shares, and charges

lpVars == <<lpOps, lpReserve, lpTaxed, lpEntry, lpLast>>

NoEntry == [shares |-> 0, cost |-> 0, known |-> TRUE]
NoPayout == [min |-> 0, covered |-> 0, redeemed |-> 0, fee |-> 0, merchant |-> 0, entry |-> NoEntry]

LpCommissionInit ==
    /\ lpOps = <<>> /\ lpReserve = Min(LpReserves)
    /\ lpTaxed = 0 /\ lpEntry = NoEntry /\ lpLast = NoPayout

\* The sum of the first n amounts, in the order of the rows.
Total(amount, n) ==
    LET sum[k \in 0..n] == IF k = 0 THEN 0 ELSE sum[k - 1] + amount[k] IN sum[n]

SharesIn(rows) == [i \in DOMAIN lpOps |-> IF i \in rows THEN lpOps[i].shares ELSE 0]
CostIn(rows) == [i \in DOMAIN lpOps |-> IF i \in rows THEN lpOps[i].cost ELSE 0]

RowsOf(kind) == {i \in DOMAIN lpOps : lpOps[i].kind = kind}
SharesOf(kind) == Total(SharesIn(RowsOf(kind)), Len(lpOps))
LpHeld == SharesOf("DEPOSIT") - SharesOf("WITHDRAW")
LpTotal == OtherShares + LpHeld

-----------------------------------------------------------------------------
(* lp-math and swap-math                                                     *)

computeFee(amount, bps) == (amount * bps) \div 10000
applySlippage(estimate, bps) == (estimate * (10000 - bps)) \div 10000
proportionalShare(shares, total, reserve) == (shares * reserve) \div total

CapturedDeposits == {i \in RowsOf("DEPOSIT") : lpOps[i].captured}
SharesRecorded == Total(SharesIn(CapturedDeposits), Len(lpOps))

\* Never negative: shares that came from elsewhere are withdrawn as well.
RemainingShares(deposited, withdrawn) == IF deposited > withdrawn THEN deposited - withdrawn ELSE 0

aggregateCostBasis ==
    [deposited |-> SharesRecorded,
     remaining |-> RemainingShares(SharesRecorded, SharesOf("WITHDRAW")),
     cost      |-> Total(CostIn(CapturedDeposits), Len(lpOps))]

RedeemedInFull(covered) == proportionalShare(covered, LpTotal, lpReserve)
\* What the covered shares are guaranteed to redeem.
Redeemed(covered) == applySlippage(proportionalShare(covered, LpTotal, lpReserve), LpSlipBps)

\* The commission on the gain of the shares whose cost is recorded.
computeWithdrawCommission(shares) ==
    LET basis == aggregateCostBasis
        covered == IF shares < basis.remaining THEN shares ELSE basis.remaining
        redeemed == Redeemed(covered)
        cost == (basis.cost * covered) \div basis.deposited
    IN IF LpFeeBps = 0 \/ covered = 0 \/ basis.deposited = 0
       THEN [covered |-> 0, redeemed |-> 0, fee |-> 0]
       ELSE [covered |-> covered, redeemed |-> redeemed,
             fee |-> computeFee(IF redeemed > cost THEN redeemed - cost ELSE 0, LpFeeBps)]

-----------------------------------------------------------------------------
\* The chain rounds what a deposit takes up.
DepositCost(shares) == (shares * lpReserve + LpTotal - 1) \div LpTotal

\* A deposit settles; its cost is captured then, or a Horizon error leaves it out.
SettleDeposit(shares, captured) ==
    LET cost == DepositCost(shares) IN
    /\ Len(lpOps) < MaxLpOps
    /\ lpOps' = Append(lpOps, [kind |-> "DEPOSIT", shares |-> shares, cost |-> cost, captured |-> captured])
    /\ lpReserve' = lpReserve + cost
    /\ lpEntry' = [shares |-> lpEntry.shares + shares, cost |-> lpEntry.cost + cost,
                   known |-> lpEntry.known /\ captured]
    /\ UNCHANGED <<lpTaxed, lpLast>>

\* captureDepositBasis, retried by the observer.
CaptureBasis(i) ==
    /\ lpOps[i].kind = "DEPOSIT" /\ ~lpOps[i].captured
    /\ lpOps' = [lpOps EXCEPT ![i].captured = TRUE]
    /\ UNCHANGED <<lpReserve, lpTaxed, lpEntry, lpLast>>

\* withdraw is built and settles at the reserves it was built from.
SettleWithdraw(shares) ==
    LET min == applySlippage(proportionalShare(shares, LpTotal, lpReserve), LpSlipBps)
        charge == computeWithdrawCommission(shares)
    IN /\ Len(lpOps) < MaxLpOps /\ shares <= LpHeld
       /\ lpOps' = Append(lpOps, [kind |-> "WITHDRAW", shares |-> shares, cost |-> 0, captured |-> FALSE])
       /\ lpReserve' = lpReserve - proportionalShare(shares, LpTotal, lpReserve)
       /\ lpTaxed' = lpTaxed + charge.covered
       /\ lpLast' = [min |-> min, covered |-> charge.covered, redeemed |-> charge.redeemed,
                     fee |-> charge.fee, merchant |-> computeFee(min, LpMerchantBps), entry |-> lpEntry]
       /\ lpEntry' = IF shares = LpHeld THEN NoEntry ELSE lpEntry

\* Others trade against the pool.
ReserveMoves(r) ==
    /\ lpReserve' = r /\ r # lpReserve /\ Len(lpOps) < MaxLpOps
    /\ UNCHANGED <<lpOps, lpTaxed, lpEntry, lpLast>>

LpCommissionNext ==
    \/ \E s \in LpShareSizes, captured \in BOOLEAN : SettleDeposit(s, captured)
    \/ \E i \in DOMAIN lpOps : CaptureBasis(i)
    \/ \E s \in LpShareSizes : SettleWithdraw(s)
    \/ \E r \in LpReserves : ReserveMoves(r)

LpCommissionSpec == LpCommissionInit /\ [][LpCommissionNext]_lpVars

-----------------------------------------------------------------------------
\* "the withdraw itself funds the fee payments (they come out of the
\* just-received reserves)": commission and merchant fee together fit into what
\* the withdrawal is guaranteed to pay, whatever the rounding and the history.
FeesFundedByPayout == lpLast.fee + lpLast.merchant <= lpLast.min

\* "only for shares whose cost basis we recorded": over the whole life of the
\* position no share is taxed twice and none without a recorded cost.
OnlyRecordedSharesTaxed == lpTaxed <= SharesRecorded

\* A withdrawal is charged no more than it pays out, and for no share twice.
CommissionBounded == FeesFundedByPayout /\ OnlyRecordedSharesTaxed

\* "a loss is taxed nothing": shares that redeem no more than the average cost of
\* the deposits still held are charged no commission.
LossTaxedNothing ==
    lpLast.entry.known /\ lpLast.redeemed * lpLast.entry.shares <= lpLast.entry.cost * lpLast.covered
        => lpLast.fee = 0
=============================================================================
