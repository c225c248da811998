------------------------------ MODULE FlashArb ------------------------------
(***************************************************************************)
(* The contract that lands the older bot's trades                          *)
(* (_evm_legacy/contracts/contracts/FlashArbExecutor.sol).  A transaction  *)
(* is one step: it commits all its transfers or none.  The lender (Aave    *)
(* V3) and the swap routers are external: flashLoanSimple transfers the    *)
(* loan, calls executeOperation and takes the loan and its fee back;       *)
(* a router takes what it is given and returns what its pool yields, or    *)
(* reverts.  Subtraction of uint256 reverts below zero.                    *)
(***************************************************************************)
EXTENDS Naturals

CONSTANTS
    \* all natural numbers or sets of them
    Amounts,  \* loans asked for
    Yields,   \* what router B returns, in the quote token
    Premium,  \* the lender's fee
    MaxHeld   \* bound: tokens left in the contract

VARIABLES
    faHeld,   \* the contract's balance of the quote token
    faOwner,  \* history: quote tokens paid to the owner, less those the owner sent
    faLast    \* history: the last trade

faVars == <<faHeld, faOwner, faLast>>

NoTrade == [amount |-> 0, minProfit |-> 0, out |-> 0, committed |-> FALSE, paid |-> 0]

FaInit ==
    /\ faHeld = 0
    /\ faOwner = 0
    /\ faLast = NoTrade

Owed(amount) == amount + Premium

\* executeOperation, from the balance it finds, the loan included, to the
\* profit: balanceAfter - balanceBefore - totalOwed, checked.
BalanceBefore(amount) == faHeld + amount

\* The routers take the loan and the base tokens, and give the yield.
BalanceAfter(amount, out) == BalanceBefore(amount) - amount + out

Computes(amount, out) == BalanceAfter(amount, out) >= BalanceBefore(amount) + Owed(amount)

Profit(amount, out) == BalanceAfter(amount, out) - BalanceBefore(amount) - Owed(amount)

\* The lender's transferFrom after the callback fails when too little is left.
Repays(amount, out) == BalanceAfter(amount, out) >= Profit(amount, out) + Owed(amount)

Commits(amount, minProfit, out) ==
    /\ Computes(amount, out)
    /\ Profit(amount, out) >= minProfit
    /\ Repays(amount, out)

\* executeArbitrage by the owner, whose swaps do not revert by themselves.
ExecuteArbitrage(amount, minProfit, out) ==
    LET committed == Commits(amount, minProfit, out)
        paid == IF committed THEN Profit(amount, out) ELSE 0
        held == IF committed THEN BalanceAfter(amount, out) - Profit(amount, out) - Owed(amount) ELSE faHeld
    IN  /\ held <= MaxHeld
        /\ faHeld' = held
        /\ faOwner' = faOwner + paid
        /\ faLast' = [amount |-> amount, minProfit |-> minProfit, out |-> out,
                      committed |-> committed, paid |-> paid]

\* withdrawToken by the owner.
WithdrawToken ==
    /\ faHeld > 0
    /\ faOwner' = faOwner + faHeld
    /\ faHeld' = 0
    /\ UNCHANGED faLast

FaNext ==
    \/ /\ faOwner <= MaxHeld
       /\ \E amount \in Amounts, out \in Yields, minProfit \in 0 .. 2 : ExecuteArbitrage(amount, minProfit, out)
    \/ WithdrawToken

FlashArbSpec == FaInit /\ [][FaNext]_faVars

\* "Repay flash loan + fee, transfer remaining profit to owner; if profit <
\* minProfit, the whole transaction reverts" (the contract's header, lines 19 to
\* 21): a trade that leaves at least minProfit over loan and fee commits, and the
\* owner is paid what is left.
ProfitableArbLands ==
    faLast.out >= Owed(faLast.amount) + faLast.minProfit /\ faLast.amount > 0 =>
        faLast.committed /\ faLast.paid = faLast.out - Owed(faLast.amount)
=============================================================================
