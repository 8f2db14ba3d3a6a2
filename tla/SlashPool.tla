------------------------------ MODULE SlashPool ------------------------------
(***************************************************************************)
(* contracts/src/SlashPool.sol: the pool that holds the 30% share of a     *)
(* slashed bond.  It pulls each deposit from the caller and books it under *)
(* the report; nothing is ever paid out.  Anyone may deposit.              *)
(***************************************************************************)
EXTENDS BondToken

CONSTANTS
  Pool,        \* the pool's own address
  MaxReports   \* bound: how many reports the registry ever opens

ReportId == 1..MaxReports

VARIABLES
  depositOf,       \* depositOf[r]: what has been deposited for report r
  totalDeposited   \* the sum of all deposits

poolVars == <<depositOf, totalDeposited>>

PoolInit ==
  /\ depositOf = [r \in ReportId |-> 0]
  /\ totalDeposited = 0

\* depositSlash does not revert: the amount is not zero and the caller,
\* whose balances at that point of the transaction are b, can pay it.
PoolAccepts(b, payer, amount) ==
  /\ amount # 0
  /\ Funded(b, payer, amount)

\* Faulty variant of BookDeposit: a second deposit for a report replaces
\* the first instead of adding to it.
BookDepositReplacing(reportId, amount) ==
  /\ depositOf' = [depositOf EXCEPT ![reportId] = amount]
  /\ totalDeposited' = totalDeposited + amount

\* What an accepted deposit writes.
BookDeposit(reportId, amount) ==
  /\ depositOf' = [depositOf EXCEPT ![reportId] = @ + amount]
  /\ totalDeposited' = totalDeposited + amount

\* depositSlash as a transaction of its own, by anyone who holds the token.
DepositSlash(payer, reportId, amount) ==
  /\ PoolAccepts(balance, payer, amount)
  /\ balance' = Transfer(balance, payer, Pool, amount)
  /\ BookDeposit(reportId, amount)
=============================================================================
