------------------------------ MODULE BondToken ------------------------------
(***************************************************************************)
(* The bond currency: the ERC-20 (WETH on Sepolia) every bond is paid in.  *)
(* The token contract is not part of the repository; these operators are   *)
(* what the contracts rely on through IERC20: a transfer reverts when the  *)
(* payer is short, and otherwise moves the amount.                         *)
(*                                                                         *)
(* Approvals are left out: every allowance the contracts grant (to the     *)
(* oracle, to the slash pool) is used up by the same transaction.          *)
(***************************************************************************)
EXTENDS Integers

CONSTANT Account        \* every address that ever holds the bond currency

VARIABLE balance        \* balance[x]: what x holds

\* A transfer of amount out of payer's balance would not revert.
Funded(b, payer, amount) == b[payer] >= amount

\* The balances after payer has paid amount to payee.
Transfer(b, payer, payee, amount) ==
  [b EXCEPT ![payer] = @ - amount, ![payee] = @ + amount]
=============================================================================
