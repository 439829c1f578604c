----------------------------- MODULE MCCustody -----------------------------
(***************************************************************************)
(* Custody on a small number format, with the order of the real limits:    *)
(* 5 significant bits instead of 53, so 1 digit instead of 15 survives; an *)
(* amount on Solana is below 40 instead of 2^64, so Number can lose some   *)
(* of it; numbers print plainly below 10^2 instead of 10^21; Ethereum      *)
(* counts in 10^-1.  35 becomes 36 at scale 1 and 350 cannot be read; 7    *)
(* times 10 becomes 72, which prints as 70.                                *)
(***************************************************************************)
EXTENDS Custody

MCScales == {1, 10}
MCTens == {1, 10, 100, 1000, 10000}
MCUlps == {1, 2, 4, 8, 16, 32, 64, 128, 256}

MCAmounts == [evm |-> {6, 36, 40}, solana |-> {3, 7, 33, 35}]
MCVaults == [evm |-> 60, solana |-> 50]

(* What the theorems assume of the numbers. *)
ASSUME FloatsReach /\ LimitIsNumber
=============================================================================
