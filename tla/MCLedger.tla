-------------------------------- MODULE MCLedger --------------------------------
(* Small instances of Ledger for TLC. *)
EXTENDS Ledger, TLC

Symmetry == Permutations(Account) \union Permutations(Hold)
================================================================================
