------------------------------ MODULE MCLedger ------------------------------
(* Small instances of Ledger for TLC. *)
EXTENDS LedgerProperties, TLC

Symmetry == Permutations(Windows)

=============================================================================
