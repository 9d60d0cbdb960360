------------------------------ MODULE MCGuard -------------------------------
(* Guard for TLC: no client differs from another. *)
EXTENDS Guard, TLC

ClientSymmetry == Permutations(Clients)

=============================================================================
