-------------------------- MODULE MCApprovalDataFlow -------------------------
(* Handlers and sweeps that share one or two rows.                         *)
EXTENDS ApprovalDataFlow, TLC

Symmetry == Permutations(Users) \cup Permutations(Tasks)
                \cup Permutations(Requests) \cup Permutations(Sweepers)
=============================================================================
