----------------------------- MODULE MC_Session -----------------------------
(* Instances of Session for TLC. *)
EXTENDS Session, TLC

\* Requests and addresses are interchangeable: no action names one of them.
Symmetry == Permutations(Request) \cup Permutations(Email)

=============================================================================
