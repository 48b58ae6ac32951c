------------------------------- MODULE MC_OTP -------------------------------
(* Instances of OTP for TLC. *)
EXTENDS OTP, TLC

\* Requests are interchangeable: no action names one of them.
Symmetry == Permutations(Request)

=============================================================================
