--------------------------- MODULE MC_RateLimiter ---------------------------
(* Instances of RateLimiter for TLC. *)
EXTENDS RateLimiter, TLC

\* Requests are interchangeable: no action names one of them.
Symmetry == Permutations(Request)

=============================================================================
