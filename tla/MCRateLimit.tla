----------------------------- MODULE MCRateLimit -----------------------------
(* A ladder of two rungs. *)
EXTENDS RateLimit

CONSTANTS r1, r2

TwoRungs == <<1, 2>>

=============================================================================
