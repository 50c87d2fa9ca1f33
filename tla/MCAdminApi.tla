----------------------------- MODULE MCAdminApi -----------------------------
(***************************************************************************)
(* Two requests of one address, two tokens, and updates that set the limit,*)
(* the depth or both.                                                      *)
(***************************************************************************)
EXTENDS AdminApi

CONSTANTS r1, r2, ip, t1, t2

=============================================================================
