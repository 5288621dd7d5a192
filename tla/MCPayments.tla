------------------------------ MODULE MCPayments ------------------------------
(* Module Payments on small sets of concurrent requests.  The run checks     *)
(* liveness with the rest, so no symmetry is used.                           *)
EXTENDS Payments
=============================================================================
