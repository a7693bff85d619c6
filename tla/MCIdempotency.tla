--------------------------- MODULE MCIdempotency ---------------------------
(* Two processes, so that a retry can reach one that has no future for it. *)
EXTENDS Idempotency
=============================================================================
