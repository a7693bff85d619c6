--------------------------- MODULE MCUpstreamCalls ---------------------------
(* More requests than slots, and providers enough for one to be tried next. *)
EXTENDS UpstreamCalls
=============================================================================
