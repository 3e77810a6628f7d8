----------------------------- MODULE MCLifecycle -----------------------------
(***************************************************************************)
(* Two unary requests and a stream: one may be answered before the stop,   *)
(* one during it, and the stream may stay open as long as it likes.        *)
(***************************************************************************)
EXTENDS Lifecycle
=============================================================================
