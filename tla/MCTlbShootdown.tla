--------------------------- MODULE MCTlbShootdown ---------------------------
(* Two cores, of which one may be disabled, and two processes.              *)
EXTENDS TlbShootdown

MCContexts == {AnyContext, 1}
=============================================================================
