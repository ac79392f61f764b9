---------------------------- MODULE MCBufferCache ----------------------------
(* BufferCache for TLC. *)
EXTENDS BufferCache
=============================================================================
