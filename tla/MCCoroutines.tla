---------------------------- MODULE MCCoroutines ----------------------------
(* TLC instance of the coroutine library. *)
EXTENDS CoroutinesProps
=============================================================================
