---------------------------- MODULE MCForwarder ----------------------------
(* One connection with two chunks from the client and one from the service:   *)
(* enough to fill every queue, to swap two chunks and to end either stream    *)
(* while the other is under way.                                             *)
EXTENDS Forwarder
MCChunks == [client |-> 2, service |-> 1]
=============================================================================
