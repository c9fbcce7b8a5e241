------------------------------ MODULE MCTunnel ------------------------------
(* Poll, refresh and handshake timeout keep the order of the code's 15, 30   *)
(* and 180 seconds, as 1, 2 and 3 units; the longest backoff is 4.           *)
EXTENDS TunnelManager
=============================================================================
