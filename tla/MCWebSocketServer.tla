-------------------------- MODULE MCWebSocketServer -------------------------
(* An instance of WebSocketServer for TLC. *)
EXTENDS WebSocketServer, TLC

CONSTANTS s1, s2, s3, a1, a2

\* A validator that reconnects, and one with a single socket.
TwoOfOne == s1 :> a1 @@ s2 :> a1 @@ s3 :> a2
=============================================================================
