------------------------ MODULE MCWebSocketScheduler ------------------------
(* The instance of WebSocketScheduler for TLC: the sessions are model values *)
(* of the configuration.  Not symmetric, since liveness is checked.          *)
EXTENDS WebSocketScheduler
=============================================================================
