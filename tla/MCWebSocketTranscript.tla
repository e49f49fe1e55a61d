----------------------- MODULE MCWebSocketTranscript -----------------------
(* Instances of WebSocketTranscript for TLC.                               *)
EXTENDS WebSocketTranscript
=============================================================================
