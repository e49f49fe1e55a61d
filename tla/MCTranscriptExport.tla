------------------------- MODULE MCTranscriptExport -------------------------
(* Instances of TranscriptExport for TLC.                                  *)
EXTENDS TranscriptExport
=============================================================================
