---------------------------- MODULE MCTranscript ----------------------------
(* Transcript with short runs and a window of two pairs.                   *)
EXTENDS Transcript

MCRuns == {<<>>, <<4, 1>>, <<1, 1, 6>>}
=============================================================================
