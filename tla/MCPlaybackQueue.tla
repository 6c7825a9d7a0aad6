--------------------------- MODULE MCPlaybackQueue ---------------------------
(* A live source of three tracks, so that the shuffle bag has a choice.       *)
EXTENDS PlaybackQueue

CONSTANTS a, b, c

ThreeTracks == <<a, b, c>>
=============================================================================
