------------------------ MODULE MCPlaybackTransport ------------------------
(* A restored queue of one entry, and one that is queued at any time.       *)
EXTENDS PlaybackTransport
CONSTANTS e1, e2, u1, u2
MCEntry == {e1, e2}
MCUriOf == (e1 :> u1) @@ (e2 :> u2)
MCRestored == <<e1>>

=============================================================================
