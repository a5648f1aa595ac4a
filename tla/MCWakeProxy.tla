----------------------------- MODULE MCWakeProxy -----------------------------
(* Instances of WakeProxy for TLC.                                           *)
EXTENDS WakeProxy

CONSTANTS r1, w1, w2

\* One request and one wake goroutine.
MCRequests == {r1}
MCWakers == {w1}

\* Two goroutines, one of which may still wait when the other starts.
TwoWakers == {w1, w2}
=============================================================================
