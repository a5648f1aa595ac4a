---------------------------- MODULE MCWaitingPage ----------------------------
(* Instances of WaitingPage for TLC.                                         *)
EXTENDS WaitingPage

CONSTANTS r1, w1, g1

\* One page, one other request and one wake goroutine.
MCPages == {g1}
MCRequests == {r1}
MCWakers == {w1}
=============================================================================
