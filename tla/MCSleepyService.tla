--------------------------- MODULE MCSleepyService ---------------------------
(* Instances of SleepyService for TLC.                                       *)
EXTENDS SleepyService

CONSTANTS r1, w1

\* One Deployment, one request, one wake goroutine.
MCKind == <<"Deployment">>
MCDependsOn == <<{}>>
MCReplicas == <<1>>
MCRequests == {r1}
MCWakers == {w1}
NoRequests == {}
=============================================================================
