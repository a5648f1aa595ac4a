---------------------------- MODULE MCReconciler ----------------------------
(* Instances of Reconciler for TLC.                                         *)
EXTENDS Reconciler

\* A database, read live, and an application, read from the cache, that needs it.
MCKind == <<"CNPGCluster", "Deployment">>
MCDependsOn == <<{}, {1}>>
MCReplicas == <<1, 1>>
MCKind3 == <<"CNPGCluster", "CNPGCluster", "StatefulSet">>
MCDependsOn3 == <<{}, {1}, {1, 2}>>
MCReplicas3 == <<1, 1, 1>>
=============================================================================
