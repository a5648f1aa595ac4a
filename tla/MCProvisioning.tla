--------------------------- MODULE MCProvisioning ---------------------------
(* Instances of Provisioning for TLC.                                       *)
EXTENDS Provisioning

MCEnsured == {"ServiceAccount", "BackendService", "Deployment"}
MCApps == {"app"}

\* A spec with a managed Service, one without a workload, which can not be provisioned,
\* and one that can, as its user brings the Service, but whose proxy is told no backend.
Web == [backend |-> "enabled", ports |-> {80}, app |-> "app"]
Headless == [backend |-> "enabled", ports |-> {80}, app |-> ""]
Databases == [backend |-> "disabled", ports |-> {81}, app |-> ""]
MCSpecs == {Web, Headless, Databases}
=============================================================================
