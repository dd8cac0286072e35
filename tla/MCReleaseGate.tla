---------------------------- MODULE MCReleaseGate ----------------------------
(* The gate and the deployment of what it has pushed. *)
EXTENDS DeploymentCheck
=============================================================================
