---------------------------- MODULE DeploymentCheck ----------------------------
(***************************************************************************)
(* scripts/verify_deployment.py, in the workflow that publishes what the    *)
(* gate has pushed: is the site that answers the one that was deployed?     *)
(*                                                                         *)
(* The workflow is .github/workflows/pages.yml: one run at a time, and a    *)
(* newer one cancels it.  The servers are external, modelled from what the  *)
(* read-back is there for: a deployment that was reported may reach the     *)
(* edges of the CDN much later or never, and until then they answer with    *)
(* older sites, or not at all.  A manifest is its commit.                   *)
(***************************************************************************)
EXTENDS ReleaseGate

CONSTANT MaxAttempts    \* read-backs within --max-wait

ASSUME DeploymentAssumption == MaxAttempts \in Nat \ {0}

VARIABLES
    deploy,     \* step of the workflow run
    checkout,   \* its commit
    attempts,
    underway,   \* commits deployed and not yet served
    edges,      \* commits whose site some edge serves
    served,     \* observer: commits whose site was ever served
    receipts    \* commits with a deployment-receipt.json

deployVars == <<deploy, checkout, attempts, underway, edges, served, receipts>>
releaseVars == <<gateVars, deployVars>>

-----------------------------------------------------------------------------
ReleaseInit ==
    /\ GateInit
    /\ deploy = "none"
    /\ checkout = NoCommit
    /\ attempts = 0
    /\ underway = {} /\ edges = {} /\ served = {} /\ receipts = {}

\* A push, or a person, starts the workflow on the branch as it is now.  A
\* second run on the same commit is left out.
StartWorkflow ==
    /\ remote # NoCommit /\ remote # checkout
    /\ deploy' = "building"
    /\ checkout' = remote
    /\ attempts' = 0
    /\ UNCHANGED <<gateVars, underway, edges, served, receipts>>

DeployPages ==
    /\ deploy = "building"
    /\ deploy' = "verifying"
    /\ underway' = underway \cup {checkout}
    /\ UNCHANGED <<gateVars, checkout, attempts, edges, served, receipts>>

EdgeServes(c) ==
    /\ c \in underway
    /\ underway' = underway \ {c}
    /\ edges' = edges \cup {c}
    /\ served' = served \cup {c}
    /\ UNCHANGED <<gateVars, deploy, checkout, attempts, receipts>>

\* The last edge to serve a site has got another one.
EdgeExpires(c) ==
    /\ c \in edges /\ edges # {c}
    /\ edges' = edges \ {c}
    /\ UNCHANGED <<gateVars, deploy, checkout, attempts, underway, served, receipts>>

\* Fault: any manifest will do.
AnyManifest(live) == live \in Commits

Matches(live) == live = checkout

\* One GET, answered by some edge, or not answered.
Matched ==
    /\ deploy = "verifying"
    /\ \E live \in edges : Matches(live)
    /\ attempts' = 0
    /\ deploy' = "verified"
    /\ receipts' = receipts \cup {checkout}
    /\ UNCHANGED <<gateVars, checkout, underway, edges, served>>

\* An older site or an error, and there is time for another GET.
TriesAgain ==
    /\ deploy = "verifying"
    /\ attempts + 1 < MaxAttempts
    /\ attempts' = attempts + 1
    /\ UNCHANGED <<gateVars, deploy, checkout, underway, edges, served, receipts>>

NotVerified ==
    /\ deploy = "verifying"
    /\ attempts + 1 = MaxAttempts
    /\ attempts' = 0
    /\ deploy' = "failed"
    /\ UNCHANGED <<gateVars, checkout, underway, edges, served, receipts>>

DeployNext ==
    \/ StartWorkflow \/ DeployPages \/ Matched \/ TriesAgain \/ NotVerified
    \/ \E c \in Commits : EdgeServes(c) \/ EdgeExpires(c)

ReleaseNext == DeployNext \/ (GateNext /\ UNCHANGED deployVars)

ReleaseSpec == ReleaseInit /\ [][ReleaseNext]_releaseVars

-----------------------------------------------------------------------------
\* "A green deploy-pages step [does not prove] the HTTP endpoint serves that
\* commit" (deployment-verification.md:5): a receipt is of a commit whose site
\* was served and which is on the branch, however late it was deployed, and
\* whichever older site answered, or newer workflow started, in between.
ReceiptsAreEarned == receipts \subseteq (served \cap Behind(remote))
=============================================================================
