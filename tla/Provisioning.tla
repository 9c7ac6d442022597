----------------------------- MODULE Provisioning -----------------------------
(***************************************************************************)
(* ProvisioningService (src/workers/fulfillment/provisioning.py): one       *)
(* workspace and one onboarding email per account.                         *)
(***************************************************************************)
EXTENDS Sequences

CONSTANTS Account, Plan

VARIABLES
    workspaces,    \* the workspaces, in the order of their creation
    provisioned,   \* the accounts that have one
    emails         \* the accounts of the onboarding emails sent, in order

ProvisioningTypeOK ==
    /\ workspaces \in Seq([account : Account, plan : Plan])
    /\ provisioned \subseteq Account
    /\ emails \in Seq(Account)

ProvisioningInit ==
    /\ workspaces = <<>>
    /\ provisioned = {}
    /\ emails = <<>>

\* Mutant of Provision: what is provisioned is the account's plan.
ProvisionPlan(a, p) ==
    /\ \A k \in DOMAIN workspaces :
          workspaces[k] # [account |-> a, plan |-> p]
    /\ workspaces' = Append(workspaces, [account |-> a, plan |-> p])
    /\ provisioned' = provisioned \cup {a}
    /\ emails' = Append(emails, a)

\* provision; for an account that has its workspace it returns that one,
\* whatever the plan, and there is no step.
Provision(a, p) ==
    /\ ~(/\ a \in provisioned
         /\ \E k \in DOMAIN workspaces : workspaces[k].account = a)
    /\ workspaces' = Append(workspaces, [account |-> a, plan |-> p])
    /\ provisioned' = provisioned \cup {a}
    /\ emails' = Append(emails, a)
=============================================================================
