------------------------------ MODULE Onboarding ------------------------------
(***************************************************************************)
(* From payment to workspace: the activation tasks billing lists, handed    *)
(* to provisioning by a worker that may see each task many times, since     *)
(* pending_activations never drops one.                                    *)
(***************************************************************************)
EXTENDS Billing

VARIABLES workspaces, provisioned, emails

INSTANCE Provisioning

provisioning == <<workspaces, provisioned, emails>>

vars == <<billingVars, provisioning>>

Init == BillingInit /\ ProvisioningInit

\* The worker takes any task of the list, also one it has taken before.
Activate(k) ==
    /\ Provision(activations[k].account, activations[k].plan)
    /\ UNCHANGED billingVars

Next ==
    \/ BillingNext /\ UNCHANGED provisioning
    \/ \E k \in DOMAIN activations : Activate(k)

Spec == Init /\ [][Next]_vars

\* Stripe delivers every event it has issued in the end, and the worker
\* keeps going through the list.
FairSpec ==
    /\ Spec
    /\ \A e \in Event :
          WF_vars(/\ e \in Issued /\ ProcessWebhook(e)
                  /\ UNCHANGED provisioning)
    /\ WF_vars(\E k \in DOMAIN activations : Activate(k))

TypeOK == BillingTypeOK /\ ProvisioningTypeOK

WorkspacesOf(a) == {k \in DOMAIN workspaces : workspaces[k].account = a}

\* An account gets one workspace and one email, and only after Stripe has a
\* payment of it for the workspace's plan: also when Stripe makes two event
\* objects of one payment, when the account pays several checkouts, and
\* when the worker takes a task again.
WorkspaceOncePaid ==
    /\ \A a \in Account :
          /\ Cardinality(WorkspacesOf(a)) <= 1
          /\ Cardinality({k \in DOMAIN emails : emails[k] = a})
               = Cardinality(WorkspacesOf(a))
    /\ \A k \in DOMAIN workspaces : \E c \in DOMAIN checkouts :
          /\ stripe[c] = "completed"
          /\ checkouts[c].account = workspaces[k].account
          /\ checkouts[c].plan = workspaces[k].plan

\* A buyer who has paid gets a workspace in the end: no order of deliveries
\* makes the service drop the event of a payment for a checkout of its own.
PaidGetsWorkspace ==
    \A c \in CheckoutId :
        stripe[c] = "completed" ~>
            c \in DOMAIN checkouts /\ WorkspacesOf(checkouts[c].account) # {}
=============================================================================
