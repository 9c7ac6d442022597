------------------------------- MODULE Billing -------------------------------
(***************************************************************************)
(* BillingService (src/workers/fulfillment/billing.py) and Stripe, which    *)
(* settles every checkout once and reports the outcome by webhook: at least *)
(* once, in any order, each report under an event id of its own.            *)
(***************************************************************************)
EXTENDS Integers, FiniteSets, Sequences

CONSTANTS
    Account,
    Plan,
    Recurring,     \* plans whose payment carries a subscription id
    MaxCheckouts,  \* bound: checkouts created
    Copies         \* event objects Stripe makes of one outcome

ASSUME BillingAssumption ==
    /\ Recurring \subseteq Plan
    /\ MaxCheckouts \in Nat
    /\ IsFiniteSet(Copies)

VARIABLES
    checkouts,     \* the checkout sessions, in the order of their creation
    subscriptions, \* the subscription records
    activations,   \* the list of activation tasks, which nothing shortens
    processed,     \* the event ids handled
    stripe         \* stripe[c]: where Stripe has checkout c

billingVars == <<checkouts, subscriptions, activations, processed, stripe>>

CheckoutId == 1..MaxCheckouts

Checkout ==
    [account : Account, plan : Plan, status : {"pending", "paid", "expired"}]

Outcome == {"completed", "expired", "other"}

\* 0 stands for a Stripe session that was not created by this service.
Event == [session : CheckoutId, type : Outcome, copy : Copies]
           \cup [session : {0}, type : {"completed"}, copy : Copies]

ActivationTask == [account : Account, checkout : CheckoutId, plan : Plan]

BillingTypeOK ==
    /\ checkouts \in Seq(Checkout) /\ Len(checkouts) <= MaxCheckouts
    /\ subscriptions \in Seq([account : Account, plan : Plan])
    /\ activations \in Seq(ActivationTask)
    /\ processed \subseteq Event
    /\ stripe \in [CheckoutId -> {"open", "completed", "expired"}]

BillingInit ==
    /\ checkouts = <<>>
    /\ subscriptions = <<>>
    /\ activations = <<>>
    /\ processed = {}
    /\ stripe = [c \in CheckoutId |-> "open"]

\* create_checkout; with a pending session of the same account and plan it
\* returns that one and there is no step.
CreateCheckout(a, p) ==
    /\ Len(checkouts) < MaxCheckouts
    /\ \A c \in DOMAIN checkouts :
          checkouts[c] # [account |-> a, plan |-> p, status |-> "pending"]
    /\ checkouts' = Append(checkouts,
                           [account |-> a, plan |-> p, status |-> "pending"])
    /\ UNCHANGED <<subscriptions, activations, processed, stripe>>

\* The buyer pays, or Stripe lets the session expire.
StripeSettles(c, outcome) ==
    /\ c \in DOMAIN checkouts
    /\ stripe[c] = "open"
    /\ stripe' = [stripe EXCEPT ![c] = outcome]
    /\ UNCHANGED <<checkouts, subscriptions, activations, processed>>

\* What Stripe may deliver now, again and again.
Issued ==
    {e \in Event : e.session # 0 =>
                     /\ e.session \in DOMAIN checkouts
                     /\ e.type \in {stripe[e.session], "other"}}

Completed(c) ==
    LET s == checkouts[c] IN
    /\ checkouts' = [checkouts EXCEPT ![c].status = "paid"]
    /\ subscriptions' = IF s.plan \in Recurring
         THEN Append(subscriptions, [account |-> s.account, plan |-> s.plan])
         ELSE subscriptions
    /\ activations' = Append(activations,
         [account |-> s.account, checkout |-> c, plan |-> s.plan])

Expired(c) ==
    /\ checkouts' = [checkouts EXCEPT ![c].status = "expired"]
    /\ UNCHANGED <<subscriptions, activations>>

\* Mutant of ProcessWebhook: the event ids are not looked at.
ProcessWebhookAgain(e) ==
    /\ processed' = processed \cup {e}
    /\ IF e.session \in DOMAIN checkouts /\ e.type = "completed"
         THEN Completed(e.session)
         ELSE UNCHANGED <<checkouts, subscriptions, activations>>
    /\ UNCHANGED stripe

\* Mutant of ProcessWebhook: the session is looked up by account and plan.
ProcessWebhookByOwner(e) ==
    /\ e \notin processed /\ e.session \in DOMAIN checkouts
    /\ processed' = processed \cup {e}
    /\ LET same == {c \in DOMAIN checkouts :
                      /\ checkouts[c].account = checkouts[e.session].account
                      /\ checkouts[c].plan = checkouts[e.session].plan}
           first == CHOOSE c \in same : \A d \in same : c <= d
       IN CASE e.type = "completed" -> Completed(first)
            [] e.type = "expired" -> Expired(first)
            [] e.type = "other" ->
                 UNCHANGED <<checkouts, subscriptions, activations>>
    /\ UNCHANGED stripe

\* Mutant of ProcessWebhook: only the checkout made last is remembered.
ProcessWebhookLast(e) ==
    /\ e \notin processed
    /\ processed' = processed \cup {e}
    /\ LET last == e.session > 0 /\ e.session = Len(checkouts)
       IN CASE last /\ e.type = "completed" -> Completed(e.session)
            [] last /\ e.type = "expired" -> Expired(e.session)
            [] OTHER -> UNCHANGED <<checkouts, subscriptions, activations>>
    /\ UNCHANGED stripe

\* process_webhook.  The event id is kept first, whatever comes of the
\* event; an id seen before is no step.  The status is not consulted.
ProcessWebhook(e) ==
    /\ e \notin processed
    /\ processed' = processed \cup {e}
    /\ CASE e.session \notin DOMAIN checkouts ->
              UNCHANGED <<checkouts, subscriptions, activations>>
         [] e.session \in DOMAIN checkouts /\ e.type = "completed" ->
              Completed(e.session)
         [] e.session \in DOMAIN checkouts /\ e.type = "expired" ->
              Expired(e.session)
         [] e.session \in DOMAIN checkouts /\ e.type = "other" ->
              UNCHANGED <<checkouts, subscriptions, activations>>
    /\ UNCHANGED stripe

BillingNext ==
    \/ \E a \in Account, p \in Plan : CreateCheckout(a, p)
    \/ \E c \in CheckoutId, o \in {"completed", "expired"} : StripeSettles(c, o)
    \/ \E e \in Issued : ProcessWebhook(e)

BillingSpec == BillingInit /\ [][BillingNext]_billingVars

-----------------------------------------------------------------------------
TasksOf(c) == {k \in DOMAIN activations : activations[k].checkout = c}

\* The event objects of c's payment that were handled.
Done(c) == {e \in processed : e.session = c /\ e.type = "completed"}

\* A checkout has exactly one activation task for each event object of its
\* payment that was handled, and is paid if and only if it has one: however
\* often and in whatever order events are delivered, and whatever comes after.
ActivatedPerEvent ==
    \A c \in DOMAIN checkouts :
        /\ Cardinality(TasksOf(c)) = Cardinality(Done(c))
        /\ checkouts[c].status = "paid" <=> Done(c) # {}

\* The backlog's promise: a paid checkout emits an activation task exactly
\* once.
ActivatedExactlyOnce ==
    \A c \in DOMAIN checkouts :
        checkouts[c].status = "paid" => Cardinality(TasksOf(c)) = 1

\* The service is behind Stripe or agrees with it, checkout by checkout:
\* no delivery order makes it show an outcome Stripe does not have, also
\* when an account has several checkouts for one plan, some of them expired.
LedgerAgrees ==
    \A c \in DOMAIN checkouts :
        CASE checkouts[c].status = "pending" -> TRUE
          [] checkouts[c].status = "paid" -> stripe[c] = "completed"
          [] checkouts[c].status = "expired" -> stripe[c] = "expired"

\* The backlog's promise for replayed jobs: asking again for the checkout of
\* a plan the account has paid does not lead to a second charge.
ChargedOnce ==
    \A c, d \in DOMAIN checkouts :
        /\ stripe[c] = "completed" /\ stripe[d] = "completed"
        /\ checkouts[c].account = checkouts[d].account
        /\ checkouts[c].plan = checkouts[d].plan
        => c = d
=============================================================================
