-------------------------- MODULE OnboardingProofs --------------------------
(***************************************************************************)
(* From payment to workspace, for any accounts, plans and checkouts: what   *)
(* BillingService shows is what Stripe has, however its events arrive, and  *)
(* ProvisioningService makes one workspace of what was paid.               *)
(***************************************************************************)
EXTENDS Onboarding, FiniteSetTheorems, TLAPS

\* What a list becomes when an element is added at its end.
LEMMA Appended ==
    ASSUME NEW S, NEW q \in Seq(S), NEW e \in S
    PROVE  /\ Append(q, e) \in Seq(S)
           /\ Len(q) \in Nat /\ Len(Append(q, e)) = Len(q) + 1
           /\ DOMAIN q = 1..Len(q)
           /\ DOMAIN Append(q, e) = DOMAIN q \cup {Len(q) + 1}
           /\ Len(q) + 1 \notin DOMAIN q
           /\ Append(q, e)[Len(q) + 1] = e
           /\ \A k \in DOMAIN q : Append(q, e)[k] = q[k] /\ q[k] \in S
  OBVIOUS

-----------------------------------------------------------------------------
(* The invariant of billing.                                               *)

\* A task is of a checkout that is paid, its account and its plan.
TasksPaid ==
    \A k \in DOMAIN activations :
        LET c == activations[k].checkout IN
        /\ c \in DOMAIN checkouts
        /\ checkouts[c].status = "paid"
        /\ checkouts[c].account = activations[k].account
        /\ checkouts[c].plan = activations[k].plan

\* A checkout is paid once an event of its payment is handled, and has a
\* task for each.
TasksCounted ==
    \A c \in DOMAIN checkouts :
        /\ checkouts[c].status = "paid" <=> Done(c) # {}
        /\ IsFiniteSet(TasksOf(c)) /\ IsFiniteSet(Done(c))
        /\ Cardinality(TasksOf(c)) = Cardinality(Done(c))

BillingInv ==
    /\ BillingTypeOK
    /\ processed \subseteq Issued
    /\ LedgerAgrees
    /\ TasksPaid
    /\ TasksCounted

LEMMA EventFields ==
    ASSUME NEW e \in Event
    PROVE  /\ e.session \in CheckoutId \cup {0}
           /\ e.type \in Outcome /\ e.copy \in Copies
           /\ \A d \in Event : d.session = e.session /\ d.type = e.type
                               /\ d.copy = e.copy => d = e
  BY DEF Event, Outcome

LEMMA CheckoutFields ==
    ASSUME BillingTypeOK, NEW c \in DOMAIN checkouts
    PROVE  /\ checkouts[c] \in Checkout /\ c \in CheckoutId
           /\ checkouts[c].account \in Account /\ checkouts[c].plan \in Plan
           /\ checkouts[c].status \in {"pending", "paid", "expired"}
<1>1. checkouts[c] \in Checkout /\ c \in 1..MaxCheckouts
  BY BillingAssumption DEF BillingTypeOK
<1> QED
  BY <1>1 DEF Checkout, CheckoutId

LEMMA BillingStarts == BillingInit => BillingInv
<1> SUFFICES ASSUME BillingInit PROVE BillingInv
  OBVIOUS
<1>1. BillingTypeOK
  BY BillingAssumption DEF BillingInit, BillingTypeOK
<1>2. DOMAIN checkouts = {} /\ DOMAIN activations = {} /\ processed = {}
  BY DEF BillingInit
<1> QED
  BY <1>1, <1>2 DEF BillingInv, LedgerAgrees, TasksPaid, TasksCounted

\* A new checkout is pending, without events and without tasks.
LEMMA CreateKeeps ==
    ASSUME BillingInv, NEW a \in Account, NEW p \in Plan, CreateCheckout(a, p)
    PROVE  BillingInv'
<1> DEFINE s == [account |-> a, plan |-> p, status |-> "pending"]
           n == Len(checkouts) + 1
<1>1. /\ checkouts' = Append(checkouts, s) /\ s \in Checkout
      /\ Len(checkouts) < MaxCheckouts
      /\ UNCHANGED <<subscriptions, activations, processed, stripe>>
  BY DEF CreateCheckout, Checkout
<1>2. BillingTypeOK /\ checkouts \in Seq(Checkout)
  BY DEF BillingInv, BillingTypeOK
<1>3. /\ checkouts' \in Seq(Checkout) /\ Len(checkouts') = n
      /\ DOMAIN checkouts' = DOMAIN checkouts \cup {n} /\ n \notin DOMAIN checkouts
      /\ checkouts'[n] = s /\ \A c \in DOMAIN checkouts : checkouts'[c] = checkouts[c]
      /\ Len(checkouts) \in Nat /\ n # 0
  BY <1>1, <1>2, Appended
<1>4. s.status = "pending"
  OBVIOUS
<1> HIDE DEF s, n
<1>5. BillingTypeOK'
  BY <1>1, <1>2, <1>3, BillingAssumption DEF BillingTypeOK, n
<1>6. (processed \subseteq Issued)'
  BY <1>1, <1>3 DEF BillingInv, Issued
<1>7. LedgerAgrees'
  BY <1>1, <1>3, <1>4 DEF BillingInv, LedgerAgrees
<1>8. TasksPaid'
  BY <1>1, <1>3 DEF BillingInv, TasksPaid
<1>9. /\ \A c : Done(c)' = Done(c) /\ TasksOf(c)' = TasksOf(c)
      /\ Done(n) = {} /\ TasksOf(n) = {}
  BY <1>1, <1>3 DEF Done, TasksOf, BillingInv, Issued, TasksPaid
<1>10. TasksCounted'
  BY <1>3, <1>4, <1>9, FS_EmptySet DEF BillingInv, TasksCounted
<1> QED
  BY <1>5, <1>6, <1>7, <1>8, <1>10 DEF BillingInv

\* Stripe settles an open checkout: nothing was reported of it.
LEMMA SettleKeeps ==
    ASSUME BillingInv, NEW c \in CheckoutId, NEW o \in {"completed", "expired"},
           StripeSettles(c, o)
    PROVE  BillingInv'
<1>1. /\ c \in DOMAIN checkouts /\ stripe[c] = "open"
      /\ stripe' = [stripe EXCEPT ![c] = o]
      /\ UNCHANGED <<checkouts, subscriptions, activations, processed>>
  BY DEF StripeSettles
<1>2. stripe \in [CheckoutId -> {"open", "completed", "expired"}]
  BY DEF BillingInv, BillingTypeOK
<1>3. BillingTypeOK'
  BY <1>1, <1>2 DEF BillingInv, BillingTypeOK
<1>4. \A d \in CheckoutId : stripe'[d] = IF d = c THEN o ELSE stripe[d]
  BY <1>1, <1>2
<1>5. (processed \subseteq Issued)'
  <2>1. ASSUME NEW e \in processed PROVE e \in Issued'
    <3>1. e \in Issued /\ e \in Event
      BY DEF BillingInv, Issued
    <3>2. e.session = c => e.type = "other"
      BY <1>1, <3>1, EventFields DEF Issued, Outcome, CheckoutId
    <3>3. e.session # 0 => e.session \in CheckoutId
      BY <3>1, EventFields
    <3> QED
      BY <1>1, <1>4, <3>1, <3>2, <3>3 DEF Issued
  <2> QED
    BY <1>1, <2>1
<1>6. LedgerAgrees'
  <2> SUFFICES ASSUME NEW d \in DOMAIN checkouts
               PROVE  CASE checkouts[d].status = "pending" -> TRUE
                        [] checkouts[d].status = "paid" -> stripe'[d] = "completed"
                        [] checkouts[d].status = "expired" -> stripe'[d] = "expired"
    BY <1>1 DEF LedgerAgrees
  <2>1. d \in CheckoutId /\ checkouts[d].status \in {"pending", "paid", "expired"}
    BY CheckoutFields DEF BillingInv
  <2>2. CASE checkouts[d].status = "pending"
    BY <2>2
  <2>3. CASE checkouts[d].status = "paid"
    <3>1. stripe[d] = "completed"
      BY <2>3 DEF BillingInv, LedgerAgrees
    <3> QED
      BY <1>1, <1>4, <2>1, <2>3, <3>1
  <2>4. CASE checkouts[d].status = "expired"
    <3>1. stripe[d] = "expired"
      BY <2>4 DEF BillingInv, LedgerAgrees
    <3> QED
      BY <1>1, <1>4, <2>1, <2>4, <3>1
  <2> QED
    BY <2>1, <2>2, <2>3, <2>4
<1>7. TasksPaid' /\ TasksCounted'
  <2>1. \A d : Done(d)' = Done(d) /\ TasksOf(d)' = TasksOf(d)
    BY <1>1 DEF Done, TasksOf
  <2> QED
    BY <1>1, <2>1 DEF BillingInv, TasksPaid, TasksCounted
<1> QED
  BY <1>3, <1>5, <1>6, <1>7 DEF BillingInv

\* A payment event reported of a checkout that Stripe has as completed.
LEMMA PaymentKeeps ==
    ASSUME BillingInv, NEW e \in Issued, e \notin processed,
           e.session \in DOMAIN checkouts, e.type = "completed",
           processed' = processed \cup {e}, Completed(e.session), UNCHANGED stripe
    PROVE  BillingInv'
<1> DEFINE n == Len(activations) + 1
<1>1. PICK c \in DOMAIN checkouts : c = e.session
  OBVIOUS
<1>2. PICK s \in Checkout : s = checkouts[c]
  BY CheckoutFields DEF BillingInv
<1>3. /\ c \in CheckoutId /\ c # 0 /\ s.account \in Account /\ s.plan \in Plan
      /\ s.status \in {"pending", "paid", "expired"}
  BY <1>2, CheckoutFields DEF BillingInv, CheckoutId
<1> DEFINE task == [account |-> s.account, checkout |-> c, plan |-> s.plan]
           paid == [s EXCEPT !.status = "paid"]
<1>4. /\ task \in ActivationTask /\ task.account = s.account
      /\ task.checkout = c /\ task.plan = s.plan
  BY <1>3 DEF ActivationTask
<1>5. /\ paid \in Checkout /\ paid.account = s.account /\ paid.plan = s.plan
      /\ paid.status = "paid"
  BY <1>3 DEF Checkout
<1>6. /\ checkouts' = [checkouts EXCEPT ![c] = paid]
      /\ activations' = Append(activations, task)
      /\ \/ subscriptions' = subscriptions
         \/ subscriptions' = Append(subscriptions,
                                    [account |-> s.account, plan |-> s.plan])
  BY <1>1, <1>2 DEF Completed
<1>7. /\ checkouts \in Seq(Checkout) /\ activations \in Seq(ActivationTask)
      /\ subscriptions \in Seq([account : Account, plan : Plan])
      /\ stripe \in [CheckoutId -> {"open", "completed", "expired"}]
      /\ processed \subseteq Event /\ BillingTypeOK
  BY DEF BillingInv, BillingTypeOK
<1> HIDE DEF task, paid
<1>8. /\ checkouts' \in Seq(Checkout) /\ Len(checkouts') = Len(checkouts)
      /\ DOMAIN checkouts' = DOMAIN checkouts /\ checkouts'[c] = paid
      /\ \A d \in DOMAIN checkouts : d # c => checkouts'[d] = checkouts[d]
  BY <1>5, <1>6, <1>7
<1>9. /\ activations' \in Seq(ActivationTask)
      /\ DOMAIN activations' = DOMAIN activations \cup {n} /\ n \notin DOMAIN activations
      /\ activations'[n] = task
      /\ \A k \in DOMAIN activations : activations'[k] = activations[k]
  BY <1>4, <1>6, <1>7, Appended
<1>10. subscriptions' \in Seq([account : Account, plan : Plan])
  <2>1. PICK r \in [account : Account, plan : Plan] :
               r = [account |-> s.account, plan |-> s.plan]
    BY <1>3
  <2>2. Append(subscriptions, r) \in Seq([account : Account, plan : Plan])
    BY <1>7, Appended
  <2> QED
    BY <1>6, <1>7, <2>1, <2>2
<1> HIDE DEF n
<1>11. stripe[c] = "completed"
  BY <1>1, <1>3 DEF Issued
<1>12. BillingTypeOK'
  BY <1>7, <1>8, <1>9, <1>10 DEF BillingTypeOK, Issued
<1>13. (processed \subseteq Issued)'
  BY <1>8 DEF BillingInv, Issued
<1>14. LedgerAgrees'
  BY <1>3, <1>5, <1>8, <1>11 DEF BillingInv, LedgerAgrees
<1>15. TasksPaid'
  <2>1. ASSUME NEW k \in DOMAIN activations', NEW d, d = activations'[k].checkout
        PROVE  /\ d \in DOMAIN checkouts' /\ checkouts'[d].status = "paid"
               /\ checkouts'[d].account = activations'[k].account
               /\ checkouts'[d].plan = activations'[k].plan
    <3>1. CASE k = n
      BY <1>4, <1>5, <1>8, <1>9, <2>1, <3>1
    <3>2. CASE k # n
      <4>1. k \in DOMAIN activations /\ activations'[k] = activations[k]
        BY <1>9, <3>2
      <4>2. /\ d \in DOMAIN checkouts /\ checkouts[d].status = "paid"
            /\ checkouts[d].account = activations[k].account
            /\ checkouts[d].plan = activations[k].plan
        BY <2>1, <4>1 DEF BillingInv, TasksPaid
      <4>3. checkouts'[d].account = checkouts[d].account
            /\ checkouts'[d].plan = checkouts[d].plan /\ checkouts'[d].status = "paid"
        BY <1>2, <1>5, <1>8, <4>2
      <4> QED
        BY <1>8, <4>1, <4>2, <4>3
    <3> QED
      BY <3>1, <3>2
  <2> QED
    BY <2>1 DEF TasksPaid
<1>16. /\ Done(c)' = Done(c) \cup {e} /\ e \notin Done(c)
       /\ \A d : d # c => Done(d)' = Done(d)
  BY <1>1 DEF Done
<1>17. /\ TasksOf(c)' = TasksOf(c) \cup {n} /\ n \notin TasksOf(c)
       /\ \A d : d # c => TasksOf(d)' = TasksOf(d)
  BY <1>4, <1>9 DEF TasksOf
<1>18. TasksCounted'
  <2>1. ASSUME NEW d \in DOMAIN checkouts, d # c
        PROVE  /\ checkouts'[d].status = "paid" <=> Done(d)' # {}
               /\ IsFiniteSet(TasksOf(d)') /\ IsFiniteSet(Done(d)')
               /\ Cardinality(TasksOf(d)') = Cardinality(Done(d)')
    BY <1>8, <1>16, <1>17, <2>1 DEF BillingInv, TasksCounted
  <2>2. /\ IsFiniteSet(TasksOf(c)) /\ IsFiniteSet(Done(c))
        /\ Cardinality(TasksOf(c)) = Cardinality(Done(c))
    BY DEF BillingInv, TasksCounted
  <2>3. /\ IsFiniteSet(TasksOf(c)') /\ IsFiniteSet(Done(c)')
        /\ Cardinality(TasksOf(c)') = Cardinality(Done(c)')
    <3>1. /\ IsFiniteSet(TasksOf(c) \cup {n})
          /\ Cardinality(TasksOf(c) \cup {n}) = Cardinality(TasksOf(c)) + 1
      BY <1>17, <2>2, FS_AddElement
    <3>2. /\ IsFiniteSet(Done(c) \cup {e})
          /\ Cardinality(Done(c) \cup {e}) = Cardinality(Done(c)) + 1
      BY <1>16, <2>2, FS_AddElement
    <3> QED
      BY <1>16, <1>17, <2>2, <3>1, <3>2
  <2>4. checkouts'[c].status = "paid" /\ Done(c)' # {}
    BY <1>5, <1>8, <1>16
  <2> QED
    BY <1>8, <2>1, <2>3, <2>4 DEF TasksCounted
<1> QED
  BY <1>12, <1>13, <1>14, <1>15, <1>18 DEF BillingInv

\* An event that changes no task: an expiry, one of another kind, or one of
\* a session of somebody else.
LEMMA OtherEventKeeps ==
    ASSUME BillingInv, NEW e \in Issued,
           ~(e.session \in DOMAIN checkouts /\ e.type = "completed"),
           processed' = processed \cup {e}, UNCHANGED <<stripe, activations, subscriptions>>,
           \/ UNCHANGED checkouts
           \/ /\ e.session \in DOMAIN checkouts /\ e.type = "expired"
              /\ checkouts' = [checkouts EXCEPT ![e.session].status = "expired"]
    PROVE  BillingInv'
<1>1. /\ checkouts \in Seq(Checkout) /\ BillingTypeOK
      /\ processed \subseteq Event /\ e \in Event
  BY DEF BillingInv, BillingTypeOK, Issued
<1>2. /\ \A c \in DOMAIN checkouts : Done(c)' = Done(c)
      /\ \A c : TasksOf(c)' = TasksOf(c)
  BY DEF Done, TasksOf
<1>3. CASE UNCHANGED checkouts
  <2>1. BillingTypeOK' /\ (processed \subseteq Issued)' /\ LedgerAgrees' /\ TasksPaid'
    BY <1>1, <1>3 DEF BillingInv, BillingTypeOK, Issued, LedgerAgrees, TasksPaid
  <2>2. TasksCounted'
    BY <1>2, <1>3 DEF BillingInv, TasksCounted
  <2> QED
    BY <2>1, <2>2 DEF BillingInv
<1>4. ASSUME NEW c \in DOMAIN checkouts, c = e.session, e.type = "expired",
             checkouts' = [checkouts EXCEPT ![c].status = "expired"]
      PROVE  BillingInv'
  <2>1. PICK s \in Checkout : s = checkouts[c]
    BY <1>1, CheckoutFields
  <2> DEFINE over == [s EXCEPT !.status = "expired"]
  <2>2. over \in Checkout /\ over.status = "expired"
    BY DEF Checkout
  <2>3. checkouts' = [checkouts EXCEPT ![c] = over]
    BY <1>4, <2>1
  <2> HIDE DEF over
  <2>4. /\ checkouts' \in Seq(Checkout) /\ Len(checkouts') = Len(checkouts)
        /\ DOMAIN checkouts' = DOMAIN checkouts /\ checkouts'[c] = over
        /\ \A d \in DOMAIN checkouts : d # c => checkouts'[d] = checkouts[d]
    BY <1>1, <2>2, <2>3
  <2>5. c \in CheckoutId /\ c # 0 /\ stripe[c] = "expired"
    BY <1>1, <1>4, CheckoutFields DEF Issued, CheckoutId
  <2>6. BillingTypeOK' /\ (processed \subseteq Issued)'
    BY <1>1, <2>4 DEF BillingInv, BillingTypeOK, Issued
  <2>7. LedgerAgrees'
    BY <2>2, <2>4, <2>5 DEF BillingInv, LedgerAgrees
  <2>8. s.status # "paid"
    BY <2>1, <2>5 DEF BillingInv, LedgerAgrees
  <2>9. TasksPaid'
    <3>1. ASSUME NEW k \in DOMAIN activations, NEW d, d = activations[k].checkout
          PROVE  /\ d \in DOMAIN checkouts /\ checkouts'[d].status = "paid"
                 /\ checkouts'[d].account = activations[k].account
                 /\ checkouts'[d].plan = activations[k].plan
      <4>1. /\ d \in DOMAIN checkouts /\ checkouts[d].status = "paid"
            /\ checkouts[d].account = activations[k].account
            /\ checkouts[d].plan = activations[k].plan
        BY <3>1 DEF BillingInv, TasksPaid
      <4>2. d # c
        BY <2>1, <2>8, <4>1
      <4> QED
        BY <2>4, <4>1, <4>2
    <3> QED
      BY <2>4, <3>1 DEF TasksPaid
  <2>10. TasksCounted'
    <3>1. ASSUME NEW d \in DOMAIN checkouts
          PROVE  checkouts'[d].status = "paid" <=> checkouts[d].status = "paid"
      BY <2>1, <2>2, <2>4, <2>8
    <3> QED
      BY <1>2, <2>4, <3>1 DEF BillingInv, TasksCounted
  <2> QED
    BY <2>6, <2>7, <2>9, <2>10 DEF BillingInv
<1> QED
  BY <1>3, <1>4

LEMMA BillingKept == BillingInv /\ [BillingNext]_billingVars => BillingInv'
<1> SUFFICES ASSUME BillingInv, [BillingNext]_billingVars PROVE BillingInv'
  OBVIOUS
<1>1. CASE UNCHANGED billingVars
  <2>1. \A c : Done(c)' = Done(c) /\ TasksOf(c)' = TasksOf(c)
    BY <1>1 DEF billingVars, Done, TasksOf
  <2> QED
    BY <1>1, <2>1 DEF billingVars, BillingInv, BillingTypeOK, Issued, LedgerAgrees,
                      TasksPaid, TasksCounted
<1>2. ASSUME NEW a \in Account, NEW p \in Plan, CreateCheckout(a, p) PROVE BillingInv'
  BY <1>2, CreateKeeps
<1>3. ASSUME NEW c \in CheckoutId, NEW o \in {"completed", "expired"}, StripeSettles(c, o)
      PROVE  BillingInv'
  BY <1>3, SettleKeeps
<1>4. ASSUME NEW e \in Issued, ProcessWebhook(e) PROVE BillingInv'
  <2>1. /\ e \notin processed /\ processed' = processed \cup {e} /\ UNCHANGED stripe
        /\ e.type \in {"completed", "expired", "other"}
    BY <1>4, EventFields DEF ProcessWebhook, Outcome, Issued
  <2>2. CASE e.session \in DOMAIN checkouts /\ e.type = "completed"
    <3>1. Completed(e.session)
      BY <1>4, <2>2 DEF ProcessWebhook
    <3> QED
      BY <2>1, <2>2, <3>1, PaymentKeeps
  <2>3. CASE e.session \in DOMAIN checkouts /\ e.type = "expired"
    <3>1. Expired(e.session)
      BY <1>4, <2>3 DEF ProcessWebhook
    <3> QED
      BY <2>1, <2>3, <3>1, OtherEventKeeps DEF Expired
  <2>4. CASE e.session \notin DOMAIN checkouts \/ e.type = "other"
    <3>1. UNCHANGED <<checkouts, subscriptions, activations>>
      BY <1>4, <2>4 DEF ProcessWebhook
    <3> QED
      BY <2>1, <2>4, <3>1, OtherEventKeeps
  <2> QED
    BY <2>1, <2>2, <2>3, <2>4
<1> QED
  BY <1>1, <1>2, <1>3, <1>4 DEF BillingNext

-----------------------------------------------------------------------------
(* Every step of onboarding is a step of billing or leaves it alone.       *)

LEMMA BillingAlways == BillingSpec => []BillingInv
  BY BillingStarts, BillingKept, PTL DEF BillingSpec

\* Onboarding implements billing: whatever the worker does with the tasks,
\* the service of billing goes on as it is specified by itself.
THEOREM OnboardingIsBilling == Spec => BillingSpec
<1>1. Init => BillingInit
  BY DEF Init
<1>2. [Next]_vars => [BillingNext]_billingVars
  BY DEF Next, Activate, vars
<1> QED
  BY <1>1, <1>2, PTL DEF Spec, BillingSpec

\* The service shows no outcome that Stripe does not have, in whatever order
\* and however often events are delivered, for any number of checkouts.
THEOREM ServiceAgreesWithStripe == Spec => []LedgerAgrees
<1>1. BillingInv => LedgerAgrees
  BY DEF BillingInv
<1> QED
  BY <1>1, BillingAlways, OnboardingIsBilling, PTL

\* A checkout has one activation task for each event object of its payment
\* that was handled, and is paid if and only if there is one.
THEOREM TasksMatchEvents == Spec => []ActivatedPerEvent
<1>1. BillingInv => ActivatedPerEvent
  BY DEF BillingInv, TasksCounted, ActivatedPerEvent
<1> QED
  BY <1>1, BillingAlways, OnboardingIsBilling, PTL

-----------------------------------------------------------------------------
(* One workspace of what was paid.                                         *)

Owners == {workspaces[k].account : k \in DOMAIN workspaces}

\* One workspace and one email of each account that is provisioned.
OneEach ==
    /\ provisioned = Owners
    /\ \A j, k \in DOMAIN workspaces :
          workspaces[j].account = workspaces[k].account => j = k
    /\ DOMAIN emails = DOMAIN workspaces /\ Len(emails) = Len(workspaces)
    /\ \A k \in DOMAIN workspaces : emails[k] = workspaces[k].account

\* A workspace is of a payment that Stripe has.
PaidFor ==
    \A k \in DOMAIN workspaces : \E c \in DOMAIN checkouts :
        /\ stripe[c] = "completed"
        /\ checkouts[c].account = workspaces[k].account
        /\ checkouts[c].plan = workspaces[k].plan

Inv == BillingInv /\ ProvisioningTypeOK /\ OneEach /\ PaidFor

LEMMA InvInit == Init => Inv
<1> SUFFICES ASSUME Init PROVE Inv
  OBVIOUS
<1>1. BillingInv
  BY BillingStarts DEF Init
<1>2. DOMAIN workspaces = {} /\ DOMAIN emails = {} /\ Len(emails) = Len(workspaces)
  BY DEF Init, ProvisioningInit
<1>3. ProvisioningTypeOK
  BY DEF Init, ProvisioningInit, ProvisioningTypeOK
<1>4. OneEach /\ PaidFor
  BY <1>2 DEF OneEach, Owners, PaidFor, Init, ProvisioningInit
<1> QED
  BY <1>1, <1>3, <1>4 DEF Inv

\* What billing does takes no payment back.
LEMMA PaymentsStay ==
    ASSUME BillingInv, BillingInv', [BillingNext]_billingVars,
           NEW c \in DOMAIN checkouts, stripe[c] = "completed"
    PROVE  /\ c \in DOMAIN checkouts' /\ stripe'[c] = "completed"
           /\ checkouts'[c].account = checkouts[c].account
           /\ checkouts'[c].plan = checkouts[c].plan
<1>1. /\ checkouts \in Seq(Checkout) /\ checkouts[c] \in Checkout /\ c \in CheckoutId
      /\ stripe \in [CheckoutId -> {"open", "completed", "expired"}]
  BY CheckoutFields DEF BillingInv, BillingTypeOK
<1>2. CASE UNCHANGED billingVars
  BY <1>2 DEF billingVars
<1>3. ASSUME NEW a \in Account, NEW p \in Plan, CreateCheckout(a, p)
      PROVE  /\ c \in DOMAIN checkouts' /\ stripe'[c] = "completed"
             /\ checkouts'[c] = checkouts[c]
  <2> DEFINE s == [account |-> a, plan |-> p, status |-> "pending"]
  <2>1. checkouts' = Append(checkouts, s) /\ s \in Checkout /\ stripe' = stripe
    BY <1>3 DEF CreateCheckout, Checkout
  <2> HIDE DEF s
  <2> QED
    BY <1>1, <2>1, Appended
<1>4. ASSUME NEW d \in CheckoutId, NEW o \in {"completed", "expired"}, StripeSettles(d, o)
      PROVE  /\ c \in DOMAIN checkouts' /\ stripe'[c] = "completed"
             /\ checkouts'[c] = checkouts[c]
  BY <1>1, <1>4 DEF StripeSettles
<1>5. ASSUME NEW e \in Issued, ProcessWebhook(e)
      PROVE  /\ c \in DOMAIN checkouts' /\ stripe'[c] = "completed"
             /\ checkouts'[c].account = checkouts[c].account
             /\ checkouts'[c].plan = checkouts[c].plan
  <2>1. stripe' = stripe /\ e.type \in {"completed", "expired", "other"}
    BY <1>5, EventFields DEF ProcessWebhook, Outcome, Issued
  <2>2. \/ checkouts' = checkouts
        \/ /\ e.session \in DOMAIN checkouts
           /\ \E v \in {"paid", "expired"} :
                 checkouts' = [checkouts EXCEPT ![e.session].status = v]
    BY <1>5, <2>1 DEF ProcessWebhook, Completed, Expired
  <2>3. CASE checkouts' = checkouts
    BY <2>1, <2>3
  <2>4. ASSUME NEW v \in {"paid", "expired"}, e.session \in DOMAIN checkouts,
               checkouts' = [checkouts EXCEPT ![e.session].status = v]
        PROVE  /\ c \in DOMAIN checkouts'
               /\ checkouts'[c].account = checkouts[c].account
               /\ checkouts'[c].plan = checkouts[c].plan
    BY <1>1, <2>4 DEF Checkout
  <2> QED
    BY <2>1, <2>2, <2>3, <2>4
<1> QED
  BY <1>2, <1>3, <1>4, <1>5 DEF BillingNext

\* A task taken again, or of an account that has its workspace, is no step.
LEMMA ActivateKeeps ==
    ASSUME Inv, NEW i \in DOMAIN activations, Activate(i) PROVE Inv'
<1>1. PICK t \in ActivationTask : t = activations[i]
  BY DEF Inv, BillingInv, BillingTypeOK
<1>2. PICK c \in DOMAIN checkouts :
             /\ checkouts[c].status = "paid"
             /\ checkouts[c].account = t.account /\ checkouts[c].plan = t.plan
  BY <1>1 DEF Inv, BillingInv, TasksPaid
<1>3. stripe[c] = "completed"
  BY <1>2 DEF Inv, BillingInv, LedgerAgrees
<1> DEFINE w == [account |-> t.account, plan |-> t.plan]
           n == Len(workspaces) + 1
<1>4. /\ t.account \in Account /\ w \in [account : Account, plan : Plan]
      /\ w.account = t.account /\ w.plan = t.plan
  BY DEF ActivationTask
<1>5. /\ workspaces' = Append(workspaces, w)
      /\ provisioned' = provisioned \cup {t.account}
      /\ emails' = Append(emails, t.account)
      /\ ~(/\ t.account \in provisioned
           /\ \E k \in DOMAIN workspaces : workspaces[k].account = t.account)
      /\ UNCHANGED billingVars
  BY <1>1 DEF Activate, Provision
<1>6. /\ workspaces \in Seq([account : Account, plan : Plan]) /\ emails \in Seq(Account)
      /\ provisioned \subseteq Account
  BY DEF Inv, ProvisioningTypeOK
<1> HIDE DEF w, n
<1>7. /\ workspaces' \in Seq([account : Account, plan : Plan])
      /\ Len(workspaces') = n /\ workspaces'[n] = w
      /\ DOMAIN workspaces' = DOMAIN workspaces \cup {n} /\ n \notin DOMAIN workspaces
      /\ \A k \in DOMAIN workspaces : workspaces'[k] = workspaces[k]
  BY <1>4, <1>5, <1>6, Appended DEF n
<1>8. /\ emails' \in Seq(Account) /\ Len(emails') = n /\ emails'[n] = t.account
      /\ DOMAIN emails' = DOMAIN workspaces \cup {n}
      /\ \A k \in DOMAIN workspaces : emails'[k] = emails[k]
  <2>1. Len(emails) + 1 = n /\ DOMAIN emails = DOMAIN workspaces
    BY DEF Inv, OneEach, n
  <2> QED
    BY <1>4, <1>5, <1>6, <2>1, Appended
<1>9. t.account \notin Owners
  BY <1>5 DEF Inv, OneEach, Owners
<1>10. ProvisioningTypeOK'
  BY <1>4, <1>5, <1>6, <1>7, <1>8 DEF ProvisioningTypeOK
<1>11. OneEach'
  <2>1. Owners' = Owners \cup {t.account}
    BY <1>4, <1>7 DEF Owners
  <2>2. \A k \in DOMAIN workspaces : workspaces[k].account # t.account
    BY <1>9 DEF Owners
  <2>3. \A j, k \in DOMAIN workspaces' :
           workspaces'[j].account = workspaces'[k].account => j = k
    BY <1>4, <1>7, <2>2 DEF Inv, OneEach
  <2>4. \A k \in DOMAIN workspaces' : emails'[k] = workspaces'[k].account
    BY <1>4, <1>7, <1>8 DEF Inv, OneEach
  <2> QED
    BY <1>5, <1>7, <1>8, <2>1, <2>3, <2>4 DEF Inv, OneEach
<1>12. PaidFor'
  BY <1>2, <1>3, <1>4, <1>5, <1>7 DEF Inv, PaidFor, billingVars
<1>13. BillingInv'
  BY <1>5, BillingKept DEF Inv
<1> QED
  BY <1>10, <1>11, <1>12, <1>13 DEF Inv

LEMMA InvInductive == Inv /\ [Next]_vars => Inv'
<1> SUFFICES ASSUME Inv, [Next]_vars PROVE Inv'
  OBVIOUS
<1>1. CASE [BillingNext]_billingVars /\ UNCHANGED provisioning
  <2>1. BillingInv /\ BillingInv'
    BY <1>1, BillingKept DEF Inv
  <2>2. ProvisioningTypeOK' /\ OneEach'
    BY <1>1 DEF Inv, ProvisioningTypeOK, OneEach, Owners, provisioning
  <2>3. PaidFor'
    <3>1. ASSUME NEW k \in DOMAIN workspaces
          PROVE  \E c \in DOMAIN checkouts' :
                    /\ stripe'[c] = "completed"
                    /\ checkouts'[c].account = workspaces[k].account
                    /\ checkouts'[c].plan = workspaces[k].plan
      <4>1. PICK c \in DOMAIN checkouts : /\ stripe[c] = "completed"
                                          /\ checkouts[c].account = workspaces[k].account
                                          /\ checkouts[c].plan = workspaces[k].plan
        BY DEF Inv, PaidFor
      <4>2. /\ c \in DOMAIN checkouts' /\ stripe'[c] = "completed"
            /\ checkouts'[c].account = checkouts[c].account
            /\ checkouts'[c].plan = checkouts[c].plan
        BY <1>1, <2>1, <4>1, PaymentsStay
      <4> QED
        BY <4>1, <4>2
    <3> QED
      BY <1>1, <3>1 DEF PaidFor, provisioning
  <2> QED
    BY <2>1, <2>2, <2>3 DEF Inv
<1>2. ASSUME NEW i \in DOMAIN activations, Activate(i) PROVE Inv'
  BY <1>2, ActivateKeeps
<1> QED
  BY <1>1, <1>2 DEF Next, vars, provisioning

LEMMA InvAlways == Spec => []Inv
  BY InvInit, InvInductive, PTL DEF Spec

\* The variables keep their types, for any accounts and plans.
THEOREM TypeCorrect == Spec => []TypeOK
<1>1. Inv => TypeOK
  BY DEF Inv, BillingInv, TypeOK
<1> QED
  BY <1>1, InvAlways, PTL

\* An account gets one workspace and one email, and only for a plan that
\* Stripe has a payment of.
THEOREM OneWorkspacePaid == Spec => []WorkspaceOncePaid
<1>1. Inv => WorkspaceOncePaid
  <2> SUFFICES ASSUME Inv PROVE WorkspaceOncePaid
    OBVIOUS
  <2>1. ASSUME NEW a \in Account
        PROVE  /\ Cardinality(WorkspacesOf(a)) <= 1
               /\ Cardinality({k \in DOMAIN emails : emails[k] = a})
                    = Cardinality(WorkspacesOf(a))
    <3>1. {k \in DOMAIN emails : emails[k] = a} = WorkspacesOf(a)
      BY DEF Inv, OneEach, WorkspacesOf
    <3>2. \A j, k \in WorkspacesOf(a) : j = k
      BY DEF Inv, OneEach, WorkspacesOf
    <3>3. CASE WorkspacesOf(a) = {}
      BY <3>1, <3>3, FS_EmptySet
    <3>4. ASSUME NEW k \in WorkspacesOf(a)
          PROVE  Cardinality(WorkspacesOf(a)) = 1
      <4>1. WorkspacesOf(a) = {k}
        BY <3>2
      <4> QED
        BY <4>1, FS_Singleton
    <3> QED
      BY <3>1, <3>3, <3>4
  <2> QED
    BY <2>1 DEF WorkspaceOncePaid, Inv, PaidFor
<1> QED
  BY <1>1, InvAlways, PTL
=============================================================================
