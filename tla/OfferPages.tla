----------------------------- MODULE OfferPages -----------------------------
(* The page of an offer with its countdown and the checkout it leads to      *)
(* (app/offer/[offerId]/page.tsx, app/checkout/[offerId]/page.tsx).  Time is *)
(* counted in half minutes while an offer is on the screen.                  *)
EXTENDS Integers

CONSTANTS
    Validity,   \* how long an offer is valid: fourteen days in the code
    Refresh,    \* the period of the countdown's timer: one minute
    Lateness    \* how late a browser fires a timer (bound)

ASSUME OfferAssumption ==
    Validity \in Nat /\ Refresh \in Nat \ {0} /\ Lateness \in Nat

VARIABLES
    offer,      \* the state of a mounted OfferPage
    checkout    \* the state of a mounted CheckoutPage

\* -------------------------------------------------------------- offer
\* now: the time since the page was mounted as the state has it; elapsed: as it
\* is.
OfferMounted == [now |-> 0, elapsed |-> 0]

MsLeft == IF Validity > offer.now THEN Validity - offer.now ELSE 0
TimeLeft == IF Validity > offer.elapsed THEN Validity - offer.elapsed ELSE 0

\* Time passes; a due timer is at most Lateness late.  A visitor who stays on
\* longer than a refresh past the end sees nothing new (bound).
OfferTimePasses ==
    /\ offer.elapsed - offer.now < Refresh + Lateness
    /\ offer.elapsed < Validity + Refresh
    /\ offer' = [offer EXCEPT !.elapsed = @ + 1]
    /\ UNCHANGED checkout

\* setNow(Date.now())
OfferTimerFires ==
    /\ offer.elapsed - offer.now >= Refresh
    /\ offer' = [offer EXCEPT !.now = offer.elapsed]
    /\ UNCHANGED checkout

OfferNext == OfferTimePasses \/ OfferTimerFires

OfferTypeOK ==
    offer \in [now : 0 .. Validity + Refresh, elapsed : 0 .. Validity + Refresh]

\* The remaining time on the screen is never less than what is left, so that
\* nobody is hurried, and lags behind it by no more than a period of the timer.
CountdownHonest == MsLeft - TimeLeft \in 0 .. Refresh + Lateness

\* ----------------------------------------------------------- checkout
\* Amounts in cents; the tax is 8 percent, rounded to the cent.
Subtotal == 49900
Tax == (Subtotal * 8 + 50) \div 100
Total == Subtotal + Tax

\* details, card: the required inputs of steps 2 and 3 are filled; they are
\* uncontrolled, so that what they hold is gone when their step is left.
\* order: the amount of the order placed, 0 when orderId is null.
CheckoutMounted ==
    [step |-> 1, details |-> FALSE, card |-> FALSE, order |-> 0]

ShowStep(n) ==
    checkout' = [checkout EXCEPT !.step = n, !.details = FALSE, !.card = FALSE]

\* The Continue buttons of steps 1 and 2, of type "button" and outside a form,
\* so that nothing asks for the required inputs.
GoNext ==
    /\ checkout.step \in {1, 2}
    /\ ShowStep(checkout.step + 1)
    /\ UNCHANGED offer

\* The Back buttons of steps 2 and 3.
GoBack ==
    /\ checkout.step \in {2, 3}
    /\ ShowStep(checkout.step - 1)
    /\ UNCHANGED offer

FillDetails ==
    /\ checkout.step = 2
    /\ \E b \in BOOLEAN : checkout' = [checkout EXCEPT !.details = b]
    /\ UNCHANGED offer

FillCard ==
    /\ checkout.step = 3
    /\ \E b \in BOOLEAN : checkout' = [checkout EXCEPT !.card = b]
    /\ UNCHANGED offer

\* handlePaymentSubmit; a form with an empty required input is not submitted.
PaymentSubmit ==
    /\ checkout.step = 3
    /\ checkout.card
    /\ checkout' = [CheckoutMounted EXCEPT !.step = 4, !.order = Total]
    /\ UNCHANGED offer

CheckoutNext == GoNext \/ GoBack \/ FillDetails \/ FillCard \/ PaymentSubmit

CheckoutTypeOK ==
    checkout \in [step : 1 .. 4, details : BOOLEAN, card : BOOLEAN,
                  order : {0, Total}]

\* The confirmation is shown exactly when there is an order: no way through
\* the steps leads to an empty last page or pays and stays on the form.
ConfirmedExactlyWhenPaid == (checkout.step = 4) <=> (checkout.order # 0)
=============================================================================
