-------------------------- MODULE WebSessionProofs --------------------------
(* What a visitor can rely on whatever pages he opens, leaves and comes back *)
(* to, for every value of the constants of WebSession.  Each theorem follows *)
(* one page: a lemma says that a step of the session either leaves the       *)
(* page's state alone, mounts the page anew or is a step of the page, and    *)
(* the invariant is shown for these three.                                   *)
EXTENDS WebSession, LeastElements, SequenceTheorems, TLAPS

\* ----------------------------------------------------------- one page
\* The steps of the session that are not done on a page either mount every
\* page anew or leave all of them alone.
LEMMA StepsBesidePages ==
    ASSUME [Next]_vars
    PROVE  \/ OnPage
           \/ \E d : /\ RemountPages(d)
                    /\ \E p, linked : d \in AccountsAt(p, linked)
           \/ UNCHANGED pageVars
<1>1. CASE \E p \in Entrances \cup {path} : Load(p)
  BY <1>1 DEF Load
<1>2. CASE Follow
  BY <1>2 DEF Follow, Go
<1>3. CASE HistoryBack
  BY <1>3 DEF HistoryBack, Go
<1>4. CASE InShell
  BY <1>4 DEF InShell
<1>5. CASE OnPage
  BY <1>5
<1>6. CASE UNCHANGED vars
  BY <1>6 DEF vars
<1> QED BY <1>1, <1>2, <1>3, <1>4, <1>5, <1>6 DEF Next

\* What a step does to the page of an offer.
LEMMA OfferSteps ==
    ASSUME [Next]_vars
    PROVE  offer' = offer \/ offer' = OfferMounted \/ OfferNext
<1>1. CASE OnPage
  BY <1>1 DEF OnPage, OnBuyerPage, CheckoutNext, GoNext, GoBack, FillDetails,
              FillCard, PaymentSubmit, buyerVars
<1>2. CASE \E d : RemountPages(d)
  BY <1>2 DEF RemountPages
<1>3. CASE UNCHANGED pageVars
  BY <1>3 DEF pageVars
<1> QED BY <1>1, <1>2, <1>3, StepsBesidePages

\* What a step does to the checkout.
LEMMA CheckoutSteps ==
    ASSUME [Next]_vars
    PROVE  checkout' = checkout \/ checkout' = CheckoutMounted \/ CheckoutNext
<1>1. CASE OnPage
  BY <1>1 DEF OnPage, OnBuyerPage, OfferNext, OfferTimePasses, OfferTimerFires,
              buyerVars
<1>2. CASE \E d : RemountPages(d)
  BY <1>2 DEF RemountPages
<1>3. CASE UNCHANGED pageVars
  BY <1>3 DEF pageVars
<1> QED BY <1>1, <1>2, <1>3, StepsBesidePages

\* What a step does to the trust room.
LEMMA RoomSteps ==
    ASSUME [Next]_vars
    PROVE  room' = room \/ room' = RoomMounted \/ RoomNext
<1>1. CASE OnPage
  BY <1>1 DEF OnPage, OnBuyerPage, buyerVars
<1>2. CASE \E d : RemountPages(d)
  BY <1>2 DEF RemountPages
<1>3. CASE UNCHANGED pageVars
  BY <1>3 DEF pageVars
<1> QED BY <1>1, <1>2, <1>3, StepsBesidePages

\* What a step does to the documents of the workspace.
LEMMA DocsSteps ==
    ASSUME [Next]_vars
    PROVE  docs' = docs \/ docs' = DocsMounted \/ DocsNext
<1>1. CASE OnPage
  BY <1>1 DEF OnPage, OnBuyerPage, buyerVars
<1>2. CASE \E d : RemountPages(d)
  BY <1>2 DEF RemountPages
<1>3. CASE UNCHANGED pageVars
  BY <1>3 DEF pageVars
<1> QED BY <1>1, <1>2, <1>3, StepsBesidePages

\* What a step does to the wizard.
LEMMA WizardSteps ==
    ASSUME [Next]_vars
    PROVE  \/ UNCHANGED wizardVars
           \/ wizard' = WizardMounted /\ entered' = <<>>
           \/ WizardNext
<1>1. CASE OnPage
  BY <1>1 DEF OnPage, wizardVars
<1>2. CASE \E d : RemountPages(d)
  BY <1>2 DEF RemountPages
<1>3. CASE UNCHANGED pageVars
  BY <1>3 DEF pageVars, wizardVars
<1> QED BY <1>1, <1>2, <1>3, StepsBesidePages

\* -------------------------------------------------------------- offer
\* The state of the offer's page keeps to its timer.
OfferInv ==
    /\ offer \in [now : Nat, elapsed : Nat]
    /\ offer.elapsed - offer.now \in 0 .. Refresh + Lateness

LEMMA OfferInvHolds == Spec => []OfferInv
<1> USE OfferAssumption
<1>1. Init => OfferInv
  BY DEF Init, PagesMounted, OfferMounted, OfferInv
<1>2. OfferInv /\ [Next]_vars => OfferInv'
  <2> SUFFICES ASSUME OfferInv, [Next]_vars
               PROVE  OfferInv'
    OBVIOUS
  <2>1. CASE offer' = offer
    BY <2>1 DEF OfferInv
  <2>2. CASE offer' = OfferMounted
    BY <2>2 DEF OfferInv, OfferMounted
  <2>3. CASE OfferTimePasses
    BY <2>3 DEF OfferTimePasses, OfferInv
  <2>4. CASE OfferTimerFires
    BY <2>4 DEF OfferTimerFires, OfferInv
  <2> QED BY <2>1, <2>2, <2>3, <2>4, OfferSteps DEF OfferNext
<1> QED BY <1>1, <1>2, PTL DEF Spec

\* The countdown of an offer never hurries a visitor and lags behind by no more
\* than the timer's period and lateness, whatever these are and for however
\* long an offer is valid.
THEOREM CountdownIsHonest == Spec => []CountdownHonest
<1>1. OfferInv => CountdownHonest
  BY OfferAssumption DEF OfferInv, CountdownHonest, MsLeft, TimeLeft
<1> QED BY <1>1, OfferInvHolds, PTL

\* ----------------------------------------------------------- checkout
\* The steps and the order, with their types.
CheckoutInv == CheckoutTypeOK /\ ConfirmedExactlyWhenPaid

LEMMA TotalIsPositive == Total \in Nat \ {0}
  BY DEF Total, Tax, Subtotal

LEMMA CheckoutInvHolds == Spec => []CheckoutInv
<1> USE TotalIsPositive DEF CheckoutTypeOK, ConfirmedExactlyWhenPaid
<1>1. Init => CheckoutInv
  BY DEF CheckoutInv, Init, PagesMounted, CheckoutMounted
<1>2. CheckoutInv /\ [Next]_vars => CheckoutInv'
  <2> SUFFICES ASSUME CheckoutInv, [Next]_vars
               PROVE  CheckoutInv'
    OBVIOUS
  <2>1. CASE checkout' = checkout
    BY <2>1 DEF CheckoutInv
  <2>2. CASE checkout' = CheckoutMounted
    BY <2>2 DEF CheckoutInv, CheckoutMounted
  <2>0. ASSUME NEW n \in {1, 2, 3}, checkout.step # 4, ShowStep(n)
        PROVE  CheckoutInv'
    <3>1. checkout' = [step |-> n, details |-> FALSE, card |-> FALSE,
                       order |-> checkout.order]
      BY <2>0 DEF ShowStep, CheckoutInv
    <3>2. checkout.order = 0
      BY <2>0 DEF CheckoutInv
    <3> QED BY <3>1, <3>2 DEF CheckoutInv
  <2>3. CASE GoNext
    BY <2>0, <2>3 DEF GoNext
  <2>4. CASE GoBack
    BY <2>0, <2>4 DEF GoBack
  <2>5. CASE FillDetails
    BY <2>5 DEF CheckoutInv, FillDetails
  <2>6. CASE FillCard
    BY <2>6 DEF CheckoutInv, FillCard
  <2>7. CASE PaymentSubmit
    <3>1. checkout' = [step |-> 4, details |-> FALSE, card |-> FALSE,
                       order |-> Total]
      BY <2>7 DEF PaymentSubmit, CheckoutMounted
    <3> QED BY <3>1 DEF CheckoutInv
  <2> QED
    BY <2>1, <2>2, <2>3, <2>4, <2>5, <2>6, <2>7, CheckoutSteps DEF CheckoutNext
<1> QED BY <1>1, <1>2, PTL DEF Spec

\* The confirmation of a checkout is shown exactly when an order was placed,
\* whatever way the visitor took through the steps and the pages around them.
THEOREM CheckoutConfirms == Spec => []ConfirmedExactlyWhenPaid
<1>1. CheckoutInv => ConfirmedExactlyWhenPaid
  BY DEF CheckoutInv
<1> QED BY <1>1, CheckoutInvHolds, PTL

\* --------------------------------------------------------- trust room
\* The gate of the room, with its types.
RoomInv == RoomTypeOK /\ ShownOnlyToSigners

LEMMA RoomInvHolds == Spec => []RoomInv
<1> USE DEF RoomInv, RoomTypeOK, ShownOnlyToSigners, DocumentsShown, Typed
<1>1. Init => RoomInv
  BY DEF Init, PagesMounted, RoomMounted
<1>2. RoomInv /\ [Next]_vars => RoomInv'
  <2> SUFFICES ASSUME RoomInv, [Next]_vars
               PROVE  RoomInv'
    OBVIOUS
  <2>1. CASE room' = room
    BY <2>1
  <2>2. CASE room' = RoomMounted
    BY <2>2 DEF RoomMounted
  <2>3. CASE CheckTerms
    BY <2>3 DEF CheckTerms
  <2>4. CASE TypeEmail
    BY <2>4 DEF TypeEmail
  <2>5. CASE HandleAccess
    BY <2>5 DEF HandleAccess, CanAccess
  <2> QED BY <2>1, <2>2, <2>3, <2>4, <2>5, RoomSteps DEF RoomNext
<1> QED BY <1>1, <1>2, PTL DEF Spec

\* The documents of a trust room are shown only to a visitor whose agreement
\* and address still stand.
THEOREM RoomIsForSigners == Spec => []ShownOnlyToSigners
<1>1. RoomInv => ShownOnlyToSigners
  BY DEF RoomInv
<1> QED BY <1>1, RoomInvHolds, PTL

\* ---------------------------------------------------------- documents
\* The fields the drag events write are there.
DocsInv ==
    /\ {"category", "drag", "over"} \subseteq DOMAIN docs
    /\ HighlightOnlyOverZone

\* The drop zone is not left highlighted, in whatever order the browser tells
\* of what is dragged over it and its children.
THEOREM HighlightIsHonest == Spec => []HighlightOnlyOverZone
<1> USE DEF DocsInv, HighlightOnlyOverZone
<1>1. Init => DocsInv
  BY DEF Init, PagesMounted, DocsMounted
<1>2. DocsInv /\ [Next]_vars => DocsInv'
  <2> SUFFICES ASSUME DocsInv, [Next]_vars
               PROVE  DocsInv'
    OBVIOUS
  <2>1. CASE docs' = docs
    BY <2>1
  <2>2. CASE docs' = DocsMounted
    BY <2>2 DEF DocsMounted
  <2>3. CASE FilterCategory
    BY <2>3 DEF FilterCategory
  <2>4. ASSUME NEW place, Entered(place), place # "away"
        PROVE  DocsInv'
    BY <2>4 DEF Entered
  <2>5. ASSUME NEW place, Left(place)
        PROVE  DocsInv'
    BY <2>5 DEF Left
  <2>6. CASE DragEnter
    BY <2>4, <2>6 DEF DragEnter
  <2>7. CASE DragAcross
    BY <2>5, <2>7 DEF DragAcross
  <2>8. CASE DragLeave
    BY <2>5, <2>8 DEF DragLeave
  <2>9. CASE DragOver
    BY <2>4, <2>9 DEF DragOver
  <2>10. CASE DropDocs
    BY <2>5, <2>10 DEF DropDocs
  <2> QED
    BY <2>1, <2>2, <2>3, <2>6, <2>7, <2>8, <2>9, <2>10, DocsSteps DEF DocsNext
<1>3. DocsInv => HighlightOnlyOverZone
  OBVIOUS
<1> QED BY <1>1, <1>2, <1>3, PTL DEF Spec
\* ------------------------------------------------------------- wizard
\* Whom the wizard can invite, and everything its state consists of.
Invites == [email : Emails \cup {"jordan.lee"}, role : Roles]

WizardFields ==
    {"step", "connected", "policies", "logo", "email", "role",
     "captured", "invited"}

\* The closure of addInvite is never behind the inputs.
WizardInv ==
    /\ DOMAIN wizard = WizardFields
    /\ wizard.email \in Emails /\ wizard.role \in Roles
    /\ wizard.captured = Invite(wizard.email, wizard.role)
    /\ wizard.invited \in Seq(Invites) /\ wizard.invited # <<>>
    /\ InvitedAsEntered

LEMMA MountedWizard ==
    /\ DOMAIN WizardMounted = WizardFields
    /\ WizardMounted.email = "" /\ WizardMounted.role = "Security"
    /\ WizardMounted.captured = Invite("", "Security")
    /\ WizardMounted.invited \in Seq(Invites) /\ WizardMounted.invited # <<>>
    /\ Tail(WizardMounted.invited) = <<>>
<1>1. Invite("jordan.lee", "Admin") \in Invites
  BY DEF Invite, Invites, Roles
<1>2. /\ <<Invite("jordan.lee", "Admin")>> \in Seq(Invites)
      /\ <<Invite("jordan.lee", "Admin")>> # <<>>
      /\ Tail(<<Invite("jordan.lee", "Admin")>>) = <<>>
  BY <1>1
<1>3. DOMAIN WizardMounted = WizardFields
  BY DEF WizardMounted, WizardFields
<1>4. /\ WizardMounted.email = "" /\ WizardMounted.role = "Security"
      /\ WizardMounted.captured = Invite("", "Security")
      /\ WizardMounted.invited = <<Invite("jordan.lee", "Admin")>>
  BY DEF WizardMounted
<1> QED BY <1>2, <1>3, <1>4

LEMMA WizardInvHolds == Spec => []WizardInv
<1>1. Init => WizardInv
  <2>1. Init => wizard = WizardMounted /\ entered = <<>>
    BY DEF Init, PagesMounted
  <2> QED BY <2>1, MountedWizard DEF WizardInv, Emails, Roles, InvitedAsEntered
<1>2. WizardInv /\ [Next]_vars => WizardInv'
  <2> SUFFICES ASSUME WizardInv, [Next]_vars
               PROVE  WizardInv'
    OBVIOUS
  <2>1. CASE UNCHANGED wizardVars
    BY <2>1 DEF wizardVars, WizardInv, InvitedAsEntered
  <2>2. CASE wizard' = WizardMounted /\ entered' = <<>>
    BY <2>2, MountedWizard DEF WizardInv, Emails, Roles, InvitedAsEntered
  <2>3. ASSUME UNCHANGED entered, DOMAIN wizard' = DOMAIN wizard,
               wizard'.email = wizard.email, wizard'.role = wizard.role,
               wizard'.captured = wizard.captured, wizard'.invited = wizard.invited
        PROVE  WizardInv'
    BY <2>3 DEF WizardInv, InvitedAsEntered
  <2>4. CASE GoToStep \/ Previous \/ NextStep
    BY <2>3, <2>4 DEF GoToStep, Previous, NextStep, WizardInv, WizardFields
  <2>5. CASE ConnectIntegration \/ AddPolicies \/ UploadLogo
    BY <2>3, <2>5 DEF ConnectIntegration, AddPolicies, UploadLogo,
                      WizardInv, WizardFields
  <2>6. CASE TypeInvite
    BY <2>6 DEF TypeInvite, WizardInv, WizardFields, InvitedAsEntered
  <2>7. CASE ChooseRole
    BY <2>7 DEF ChooseRole, WizardInv, WizardFields, InvitedAsEntered
  <2>8. CASE AddInvite
    <3>1. wizard.captured \in Invites /\ wizard.captured = Invite(wizard.email, wizard.role)
      BY DEF WizardInv, Invite, Invites
    <3>2. /\ DOMAIN wizard' = WizardFields
          /\ wizard'.email = "" /\ wizard'.role = wizard.role
          /\ wizard'.captured = Invite("", wizard.role)
          /\ wizard'.invited = Append(wizard.invited, wizard.captured)
      BY <2>8 DEF AddInvite, WizardInv, WizardFields
    <3>3. Tail(wizard'.invited) = Append(Tail(wizard.invited), wizard.captured)
      BY <3>1, <3>2, HeadTailAppend DEF WizardInv
    <3>4. entered' = Append(entered, wizard.captured)
      BY <2>8, <3>1 DEF AddInvite
    <3>5. wizard'.invited \in Seq(Invites) /\ wizard'.invited # <<>>
      <4>1. /\ wizard.invited \in Seq(Invites)
            /\ wizard.captured \in Invites
        BY <3>1 DEF WizardInv
      <4>2. /\ Append(wizard.invited, wizard.captured) \in Seq(Invites)
            /\ Append(wizard.invited, wizard.captured) # <<>>
        BY ONLY <4>1, AppendProperties
      <4> QED BY ONLY <3>2, <4>2
    <3> QED
      BY <3>2, <3>3, <3>4, <3>5 DEF WizardInv, InvitedAsEntered, Emails
  <2> QED
    BY <2>1, <2>2, <2>4, <2>5, <2>6, <2>7, <2>8, WizardSteps DEF WizardNext
<1> QED BY <1>1, <1>2, PTL DEF Spec

\* Whoever is invited in the wizard is invited as the inputs showed, in order,
\* for any files, integrations and policies around it.
THEOREM InvitesAreEntered == Spec => []InvitedAsEntered
<1>1. WizardInv => InvitedAsEntered
  BY DEF WizardInv
<1> QED BY <1>1, WizardInvHolds, PTL

\* -------------------------------------------------------------- inbox
\* What a step does to the inbox.
LEMMA InboxSteps ==
    ASSUME [Next]_vars
    PROVE  inbox' = inbox \/ inbox' = InboxMounted \/ InboxNext
<1>1. CASE OnPage
  BY <1>1 DEF OnPage, OnInboxPage, ComposeNext, SelectText, TypeText, InsertTag,
              FrameRuns, inboxVars
<1>2. CASE \E d : RemountPages(d)
  BY <1>2 DEF RemountPages
<1>3. CASE UNCHANGED pageVars
  BY <1>3 DEF pageVars
<1> QED BY <1>1, <1>2, <1>3, StepsBesidePages

\* The topmost of some threads is one of them.
LEMMA TopmostIn ==
    ASSUME NEW S \in SUBSET ToSet(ThreadOrder), S # {}
    PROVE  Topmost(S) \in S
<1> DEFINE I == {i \in DOMAIN ThreadOrder : ThreadOrder[i] \in S}
<1>1. DOMAIN ThreadOrder = 1 .. 8
  BY DEF ThreadOrder
<1>2. I # {} /\ I \in SUBSET Nat
  BY <1>1 DEF ToSet
<1>3. \A i \in I : ThreadOrder[i] \in S
  OBVIOUS
<1>4. Topmost(S) = ThreadOrder[Min(I)]
  BY DEF Topmost
<1> HIDE DEF I
<1>5. Min(I) \in I
  <2>1. \E i \in I : \A j \in I : i <= j
    BY <1>2, LeastNumber
  <2> QED BY <2>1 DEF Min
<1> QED BY <1>3, <1>4, <1>5

\* The selected thread is the one that was clicked.
PickInv ==
    /\ DOMAIN inbox = {"filter", "q", "selectedId", "picked", "snooze"}
    /\ inbox.selectedId = inbox.picked

\* A thread that was picked is in the pane whenever the list has it, and the
\* pane never shows a thread the list leaves out, for any filters and queries.
THEOREM PicksAreKept == Spec => []PickIsKept
<1>1. Init => PickInv
  BY DEF Init, PagesMounted, InboxMounted, PickInv
<1>2. PickInv /\ [Next]_vars => PickInv'
  <2> SUFFICES ASSUME PickInv, [Next]_vars PROVE PickInv'
    OBVIOUS
  <2> USE DEF PickInv
  <2>1. CASE inbox' = inbox
    BY <2>1
  <2>2. CASE inbox' = InboxMounted
    BY <2>2 DEF InboxMounted
  <2>3. CASE FilterThreads \/ SearchThreads \/ SelectSnooze
    BY <2>3 DEF FilterThreads, SearchThreads, SelectSnooze
  <2>4. CASE SelectThread
    BY <2>4 DEF SelectThread
  <2> QED BY <2>1, <2>2, <2>3, <2>4, InboxSteps DEF InboxNext
<1>3. PickInv => PickIsKept
  <2> SUFFICES ASSUME PickInv PROVE PickIsKept
    OBVIOUS
  <2>1. inbox.picked \in Threads => InPane = inbox.picked
    BY DEF PickInv, InPane
  <2>2. Threads # {} => InPane \in Threads
    <3>1. Threads \in SUBSET ToSet(ThreadOrder)
      BY DEF Threads
    <3> QED BY <3>1, TopmostIn DEF InPane
  <2> QED BY <2>1, <2>2 DEF PickIsKept
<1> QED BY <1>1, <1>2, <1>3, PTL DEF Spec

\* ------------------------------------------------------------ compose
\* What a step does to the editor.
LEMMA ComposeSteps ==
    ASSUME [Next]_vars
    PROVE  compose' = compose \/ compose' = ComposeMounted \/ ComposeNext
<1>1. CASE OnPage
  BY <1>1 DEF OnPage, OnInboxPage, InboxNext, FilterThreads, SearchThreads,
              SelectThread, SelectSnooze, inboxVars
<1>2. CASE \E d : RemountPages(d)
  BY <1>2 DEF RemountPages
<1>3. CASE UNCHANGED pageVars
  BY <1>3 DEF pageVars
<1> QED BY <1>1, <1>2, <1>3, StepsBesidePages

Piece == {"text", "tag", "new"}

\* A piece between two texts: both are still there, and where.
LEMMA BetweenTexts ==
    ASSUME NEW h \in Seq(Piece), NEW t \in Seq(Piece), NEW x \in Piece
    PROVE  LET r == h \o <<x>> \o t
           IN  /\ r \in Seq(Piece)
               /\ Len(r) = Len(h) + 1 + Len(t)
               /\ SubSeq(r, 1, Len(h)) = h
               /\ SubSeq(r, Len(h) + 2, Len(h) + 1 + Len(t)) = t
<1>r. PICK r : r = h \o <<x>> \o t
  OBVIOUS
<1>s. PICK s \in Nat, m \in Nat : s = Len(h) /\ m = Len(t)
  OBVIOUS
<1>0. r = h \o <<x>> \o t /\ s = Len(h) /\ m = Len(t)
  BY <1>r, <1>s
<1>1. PICK g : g = h \o <<x>>
  OBVIOUS
<1>2. <<x>> \in Seq(Piece) /\ Len(<<x>>) = 1
  OBVIOUS
<1>3. /\ g \in Seq(Piece) /\ Len(g) = s + 1
      /\ \A i \in 1 .. s + 1 : i <= s => g[i] = h[i]
  BY <1>0, <1>1, <1>2, ConcatProperties
<1>4. r = g \o t
  BY <1>0, <1>1
<1>5. /\ r \in Seq(Piece) /\ Len(r) = (s + 1) + m
      /\ \A i \in 1 .. (s + 1) + m :
            r[i] = IF i <= s + 1 THEN g[i] ELSE t[i - (s + 1)]
  BY <1>0, <1>3, <1>4, ConcatProperties
<1>6. \A i \in 1 .. s : r[i] = h[i]
  BY <1>3, <1>5
<1>7. \A i \in 1 .. m : r[s + 1 + i] = t[i]
  BY <1>5
<1>8. \A i \in 1 .. (s + 1) + m : r[i] \in Piece
  BY <1>5, ElementOfSeq
<1>9. SubSeq(r, 1, s) = h
  <2>1. PICK u : u = SubSeq(r, 1, s)
    OBVIOUS
  <2>2. \A i \in 1 .. s : r[i] \in Piece
    BY <1>8
  <2>3. /\ u \in Seq(Piece)
        /\ Len(u) = IF 1 <= s THEN s - 1 + 1 ELSE 0
        /\ \A i \in 1 .. s - 1 + 1 : u[i] = r[1 + i - 1]
    BY <2>1, <2>2, SubSeqProperties
  <2>4. Len(u) = Len(h) /\ \A i \in 1 .. Len(u) : u[i] = h[i]
    BY <1>0, <1>6, <2>3
  <2>5. u = h
    BY <2>3, <2>4, SeqEqual
  <2> QED BY <2>1, <2>5
<1>10. SubSeq(r, s + 2, s + 1 + m) = t
  <2>1. PICK u : u = SubSeq(r, s + 2, s + 1 + m)
    OBVIOUS
  <2>2. \A i \in (s + 2) .. (s + 1 + m) : r[i] \in Piece
    BY <1>8
  <2>3. s + 2 \in Int /\ s + 1 + m \in Int
    OBVIOUS
  <2>4. /\ u \in Seq(Piece)
        /\ Len(u) = IF s + 2 <= s + 1 + m THEN (s + 1 + m) - (s + 2) + 1 ELSE 0
        /\ \A i \in 1 .. (s + 1 + m) - (s + 2) + 1 : u[i] = r[(s + 2) + i - 1]
    BY <2>1, <2>2, <2>3, SubSeqProperties
  <2>5. (s + 1 + m) - (s + 2) + 1 = m /\ (s + 2 <= s + 1 + m <=> 1 <= m)
    OBVIOUS
  <2>6. Len(u) = m
    BY <2>4, <2>5
  <2>7. ASSUME NEW i \in 1 .. m PROVE u[i] = t[i]
    <3>1. u[i] = r[(s + 2) + i - 1]
      BY <2>4, <2>5
    <3>2. (s + 2) + i - 1 = s + 1 + i
      OBVIOUS
    <3> QED BY <1>7, <3>1, <3>2
  <2>8. u = t
    BY <1>0, <2>4, <2>6, <2>7, SeqEqual
  <2> QED BY <2>1, <2>8
<1> QED BY <1>0, <1>5, <1>9, <1>10

\* A piece in the place of what is selected leaves the rest alone.
LEMMA ReplacedSpares ==
    ASSUME NEW b \in Seq(Piece), NEW s \in Nat, NEW e \in Nat, s <= e,
           e <= Len(b), NEW x \in Piece
    PROVE  LET r == SubSeq(b, 1, s) \o <<x>> \o SubSeq(b, e + 1, Len(b))
           IN  /\ r \in Seq(Piece)
               /\ Len(r) = s + 1 + (Len(b) - e)
               /\ SubSeq(r, 1, s) = SubSeq(b, 1, s)
               /\ SubSeq(r, Len(r) - (Len(b) - e) + 1, Len(r))
                    = SubSeq(b, e + 1, Len(b))
<1>0. PICK r : r = SubSeq(b, 1, s) \o <<x>> \o SubSeq(b, e + 1, Len(b))
  OBVIOUS
<1>1. PICK n \in Nat : n = Len(b)
  OBVIOUS
<1>2. \A i \in 1 .. n : b[i] \in Piece
  BY <1>1
<1>3. PICK m \in Nat : m = n - e
  <2>1. n - e \in Nat
    BY <1>1
  <2> QED BY <2>1
<1>4. PICK h : h = SubSeq(b, 1, s)
  OBVIOUS
<1>5. PICK t : t = SubSeq(b, e + 1, n)
  OBVIOUS
<1>6. h \in Seq(Piece) /\ Len(h) = s
  <2>1. /\ SubSeq(b, 1, s) \in Seq(Piece)
        /\ Len(SubSeq(b, 1, s)) = IF 1 <= s THEN s - 1 + 1 ELSE 0
    <3>1. \A i \in 1 .. s : b[i] \in Piece
      BY <1>1, <1>2
    <3> QED BY <3>1, SubSeqProperties
  <2> QED BY <1>4, <2>1
<1>7. t \in Seq(Piece) /\ Len(t) = m
  <2>1. /\ SubSeq(b, e + 1, n) \in Seq(Piece)
        /\ Len(SubSeq(b, e + 1, n)) = IF e + 1 <= n THEN n - (e + 1) + 1 ELSE 0
    <3>1. e + 1 \in Int /\ \A i \in (e + 1) .. n : b[i] \in Piece
      BY <1>1, <1>2
    <3> QED BY <3>1, SubSeqProperties
  <2> QED BY <1>1, <1>3, <1>5, <2>1
<1>8. r = h \o <<x>> \o t
  BY <1>0, <1>1, <1>4, <1>5
<1>9. /\ r \in Seq(Piece) /\ Len(r) = s + 1 + m
      /\ SubSeq(r, 1, s) = h
      /\ SubSeq(r, s + 2, s + 1 + m) = t
  BY <1>6, <1>7, <1>8, BetweenTexts
<1>10. (s + 1 + m) - (n - e) + 1 = s + 2 /\ s + 1 + m = s + 1 + (n - e)
  BY <1>3
<1> QED BY <1>0, <1>1, <1>4, <1>5, <1>9, <1>10

\* The pieces of the editor and the selection in them; the closure of
\* insertTag is never behind the text.
ComposeInv ==
    /\ DOMAIN compose = {"body", "captured", "start", "end", "frame"}
    /\ compose.body \in Seq(Piece)
    /\ compose.captured = compose.body
    /\ compose.start \in Nat /\ compose.end \in Nat
    /\ compose.start <= compose.end /\ compose.end <= Len(compose.body)
    /\ \/ compose.frame = <<>>
       \/ \E pos \in Nat \ {0} : compose.frame = <<pos>>

\* What a piece typed or inserted makes of the editor.
LEMMA ReplacedInEditor ==
    ASSUME ComposeInv, NEW x \in Piece
    PROVE  LET r == Replaced(compose.body, x)
               n == Len(compose.body) - compose.end
           IN  /\ r \in Seq(Piece) /\ compose.start + 1 <= Len(r)
               /\ Len(r) <= Len(compose.body) + 1
               /\ SubSeq(r, 1, compose.start)
                    = SubSeq(compose.body, 1, compose.start)
               /\ SubSeq(r, Len(r) - n + 1, Len(r))
                    = SubSeq(compose.body, compose.end + 1, Len(compose.body))
<1>b. PICK b \in Seq(Piece), s \in Nat, e \in Nat :
         b = compose.body /\ s = compose.start /\ e = compose.end
  BY DEF ComposeInv
<1>r. PICK r : r = Replaced(compose.body, x)
  OBVIOUS
<1>1. /\ b = compose.body /\ s = compose.start /\ e = compose.end
      /\ r = Replaced(compose.body, x)
  BY <1>b, <1>r
<1>2. s <= e /\ e <= Len(b)
  BY <1>1 DEF ComposeInv
<1>3. r = SubSeq(b, 1, s) \o <<x>> \o SubSeq(b, e + 1, Len(b))
  <2>1. UpTo(b, s) = SubSeq(b, 1, s)
    <3>1. PICK n \in Nat : n = Len(b)
      OBVIOUS
    <3>2. s <= n
      BY <1>2, <3>1
    <3> QED BY <3>1, <3>2 DEF UpTo
  <2>2. r = UpTo(b, s) \o <<x>> \o SubSeq(b, e + 1, Len(b))
    BY <1>1 DEF Replaced
  <2> QED BY <2>1, <2>2
<1>4. /\ r \in Seq(Piece)
      /\ Len(r) = s + 1 + (Len(b) - e)
      /\ SubSeq(r, 1, s) = SubSeq(b, 1, s)
      /\ SubSeq(r, Len(r) - (Len(b) - e) + 1, Len(r)) = SubSeq(b, e + 1, Len(b))
  BY <1>2, <1>3, ReplacedSpares
<1>5. s + 1 <= Len(r) /\ Len(r) <= Len(b) + 1
  <2>1. PICK n \in Nat, k \in Nat : n = Len(b) /\ k = Len(r)
    BY <1>4, LenProperties
  <2> QED BY <1>2, <1>4, <2>1
<1> QED BY <1>1, <1>4, <1>5

\* What the three steps that change the text or the caret make of the editor.
LEMMA ComposeStep ==
    ASSUME ComposeInv, NEW r \in Seq(Piece), NEW c \in Nat, c <= Len(r), NEW f,
           f = <<>> \/ \E pos \in Nat \ {0} : f = <<pos>>,
           compose' = [body |-> r, captured |-> r, start |-> c, end |-> c,
                       frame |-> f]
    PROVE  ComposeInv'
  BY DEF ComposeInv

LEMMA ComposeInvHolds == Spec => []ComposeInv
<1>1. ComposeMounted \in [body : Seq(Piece), captured : Seq(Piece),
                          start : Nat, end : Nat, frame : {<<>>}]
  BY DEF ComposeMounted, Piece
<1>2. Init => ComposeInv
  BY <1>1 DEF Init, PagesMounted, ComposeMounted, ComposeInv
<1>3. ComposeInv /\ [Next]_vars => ComposeInv'
  <2> SUFFICES ASSUME ComposeInv, [Next]_vars PROVE ComposeInv'
    OBVIOUS
  <2>1. CASE compose' = compose
    BY <2>1 DEF ComposeInv
  <2>2. CASE compose' = ComposeMounted
    BY <1>1, <2>2 DEF ComposeMounted, ComposeInv
  <2>3. CASE SelectText
    <3>1. PICK n \in Nat : n = Len(compose.body)
      BY DEF ComposeInv
    <3>2. PICK s \in 0 .. n : \E e \in s .. n :
             compose' = [compose EXCEPT !.start = s, !.end = e]
      BY <2>3, <3>1 DEF SelectText
    <3>3. PICK e \in s .. n :
             compose' = [compose EXCEPT !.start = s, !.end = e]
      BY <3>2
    <3> QED BY <3>1, <3>3 DEF ComposeInv
  <2>4. PICK c \in Nat \ {0} : c = compose.start + 1
    BY DEF ComposeInv
  <2>5. CASE TypeText
    <3>1. PICK r : r = Replaced(compose.body, "new")
      OBVIOUS
    <3>2. r \in Seq(Piece) /\ c <= Len(r)
      BY <2>4, <3>1, ReplacedInEditor DEF Piece
    <3>3. compose' = [body |-> r, captured |-> r, start |-> c, end |-> c,
                      frame |-> compose.frame]
      BY <2>4, <2>5, <3>1 DEF TypeText, Rendered
    <3>4. compose.frame = <<>> \/ \E pos \in Nat \ {0} : compose.frame = <<pos>>
      BY DEF ComposeInv
    <3> QED BY <3>2, <3>3, <3>4, ComposeStep
  <2>6. CASE InsertTag
    <3>1. PICK r : r = Replaced(compose.body, "tag")
      OBVIOUS
    <3>2. r \in Seq(Piece)
      BY <3>1, ReplacedInEditor DEF Piece
    <3>3. PICK n \in Nat : n = Len(r)
      BY <3>2
    <3>4. compose' = [body |-> r, captured |-> r, start |-> n, end |-> n,
                      frame |-> <<c>>]
      BY <2>4, <2>6, <3>1, <3>3 DEF InsertTag, Rendered, ComposeInv
    <3> QED BY <2>4, <3>2, <3>3, <3>4, ComposeStep
  <2>7. CASE FrameRuns
    <3>1. PICK n \in Nat : n = Len(compose.body)
      BY DEF ComposeInv
    <3>2. PICK f \in Nat : f = compose.frame[1]
      BY <2>7 DEF FrameRuns, ComposeInv
    <3>3. PICK k \in 0 .. n : k = IF f <= n THEN f ELSE n
      OBVIOUS
    <3>4. compose' = [compose EXCEPT !.start = k, !.end = k, !.frame = <<>>]
      BY <2>7, <3>1, <3>2, <3>3 DEF FrameRuns
    <3> QED BY <3>1, <3>4 DEF ComposeInv
  <2> QED
    BY <2>1, <2>2, <2>3, <2>5, <2>6, <2>7, ComposeSteps DEF ComposeNext
<1> QED BY <1>2, <1>3, PTL DEF Spec

\* A tag that is inserted replaces what is selected and spares the text before
\* and after it, for texts of any length and whatever is typed, selected and
\* inserted before the frame of an earlier tag.
THEOREM TagsSpare == Spec => TagsSpareTheText
<1> DEFINE Spared ==
      InsertTag =>
        LET n == Len(compose.body) - compose.end
        IN /\ SubSeq(compose'.body, 1, compose.start)
                = SubSeq(compose.body, 1, compose.start)
           /\ SubSeq(compose'.body, Len(compose'.body) - n + 1, Len(compose'.body))
                = SubSeq(compose.body, compose.end + 1, Len(compose.body))
<1>1. ComposeInv /\ [Next]_vars => [Spared]_compose
  <2> SUFFICES ASSUME ComposeInv, InsertTag PROVE Spared
    OBVIOUS
  <2>1. compose'.body = Replaced(compose.body, "tag")
    BY DEF InsertTag, Rendered, ComposeInv
  <2>2. "tag" \in Piece
    BY DEF Piece
  <2>3. LET r == Replaced(compose.body, "tag")
            n == Len(compose.body) - compose.end
        IN  /\ SubSeq(r, 1, compose.start)
                 = SubSeq(compose.body, 1, compose.start)
            /\ SubSeq(r, Len(r) - n + 1, Len(r))
                 = SubSeq(compose.body, compose.end + 1, Len(compose.body))
    BY <2>2, ReplacedInEditor
  <2> QED BY <2>1, <2>3
<1>2. []ComposeInv /\ [][Next]_vars => [][Spared]_compose
  BY <1>1, PTL
<1> QED BY <1>2, ComposeInvHolds, PTL DEF Spec, TagsSpareTheText

\* ----------------------------------------------------------- accounts
\* The page of the account is left alone, shows what an address or a row leads
\* to, or is worked on.
LEMMA DetailSteps ==
    ASSUME [Next]_vars
    PROVE  \/ detail' = detail
           \/ \E p, linked : detail' \in AccountsAt(p, linked)
           \/ DetailNext
<1>1. CASE OnPage
  BY <1>1 DEF OnPage, OnAccountPage, PipelineNext, SearchAccounts, FilterStage,
              FilterSegment, accountVars
<1>2. CASE \E d : /\ RemountPages(d)
                 /\ \E p, linked : d \in AccountsAt(p, linked)
  BY <1>2 DEF RemountPages
<1>3. CASE UNCHANGED pageVars
  BY <1>3 DEF pageVars
<1> QED BY <1>1, <1>2, <1>3, StepsBesidePages

\* Every row of the pipeline is in the table the list is read from.
LEMMA RowsAreAccounts == PipelineRows \subseteq DOMAIN MockAccounts
<1>1. DOMAIN MockAccounts =
        {"nimbus_security", "trustlayer", "cybernova", "cloudvault",
         "datashield", "securestack", "shieldforce", "complianceio",
         "privacyfirst", "govguard"}
  BY DEF MockAccounts
<1>2. ToSet(AccountOrder) =
        {"nimbus_security", "trustlayer", "cybernova", "cloudvault",
         "datashield", "securestack", "shieldforce", "complianceio",
         "privacyfirst", "govguard"}
  BY DEF AccountOrder, ToSet
<1> QED BY <1>1, <1>2 DEF PipelineRows

\* An account that was opened from the list is one of the list's.
DetailInv ==
    /\ DOMAIN detail = {"id", "tab", "opened"}
    /\ detail.opened # <<>> =>
          detail.id \in DOMAIN MockAccounts /\ detail.opened[1] = detail.id

\* An account that is opened from the list is found, and its page shows what
\* the list showed of it, whatever addresses were typed before and after.
THEOREM AccountsOpenAsListed == Spec => []OpensAsListed
<1>0. ASSUME NEW id, NEW row, NEW p, NEW linked,
             DetailMounted(id, row) \in AccountsAt(p, linked)
      PROVE  row # <<>> => id \in DOMAIN MockAccounts /\ row[1] = id
  <2>1. ASSUME NEW a, NEW b, DetailMounted(a, b) = DetailMounted(id, row)
        PROVE  a = id /\ b = row
    <3>1. /\ DetailMounted(a, b).id = a /\ DetailMounted(id, row).id = id
          /\ DetailMounted(a, b).opened = b /\ DetailMounted(id, row).opened = row
      BY DEF DetailMounted
    <3> QED BY <2>1, <3>1
  <2>2. <<id>>[1] = id
    OBVIOUS
  <2> QED BY <1>0, <2>1, <2>2, RowsAreAccounts DEF AccountsAt, NoAccount
<1>1. ASSUME NEW p, NEW linked, NEW d \in AccountsAt(p, linked)
      PROVE  /\ DOMAIN d = {"id", "tab", "opened"}
             /\ d.opened # <<>> =>
                  d.id \in DOMAIN MockAccounts /\ d.opened[1] = d.id
  <2>1. \E id, row : d = DetailMounted(id, row)
    BY DEF AccountsAt, NoAccount
  <2>2. PICK id, row : d = DetailMounted(id, row)
    BY <2>1
  <2>3. DOMAIN d = {"id", "tab", "opened"} /\ d.id = id /\ d.opened = row
    BY <2>2 DEF DetailMounted
  <2> QED BY <1>0, <2>2, <2>3
<1>2. Init => DetailInv
  BY <1>1 DEF Init, PagesMounted, DetailInv
<1>3. DetailInv /\ [Next]_vars => DetailInv'
  <2> SUFFICES ASSUME DetailInv, [Next]_vars PROVE DetailInv'
    OBVIOUS
  <2>1. CASE detail' = detail
    BY <2>1 DEF DetailInv
  <2>2. CASE \E p, linked : detail' \in AccountsAt(p, linked)
    BY <1>1, <2>2 DEF DetailInv
  <2>3. CASE DetailNext
    BY <2>3 DEF DetailNext, SelectTab, DetailInv
  <2> QED BY <2>1, <2>2, <2>3, DetailSteps
<1>4. DetailInv => OpensAsListed
  <2>1. AccountDetail = MockAccounts
    BY DEF AccountDetail, MockAccounts
  <2> QED BY <2>1 DEF DetailInv, OpensAsListed, AccountFound
<1> QED BY <1>2, <1>3, <1>4, PTL DEF Spec

\* -------------------------------------------------------------- shell
\* The second segment of the addresses of each section, by which the sections
\* are told apart.
Area ==
    [Discovery |-> "discovery", Accounts |-> "accounts",
     Outreach |-> "outreach", Inbox |-> "inbox", Learning |-> "learning",
     Analytics |-> "analytics", OpsConsole |-> "ops", Settings |-> "settings"]

LEMMA AreasAreDistinct ==
    ASSUME NEW s \in Section, NEW t \in Section, Area[s] = Area[t]
    PROVE  s = t
  BY DEF Area, Section

LEMMA HrefInArea ==
    ASSUME NEW s \in Section
    PROVE  Len(Href[s]) \in {2, 3} /\ Href[s][2] = Area[s]
<1> USE DEF Href, Area
<1>1. CASE s = "Discovery"
  BY <1>1 DEF Discovery
<1>2. CASE s = "Accounts"
  BY <1>2 DEF Accounts
<1>3. CASE s = "Outreach"
  BY <1>3 DEF SendBudgets
<1>4. CASE s = "Inbox"
  BY <1>4 DEF Inbox
<1>5. CASE s \in {"Learning", "Analytics", "OpsConsole", "Settings"}
  BY <1>5
<1> QED BY <1>1, <1>2, <1>3, <1>4, <1>5 DEF Section

LEMMA ChildrenInArea ==
    ASSUME NEW s \in Section, NEW p \in Children[s]
    PROVE  p[2] = Area[s]
<1> USE DEF Children, Area
<1>1. CASE s = "Discovery"
  BY <1>1 DEF Discovery, Sources, Signals
<1>2. CASE s = "Accounts"
  BY <1>2 DEF Accounts
<1>3. CASE s = "Outreach"
  BY <1>3 DEF SendBudgets
<1>4. CASE s = "Inbox"
  BY <1>4 DEF Inbox, Alerts
<1>5. CASE s = "Learning"
  BY <1>5
<1>6. CASE s = "Analytics"
  BY <1>6
<1>7. CASE s = "OpsConsole"
  BY <1>7 DEF Changes, Runbooks
<1>8. CASE s = "Settings"
  BY <1>8
<1> QED BY <1>1, <1>2, <1>3, <1>4, <1>5, <1>6, <1>7, <1>8 DEF Section

\* An item of the sidebar is active in its own area only.
LEMMA ActiveInArea ==
    ASSUME NEW s \in Section, NEW p, IsActive(s, p)
    PROVE  p[2] = Area[s]
<1>1. CASE p \in Children[s]
  BY <1>1, ChildrenInArea
<1>2. CASE p = Href[s]
  BY <1>2, HrefInArea
<1>3. CASE IsStrictPrefix(Href[s], p)
  <2>0. PICK h : h = Href[s]
    OBVIOUS
  <2>1. PICK n \in {2, 3} : n = Len(h) /\ h = Href[s]
    BY <2>0, HrefInArea
  <2>2. SubSeq(h, 1, n) = SubSeq(p, 1, n)
    BY <1>3, <2>1 DEF IsStrictPrefix, IsPrefix
  <2>3. ASSUME NEW q PROVE SubSeq(q, 1, n)[2] = q[2]
    <3>1. \A i \in 1 .. n : q[i] \in {q[k] : k \in 1 .. n}
      OBVIOUS
    <3>2. \A i \in 1 .. n - 1 + 1 : SubSeq(q, 1, n)[i] = q[1 + i - 1]
      BY <3>1, SubSeqProperties
    <3>3. 2 \in 1 .. n - 1 + 1 /\ 1 + 2 - 1 = 2
      BY <2>1, HrefInArea
    <3> QED BY <3>2, <3>3
  <2> QED BY <2>1, <2>2, <2>3, HrefInArea
<1> QED BY <1>1, <1>2, <1>3 DEF IsActive

\* The console at a child of a section has no other section active.
LEMMA ChildActivates ==
    ASSUME NEW s \in Section, NEW p \in Children[s]
    PROVE  Active(p) \subseteq {s}
  BY ChildrenInArea, ActiveInArea, AreasAreDistinct DEF Active

\* Where the links of a page of the console lead, as far as the console goes.
LEMMA LinksInConsole ==
    ASSUME NEW from, InConsole(from), NEW p \in LinksOn(from)
    PROVE  Active(p) \subseteq Active(from)
<1>1. CASE from = Discovery
  <2>0. LinksOn(Discovery) = {Sources, Signals}
    BY DEF LinksOn, Discovery, Accounts, Offer, Summary, Workspace, Docs, Health
  <2>1. p \in Children["Discovery"]
    BY <1>1, <2>0 DEF Children
  <2>2. "Discovery" \in Active(from)
    BY <1>1 DEF Active, IsActive, Children, Section
  <2> QED BY <2>1, <2>2, ChildActivates DEF Section
<1>2. CASE from = Accounts
  <2>0. LinksOn(Accounts) = {Account}
    BY DEF LinksOn, Discovery, Accounts, Offer, Summary, Workspace, Docs, Health
  <2>1. p = Account
    BY <1>2, <2>0
  <2>2. "Accounts" \in Active(from) /\ Area["Accounts"] = "accounts"
    BY <1>2 DEF Active, IsActive, Children, Section, Area
  <2>3. p[2] = "accounts"
    BY <2>1 DEF Account
  <2>4. Active(p) \subseteq {"Accounts"}
    BY <2>2, <2>3, ActiveInArea, AreasAreDistinct DEF Active, Section
  <2> QED BY <2>2, <2>4
<1>3. CASE from \notin {Discovery, Accounts}
  <2>1. Head(from) = "app"
    BY DEF InConsole
  <2>2. /\ Head(Offer) # "app" /\ Head(Summary) # "app" /\ Head(Workspace) # "app"
        /\ Head(Docs) # "app" /\ Head(Health) # "app"
    BY DEF Offer, Summary, Workspace, Docs, Health
  <2> QED BY <1>3, <2>1, <2>2 DEF LinksOn
<1> QED BY <1>1, <1>2, <1>3

\* The dashboard that some pages point to is no page.
LEMMA NoDashboard == ~InConsole(Dashboard)
<1>1. \A s \in Section : Dashboard \notin Children[s]
  <2> SUFFICES ASSUME NEW s \in Section, Dashboard \in Children[s] PROVE FALSE
    OBVIOUS
  <2> USE DEF Children, Dashboard
  <2>1. CASE s = "Discovery"
    BY <2>1 DEF Discovery, Sources, Signals
  <2>2. CASE s = "Accounts"
    BY <2>2 DEF Accounts
  <2>3. CASE s = "Outreach"
    BY <2>3 DEF SendBudgets
  <2>4. CASE s = "Inbox"
    BY <2>4 DEF Inbox, Alerts
  <2>5. CASE s = "Learning"
    BY <2>5
  <2>6. CASE s = "Analytics"
    BY <2>6
  <2>7. CASE s = "OpsConsole"
    BY <2>7 DEF Changes, Runbooks
  <2>8. CASE s = "Settings"
    BY <2>8
  <2> QED BY <2>1, <2>2, <2>3, <2>4, <2>5, <2>6, <2>7, <2>8 DEF Section
<1>2. Dashboard \notin {CrawlRun, CrawledPage, Account, Compose, Wizard}
  BY DEF Dashboard, CrawlRun, CrawledPage, Account, Compose, Wizard
<1>3. Dashboard \notin {Offer, Checkout, Room, <<"r", "[token]", "status">>, Proof,
                        Summary, Workspace, Docs, Health}
  BY DEF Dashboard, Offer, Checkout, Room, Proof, Summary, Workspace, Docs, Health
<1>4. ASSUME NEW d, d \in Page
      PROVE  \/ \E s \in Section : d \in Children[s]
             \/ d \in {CrawlRun, CrawledPage, Account, Compose, Wizard}
             \/ d \in {Offer, Checkout, Room, <<"r", "[token]", "status">>, Proof,
                        Summary, Workspace, Docs, Health}
  BY <1>4 DEF Page
<1> QED BY <1>1, <1>2, <1>3, <1>4 DEF InConsole

\* The section of the page, with the types.
ShellInv == ShellTypeOK /\ OnlyHistoryStrays

LEMMA MountedShell ==
    ASSUME NEW p, path' = p, MountShell(p)
    PROVE  ShellInv'
<1>1. ActiveAt(p) \subseteq Section
  BY DEF ActiveAt, Active
<1> QED
  BY <1>1 DEF MountShell, ShellInv, ShellTypeOK, OnlyHistoryStrays, ExpandedAt,
              ActiveAt

\* A link stays in the section of the page or leads to one that is shown.
LEMMA KeptShell ==
    ASSUME NEW p, path' = p, ShellInv, NEW linked, KeepShell(p, linked),
           linked => Active(p) \subseteq expanded \cup closed \cup strayed
    PROVE  ShellInv'
<1>1. Active(p) \subseteq Section
  BY DEF Active
<1>2. Active(p) \subseteq expanded' \cup closed' \cup strayed'
  BY DEF KeepShell
<1>3. ShellTypeOK'
  BY <1>1 DEF KeepShell, ShellInv, ShellTypeOK
<1> QED BY <1>2, <1>3 DEF ShellInv, OnlyHistoryStrays

LEMMA ShellInvHolds == Spec => []ShellInv
<1>1. Init => ShellInv
  <2> SUFFICES ASSUME Init PROVE ShellInv
    OBVIOUS
  <2>1. ShellInit(path)
    BY DEF Init
  <2>2. ActiveAt(path) \subseteq Section
    BY DEF ActiveAt, Active
  <2> QED
    BY <2>1, <2>2 DEF ShellInit, ShellInv, ShellTypeOK, OnlyHistoryStrays,
                      ExpandedAt, ActiveAt
<1>2. ShellInv /\ [Next]_vars => ShellInv'
  <2> SUFFICES ASSUME ShellInv, [Next]_vars PROVE ShellInv'
    OBVIOUS
  <2>1. CASE \E p \in Entrances \cup {path} : Load(p)
    BY <2>1, MountedShell DEF Load
  <2>2. ASSUME NEW p, NEW linked, Go(p, linked),
               linked /\ InConsole(path) /\ InConsole(p)
                 => Active(p) \subseteq expanded \cup closed \cup strayed
        PROVE  ShellInv'
    BY <2>2, MountedShell, KeptShell DEF Go
  <2>3. CASE Follow
    <3>1. PICK p \in Links : Go(p, TRUE)
      BY <2>3 DEF Follow
    <3>2. ASSUME InConsole(path), InConsole(p)
          PROVE  Active(p) \subseteq expanded \cup closed \cup strayed
      <4>1. CASE p \in LinksOn(path)
        BY <3>2, <4>1, LinksInConsole DEF ShellInv, OnlyHistoryStrays
      <4>2. CASE p \in LastStepLinks
        BY <3>2, <4>2, NoDashboard DEF LastStepLinks
      <4>3. CASE p \in SidebarLinks
        <5>1. PICK s \in expanded : p \in Children[s]
          BY <4>3 DEF SidebarLinks
        <5>2. s \in Section
          BY DEF ShellInv, ShellTypeOK
        <5> QED BY <5>1, <5>2, ChildActivates
      <4> QED BY <3>2, <4>1, <4>2, <4>3 DEF Links
    <3> QED BY <2>2, <3>1, <3>2
  <2>4. CASE HistoryBack
    BY <2>2, <2>4 DEF HistoryBack
  <2>5. CASE InShell
    <3>1. ASSUME NEW s \in Toggled, ToggleSection(s) PROVE ShellInv'
      BY <3>1, ToggledAssumption
      DEF ToggleSection, ShellInv, ShellTypeOK, OnlyHistoryStrays
    <3>2. CASE ToggleAudit \/ CloseAudit
      BY <3>2 DEF ToggleAudit, CloseAudit, ShellInv, ShellTypeOK,
                  OnlyHistoryStrays
    <3> QED BY <2>5, <3>1, <3>2 DEF InShell, ShellNext
  <2>6. CASE OnPage \/ UNCHANGED vars
    BY <2>6 DEF OnPage, vars, shellVars, ShellInv, ShellTypeOK, OnlyHistoryStrays
  <2> QED BY <2>1, <2>3, <2>4, <2>5, <2>6 DEF Next
<1> QED BY <1>1, <1>2, PTL DEF Spec

\* The section of the page shows its children unless the visitor closed it or
\* the back button led into it, for any sections he toggles, any pages the
\* history holds and any way through the console.
THEOREM NoLinkStrays == Spec => []OnlyHistoryStrays
<1>1. ShellInv => OnlyHistoryStrays
  BY DEF ShellInv
<1> QED BY <1>1, ShellInvHolds, PTL

\* -------------------------------------------------------------- types
\* What a step does to the lists of the pipeline and of the discovery.
LEMMA ListSteps ==
    ASSUME [Next]_vars
    PROVE  /\ pipeline' = pipeline \/ pipeline' = PipelineMounted \/ PipelineNext
           /\ \/ UNCHANGED discoveryVars
              \/ sources' = SourcesMounted /\ signals' = SignalsMounted
              \/ SourcesNext \/ SignalsNext
<1>1. CASE OnPage
  BY <1>1 DEF OnPage, OnAccountPage, DetailNext, SelectTab, OnDiscoveryPage,
              accountVars, discoveryVars
<1>2. CASE \E d : RemountPages(d)
  BY <1>2 DEF RemountPages
<1>3. CASE UNCHANGED pageVars
  BY <1>3 DEF pageVars, discoveryVars
<1> QED BY <1>1, <1>2, <1>3, StepsBesidePages

\* What a step does to the pages of the operators.
LEMMA OpsSteps ==
    ASSUME [Next]_vars
    PROVE  \/ UNCHANGED opsVars
           \/ /\ changes' = ChangesMounted /\ runbook' = RunbookMounted
              /\ severity' = "All" /\ controls' = ControlsMounted
              /\ lists' = NoQuery
           \/ ChangesNext \/ SelectRunbook \/ FilterSeverity \/ ControlsNext
           \/ SearchLists
<1>1. CASE OnPage
  BY <1>1 DEF OnPage, OnOpsPage, opsVars
<1>2. CASE \E d : RemountPages(d)
  BY <1>2 DEF RemountPages
<1>3. CASE UNCHANGED pageVars
  BY <1>3 DEF pageVars, opsVars
<1> QED BY <1>1, <1>2, <1>3, StepsBesidePages

\* An empty input is a query, whatever is typed into it later.
LEMMA NoQueryIsQuery == \A F : NoQuery \in Query(F)
  BY DEF NoQuery, Query

\* A sequence is bounded by its length.
LEMMA ShortSeq ==
    ASSUME NEW S, NEW n \in Nat, NEW s \in Seq(S), Len(s) <= n
    PROVE  s \in BoundedSeq(S, n)
<1>1. PICK m \in Nat : m = Len(s)
  OBVIOUS
<1>2. s \in [1..m -> S] /\ m \in 0..n
  BY <1>1, LenProperties
<1> QED BY <1>2 DEF BoundedSeq, SeqOf

LEMMA ShellTypes == Spec => []ShellTypeOK
<1>1. ShellInv => ShellTypeOK
  BY DEF ShellInv
<1> QED BY <1>1, ShellInvHolds, PTL

LEMMA OfferTypes == Spec => []OfferTypeOK
<1> USE OfferAssumption DEF OfferTypeOK
<1>1. Init => OfferTypeOK
  BY DEF Init, PagesMounted, OfferMounted
<1>2. OfferTypeOK /\ [Next]_vars => OfferTypeOK'
  BY OfferSteps DEF OfferNext, OfferTimePasses, OfferTimerFires, OfferMounted
<1> QED BY <1>1, <1>2, PTL DEF Spec

LEMMA PipelineTypes == Spec => []PipelineTypeOK
<1> USE DEF PipelineTypeOK
<1>1. PipelineMounted \in [search : Query({"shield"}), stage : StageFilters,
                           segment : SegmentFilters]
  BY NoQueryIsQuery DEF PipelineMounted, StageFilters, SegmentFilters
<1>2. Init => PipelineTypeOK
  BY <1>1 DEF Init, PagesMounted
<1>3. PipelineTypeOK /\ [Next]_vars => PipelineTypeOK'
  BY <1>1, ListSteps DEF PipelineNext, SearchAccounts, FilterStage, FilterSegment
<1> QED BY <1>2, <1>3, PTL DEF Spec

LEMMA DiscoveryTypes == Spec => []DiscoveryTypeOK
<1> USE DEF DiscoveryTypeOK
<1>1. SourcesMounted \in [search : Query({"security", "jobs"}), type : TypeFilters,
                          status : StatusFilters]
  BY NoQueryIsQuery DEF SourcesMounted, TypeFilters, StatusFilters
<1>2. SignalsMounted \in [search : Query({"trust", "tech"}), type : SignalTypes,
                          freshness : Windows, negatives : BOOLEAN]
  BY NoQueryIsQuery DEF SignalsMounted, SignalTypes, Windows
<1>3. Init => DiscoveryTypeOK
  BY <1>1, <1>2 DEF Init, PagesMounted
<1>4. DiscoveryTypeOK /\ [Next]_vars => DiscoveryTypeOK'
  <2> SUFFICES ASSUME DiscoveryTypeOK, [Next]_vars PROVE DiscoveryTypeOK'
    OBVIOUS
  <2>1. CASE UNCHANGED discoveryVars
    BY <2>1 DEF discoveryVars
  <2>2. CASE sources' = SourcesMounted /\ signals' = SignalsMounted
    BY <1>1, <1>2, <2>2
  <2>3. CASE SourcesNext
    BY <2>3 DEF SourcesNext, SearchSources, FilterType, FilterStatus
  <2>4. CASE SignalsNext
    BY <2>4 DEF SignalsNext, SearchSignals, FilterSignalType, FilterFreshness,
                ToggleNegatives
  <2> QED BY <2>1, <2>2, <2>3, <2>4, ListSteps
<1> QED BY <1>3, <1>4, PTL DEF Spec

LEMMA OpsTypes == Spec => []OpsTypeOK
<1> USE DEF OpsTypeOK
<1>1. /\ ChangesMounted \in [filter : ChangeTypes, q : Query({"policy", "prompt"})]
      /\ RunbookMounted \in DOMAIN StepCount
      /\ "All" \in SeverityFilters
      /\ ControlsMounted \in [tripped : BOOLEAN, perMin : Limits \cup {"45"},
                              perHour : Limits \cup {"1800"},
                              bounce : Limits \cup {"3.5"}]
      /\ NoQuery \in Query({"jane", "auto", "hard"})
  BY NoQueryIsQuery DEF ChangesMounted, ChangeTypes, RunbookMounted, StepCount,
                        SeverityFilters, ControlsMounted
<1>2. Init => OpsTypeOK
  BY <1>1 DEF Init, PagesMounted
<1>3. OpsTypeOK /\ [Next]_vars => OpsTypeOK'
  <2> SUFFICES ASSUME OpsTypeOK, [Next]_vars PROVE OpsTypeOK'
    OBVIOUS
  <2>1. CASE UNCHANGED opsVars
    BY <2>1 DEF opsVars
  <2>2. CASE /\ changes' = ChangesMounted /\ runbook' = RunbookMounted
             /\ severity' = "All" /\ controls' = ControlsMounted
             /\ lists' = NoQuery
    BY <1>1, <2>2
  <2>3. CASE ChangesNext
    BY <2>3 DEF ChangesNext, FilterChanges, SearchChanges
  <2>4. CASE SelectRunbook \/ FilterSeverity \/ SearchLists
    BY <2>4 DEF SelectRunbook, FilterSeverity, SearchLists
  <2>5. CASE ToggleKillSwitch
    BY <2>5 DEF ToggleKillSwitch
  <2>6. CASE TypeLimit
    <3>1. PICK field \in {"perMin", "perHour", "bounce"} : \E text \in Limits :
             controls' = [controls EXCEPT ![field] = text]
      BY <2>6 DEF TypeLimit
    <3>2. UNCHANGED <<changes, runbook, severity, lists>>
      BY <2>6 DEF TypeLimit
    <3> QED BY <3>1, <3>2
  <2> QED BY <2>1, <2>2, <2>3, <2>4, <2>5, <2>6, OpsSteps DEF ControlsNext
<1> QED BY <1>2, <1>3, PTL DEF Spec

\* The fields of the inbox and of the account's page, with their types.
LEMMA InboxTypes == Spec => []InboxTypeOK
<1> DEFINE T == DOMAIN inbox = {"filter", "q", "selectedId", "picked", "snooze"}
                /\ InboxTypeOK
<1> USE DEF InboxTypeOK
<1>1. /\ DOMAIN InboxMounted = {"filter", "q", "selectedId", "picked", "snooze"}
      /\ InboxMounted.filter \in ClassFilters
      /\ InboxMounted.q \in Query({"trust", "security"})
      /\ InboxMounted.selectedId \in ToSet(ThreadOrder)
      /\ InboxMounted.snooze \in SnoozeOptions
  <2>1. ThreadOrder[1] \in ToSet(ThreadOrder)
    BY DEF ThreadOrder, ToSet
  <2> QED BY <2>1, InboxAssumption, NoQueryIsQuery DEF InboxMounted
<1>2. Init => T
  BY <1>1 DEF Init, PagesMounted
<1>3. T /\ [Next]_vars => T'
  <2> SUFFICES ASSUME T, [Next]_vars PROVE T'
    OBVIOUS
  <2>1. CASE inbox' = inbox \/ inbox' = InboxMounted
    BY <1>1, <2>1
  <2>2. CASE FilterThreads \/ SearchThreads \/ SelectSnooze
    BY <2>2 DEF FilterThreads, SearchThreads, SelectSnooze
  <2>3. CASE SelectThread
    BY <2>3 DEF SelectThread, Threads
  <2> QED BY <2>1, <2>2, <2>3, InboxSteps DEF InboxNext
<1>4. T => InboxTypeOK
  OBVIOUS
<1> QED BY <1>2, <1>3, <1>4, PTL DEF Spec

LEMMA DetailTypes == Spec => []DetailTypeOK
<1> DEFINE T == DOMAIN detail = {"id", "tab", "opened"} /\ DetailTypeOK
<1> USE DEF DetailTypeOK
<1>1. ASSUME NEW p, NEW linked, NEW d \in AccountsAt(p, linked)
      PROVE  DOMAIN d = {"id", "tab", "opened"} /\ d.tab \in Tabs
  <2>1. \E id, row : d = DetailMounted(id, row)
    BY DEF AccountsAt, NoAccount
  <2> QED BY <2>1 DEF DetailMounted, Tabs
<1>2. Init => T
  BY <1>1 DEF Init, PagesMounted
<1>3. T /\ [Next]_vars => T'
  BY <1>1, DetailSteps DEF DetailNext, SelectTab
<1>4. T => DetailTypeOK
  OBVIOUS
<1> QED BY <1>2, <1>3, <1>4, PTL DEF Spec

LEMMA ComposeTypes == Spec => []ComposeTypeOK
<1> DEFINE Short ==
      /\ Len(compose.body) <= MaxBody
      /\ compose.frame = <<>> \/ \E pos \in 1 .. MaxBody : compose.frame = <<pos>>
<1>1. Init => Short
  BY InboxAssumption DEF Init, PagesMounted, ComposeMounted
<1>2. ComposeInv /\ Short /\ [Next]_vars => Short'
  <2> SUFFICES ASSUME ComposeInv, Short, [Next]_vars PROVE Short'
    OBVIOUS
  <2>1. CASE compose' = compose
    BY <2>1
  <2>2. CASE compose' = ComposeMounted
    BY <2>2, InboxAssumption DEF ComposeMounted
  <2>3. CASE SelectText
    BY <2>3 DEF SelectText, ComposeInv
  <2>4. ASSUME NEW x \in Piece, Len(compose.body) < MaxBody
        PROVE  \E r \in Seq(Piece), n \in Nat :
                  /\ r = Replaced(compose.body, x) /\ n = Len(r)
                  /\ n <= MaxBody /\ compose.start + 1 \in 1 .. n
    <3>1. PICK r : r = Replaced(compose.body, x)
      OBVIOUS
    <3>2. /\ r \in Seq(Piece) /\ Len(r) <= Len(compose.body) + 1
          /\ compose.start + 1 <= Len(r)
      BY <3>1, ReplacedInEditor
    <3>3. PICK n \in Nat, k \in Nat : n = Len(compose.body) /\ k = Len(r)
      BY <3>2, LenProperties DEF ComposeInv
    <3>4. k <= MaxBody /\ compose.start + 1 \in 1 .. k
      BY <2>4, <3>2, <3>3, InboxAssumption DEF ComposeInv
    <3> QED BY <3>1, <3>2, <3>3, <3>4
  <2>5. CASE TypeText
    <3>1. PICK r \in Seq(Piece), n \in Nat : /\ r = Replaced(compose.body, "new") /\ n = Len(r)
                              /\ n <= MaxBody
      BY <2>4, <2>5 DEF TypeText, Piece
    <3>2. compose'.body = r /\ compose'.frame = compose.frame
      BY <2>5, <3>1 DEF TypeText, Rendered
    <3> QED BY <3>1, <3>2
  <2>6. CASE InsertTag
    <3>1. PICK r \in Seq(Piece), n \in Nat : /\ r = Replaced(compose.body, "tag") /\ n = Len(r)
                              /\ n <= MaxBody /\ compose.start + 1 \in 1 .. n
      BY <2>4, <2>6 DEF InsertTag, Piece
    <3>2. compose'.body = r /\ compose'.frame = <<compose.start + 1>>
      BY <2>6, <3>1 DEF InsertTag, Rendered, ComposeInv
    <3>3. compose.start + 1 \in 1 .. MaxBody
      BY <3>1, InboxAssumption
    <3> QED BY <3>1, <3>2, <3>3
  <2>7. CASE FrameRuns
    BY <2>7 DEF FrameRuns, ComposeInv
  <2> QED
    BY <2>1, <2>2, <2>3, <2>5, <2>6, <2>7, ComposeSteps DEF ComposeNext
<1>3. ComposeInv /\ Short => ComposeTypeOK
  <2> SUFFICES ASSUME ComposeInv, Short PROVE ComposeTypeOK
    OBVIOUS
  <2>1. compose.body \in BoundedSeq(Piece, MaxBody)
    BY ShortSeq, InboxAssumption DEF ComposeInv
  <2>2. compose.start \in 0 .. compose.end /\ compose.end <= Len(compose.body)
    BY DEF ComposeInv
  <2> QED BY <2>1, <2>2 DEF ComposeTypeOK, Piece
<1> QED BY <1>1, <1>2, <1>3, ComposeInvHolds, PTL DEF Spec

LEMMA WizardTypes == Spec => []WizardTypeOK
<1> DEFINE Bounded ==
      /\ wizard.step \in 0 .. TotalSteps - 1
      /\ wizard.connected \subseteq Integrations
      /\ wizard.policies \in Seq(PolicyNames) /\ Len(wizard.policies) <= MaxPolicies
      /\ wizard.logo \in BOOLEAN
      /\ Len(wizard.invited) <= MaxInvites
<1>0. /\ WizardMounted.step \in 0 .. TotalSteps - 1
      /\ WizardMounted.connected \subseteq Integrations
      /\ WizardMounted.policies \in Seq(PolicyNames)
      /\ Len(WizardMounted.policies) <= MaxPolicies
      /\ WizardMounted.logo \in BOOLEAN
      /\ Len(WizardMounted.invited) <= MaxInvites
  <2>1. /\ WizardMounted.step = 0 /\ WizardMounted.connected = {}
        /\ WizardMounted.policies = <<>> /\ WizardMounted.logo = FALSE
        /\ WizardMounted.invited = <<Invite("jordan.lee", "Admin")>>
    BY DEF WizardMounted
  <2>2. Len(<<Invite("jordan.lee", "Admin")>>) = 1
    OBVIOUS
  <2>3. <<>> \in Seq(PolicyNames) /\ Len(<<>>) = 0
    BY EmptySeq
  <2>4. 0 \in 0 .. TotalSteps - 1 /\ 0 <= MaxPolicies /\ 1 <= MaxInvites
    BY WizardAssumption DEF TotalSteps
  <2> QED BY <2>1, <2>2, <2>3, <2>4
<1>1. ASSUME wizard = WizardMounted PROVE Bounded
  BY <1>0, <1>1
<1>2. Init => Bounded
  BY <1>1 DEF Init, PagesMounted
<1>3. WizardInv /\ Bounded /\ [Next]_vars => Bounded'
  <2> SUFFICES ASSUME WizardInv, Bounded, [Next]_vars PROVE Bounded'
    OBVIOUS
  <2> USE DEF WizardFields
  <2>1. CASE UNCHANGED wizardVars
    BY <2>1 DEF wizardVars
  <2>2. CASE wizard' = WizardMounted /\ entered' = <<>>
    BY <1>0, <2>2
  <2>3. CASE GoToStep \/ Previous \/ NextStep
    BY <2>3 DEF GoToStep, Previous, NextStep, WizardInv, TotalSteps
  <2>4. CASE ConnectIntegration \/ UploadLogo
    BY <2>4 DEF ConnectIntegration, UploadLogo, WizardInv
  <2>5. CASE AddPolicies
    <3>1. PICK name \in PolicyNames :
             wizard' = [wizard EXCEPT !.policies = Append(@, name)]
      BY <2>5 DEF AddPolicies
    <3>2. PICK s \in Seq(PolicyNames) : s = wizard.policies
      OBVIOUS
    <3>3. Append(s, name) \in Seq(PolicyNames) /\ Len(Append(s, name)) = Len(s) + 1
      BY AppendProperties
    <3>4. wizard'.policies = Append(s, name)
      BY <3>1, <3>2 DEF WizardInv
    <3>5. Len(s) < MaxPolicies
      BY <2>5, <3>2 DEF AddPolicies
    <3>6. PICK n \in Nat : n = Len(s)
      OBVIOUS
    <3>7. n + 1 <= MaxPolicies
      BY <3>5, <3>6, WizardAssumption
    <3>8. /\ wizard'.step = wizard.step /\ wizard'.connected = wizard.connected
          /\ wizard'.logo = wizard.logo /\ wizard'.invited = wizard.invited
      BY <3>1 DEF WizardInv
    <3> QED BY <3>3, <3>4, <3>6, <3>7, <3>8
  <2>6. CASE TypeInvite \/ ChooseRole
    BY <2>6 DEF TypeInvite, ChooseRole, WizardInv
  <2>7. CASE AddInvite
    <3>1. PICK s \in Seq(Invites), x \in Invites :
             s = wizard.invited /\ x = wizard.captured
      BY DEF WizardInv, Invite, Invites
    <3>2. Len(Append(s, x)) = Len(s) + 1
      BY AppendProperties
    <3>3. /\ wizard'.step = wizard.step /\ wizard'.connected = wizard.connected
          /\ wizard'.logo = wizard.logo /\ wizard'.policies = wizard.policies
          /\ wizard'.invited = Append(s, x)
      BY <2>7, <3>1 DEF AddInvite, WizardInv
    <3>4. PICK n \in Nat : n = Len(s)
      OBVIOUS
    <3>5. n + 1 <= MaxInvites
      <4>1. Len(wizard.invited) < MaxInvites
        BY <2>7 DEF AddInvite
      <4> QED BY ONLY <3>1, <3>4, <4>1, WizardAssumption
    <3> QED BY <3>2, <3>3, <3>4, <3>5
  <2> QED
    BY <2>1, <2>2, <2>3, <2>4, <2>5, <2>6, <2>7, WizardSteps DEF WizardNext
<1>4. WizardInv /\ Bounded => WizardTypeOK
  <2> SUFFICES ASSUME WizardInv, Bounded PROVE WizardTypeOK
    OBVIOUS
  <2>1. wizard.policies \in BoundedSeq(PolicyNames, MaxPolicies)
    BY ShortSeq, WizardAssumption
  <2>2. Len(wizard.invited) \in 1 .. MaxInvites
    <3>1. Len(wizard.invited) \in Nat \ {0}
      BY EmptySeq DEF WizardInv
    <3> QED BY <3>1, WizardAssumption
  <2> QED BY <2>1, <2>2 DEF WizardTypeOK, WizardInv
<1> QED BY <1>2, <1>3, <1>4, WizardInvHolds, PTL DEF Spec

LEMMA DocsTypes == Spec => []DocsTypeOK
<1> DEFINE T == DOMAIN docs = {"category", "drag", "over"} /\ DocsTypeOK
<1> USE DEF DocsTypeOK
<1>1. /\ DOMAIN DocsMounted = {"category", "drag", "over"}
      /\ DocsMounted.category \in Categories
      /\ DocsMounted.drag \in BOOLEAN
      /\ DocsMounted.over \in {"away", "zone", "child"}
  BY DEF DocsMounted, Categories
<1>2. Init => T
  BY <1>1 DEF Init, PagesMounted
<1>3. T /\ [Next]_vars => T'
  <2> SUFFICES ASSUME T, [Next]_vars PROVE T'
    OBVIOUS
  <2>1. CASE docs' = docs \/ docs' = DocsMounted
    BY <1>1, <2>1
  <2>2. CASE FilterCategory
    BY <2>2 DEF FilterCategory
  <2>3. CASE DragEnter \/ DragAcross \/ DragLeave \/ DragOver \/ DropDocs
    BY <2>3 DEF DragEnter, DragAcross, DragLeave, DragOver, DropDocs, Entered, Left
  <2> QED BY <2>1, <2>2, <2>3, DocsSteps DEF DocsNext
<1>4. T => DocsTypeOK
  OBVIOUS
<1> QED BY <1>2, <1>3, <1>4, PTL DEF Spec

\* The state of every page and of the console around them keeps its type, for
\* any bounds that leave room for what the pages are mounted with.
THEOREM TypeCorrect == Spec => []TypeOK
<1>1. CheckoutInv => CheckoutTypeOK
  BY DEF CheckoutInv
<1>2. RoomInv => RoomTypeOK
  BY DEF RoomInv
<1> QED
  BY <1>1, <1>2, CheckoutInvHolds, RoomInvHolds, ShellTypes, OfferTypes,
     PipelineTypes, DetailTypes, InboxTypes, ComposeTypes, DiscoveryTypes,
     OpsTypes, WizardTypes, DocsTypes, PTL DEF TypeOK
=============================================================================
