---------------------------- MODULE SetupWizard ----------------------------
(* The wizard a customer sets up the workspace with                          *)
(* (app/app/onboarding/page.tsx).  Everything it is told is the state of the *)
(* mounted page: no step calls a service, and leaving the page forgets it.   *)
(* The colours and the domain of the trust center, which no step reads, are  *)
(* left out.                                                                 *)
EXTENDS Naturals, Sequences, SequencesExt, FiniteSets

CONSTANTS
    Integrations,   \* the integrations that are connected (bound)
    PolicyNames,    \* the names of the files handed over (bound)
    MaxPolicies,    \* the files in the list of policies (bound)
    MaxInvites      \* the rows in the list of invitations (bound)

ASSUME WizardAssumption == MaxPolicies \in Nat /\ MaxInvites \in Nat \ {0}

VARIABLES
    wizard,     \* the state of a mounted OnboardingPage
    entered     \* history: what each click on Add found in the inputs

TotalSteps == 6
Roles == {"Admin", "Security", "Viewer"}

\* What an email input holds, as trim() sees it.
Emails == {"", "blank", "a"}
Invite(email, role) == [email |-> email, role |-> role]

\* addInvite lives in a useCallback with the email and the role as its
\* dependencies: captured is the pair in its closure.
WizardMounted ==
    [step |-> 0, connected |-> {}, policies |-> <<>>, logo |-> FALSE,
     email |-> "", role |-> "Security", captured |-> Invite("", "Security"),
     invited |-> <<Invite("jordan.lee", "Admin")>>]

\* The dots above the steps, and the buttons Previous and Next.
GoToStep ==
    /\ \E n \in 0 .. TotalSteps - 1 : wizard' = [wizard EXCEPT !.step = n]
    /\ UNCHANGED entered

Previous ==
    /\ wizard.step > 0
    /\ wizard' = [wizard EXCEPT !.step = @ - 1]
    /\ UNCHANGED entered

\* Mutant of NextStep: without Math.min and the disabled button.
NextUnbounded ==
    /\ wizard' = [wizard EXCEPT !.step = @ + 1]
    /\ UNCHANGED entered

NextStep ==
    /\ wizard.step < TotalSteps - 1
    /\ wizard' = [wizard EXCEPT !.step = @ + 1]
    /\ UNCHANGED entered

\* connectIntegration; the button of a connected one is disabled.
ConnectIntegration ==
    /\ wizard.step = 1
    /\ \E id \in Integrations \ wizard.connected :
         wizard' = [wizard EXCEPT !.connected = @ \cup {id}]
    /\ UNCHANGED entered

\* onPolicyDrop, and the file input behind a click on the zone: the names are
\* appended, those that are in the list already too.
AddPolicies ==
    /\ wizard.step = 2
    /\ Len(wizard.policies) < MaxPolicies
    /\ \E name \in PolicyNames :
         wizard' = [wizard EXCEPT !.policies = Append(@, name)]
    /\ UNCHANGED entered

UploadLogo ==
    /\ wizard.step = 3
    /\ wizard' = [wizard EXCEPT !.logo = TRUE]
    /\ UNCHANGED entered

\* setInviteEmail and setInviteRole, after which the callback is renewed.
TypeInvite ==
    /\ wizard.step = 4
    /\ \E e \in Emails :
         wizard' = [wizard EXCEPT !.email = e, !.captured = Invite(e, wizard.role)]
    /\ UNCHANGED entered

\* Mutant of ChooseRole: the role is not among the dependencies.
ChooseRoleUnseen ==
    /\ wizard.step = 4
    /\ \E r \in Roles : wizard' = [wizard EXCEPT !.role = r]
    /\ UNCHANGED entered

ChooseRole ==
    /\ wizard.step = 4
    /\ \E r \in Roles :
         wizard' = [wizard EXCEPT !.role = r, !.captured = Invite(wizard.email, r)]
    /\ UNCHANGED entered

\* addInvite: a blank email is not added; the input is emptied.
AddInvite ==
    /\ wizard.step = 4
    /\ wizard.captured.email \notin {"", "blank"}
    /\ Len(wizard.invited) < MaxInvites
    /\ wizard' = [wizard EXCEPT
                    !.invited = Append(@, wizard.captured),
                    !.email = "", !.captured = Invite("", wizard.role)]
    /\ entered' = Append(entered, Invite(wizard.email, wizard.role))

WizardNext ==
    \/ GoToStep \/ Previous \/ NextStep \/ ConnectIntegration \/ AddPolicies
    \/ UploadLogo \/ TypeInvite \/ ChooseRole \/ AddInvite

WizardTypeOK ==
    /\ wizard.step \in 0 .. TotalSteps - 1
    /\ wizard.connected \subseteq Integrations
    /\ wizard.policies \in BoundedSeq(PolicyNames, MaxPolicies)
    /\ wizard.logo \in BOOLEAN
    /\ wizard.email \in Emails
    /\ wizard.role \in Roles
    /\ Len(wizard.invited) \in 1 .. MaxInvites

\* Whoever is invited is invited as the inputs showed at the click on Add, in
\* order and with the role chosen for this person, and the first row stays:
\* steps left and shown again, roles changed after the address and blank
\* addresses notwithstanding.
InvitedAsEntered == Tail(wizard.invited) = entered
=============================================================================
