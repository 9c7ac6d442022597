----------------------------- MODULE WebSession -----------------------------
(* A visitor of the web application: the pages he loads, the links he        *)
(* follows, the console around the pages and what he does on each.  A page   *)
(* that is left is unmounted and forgets its state; the console around it    *)
(* stays as long as he follows links inside it.  The variables of a page     *)
(* that is not mounted have the values it will be mounted with.              *)
EXTENDS Shell, OfferPages, TrustRoom, AccountPages, InboxPages,
        DiscoveryPages, OpsPages, SetupWizard, WorkspacePages

CONSTANTS
    Entrances,  \* the addresses that are typed or bookmarked (bound)
    Earlier     \* the pages the tab's history goes back or forward to (bound)

pageVars ==
    <<offer, checkout, room, pipeline, detail, inbox, compose, sources, signals,
      changes, runbook, severity, controls, lists, wizard, entered, docs>>
vars == <<path, shellVars, pageVars>>

\* Every page as it is mounted: d is the account of its page.
PagesMounted(d) ==
    /\ offer = OfferMounted /\ checkout = CheckoutMounted
    /\ room = RoomMounted
    /\ pipeline = PipelineMounted /\ detail = d
    /\ inbox = InboxMounted /\ compose = ComposeMounted
    /\ sources = SourcesMounted /\ signals = SignalsMounted
    /\ changes = ChangesMounted /\ runbook = RunbookMounted
    /\ severity = "All" /\ controls = ControlsMounted /\ lists = NoQuery
    /\ wizard = WizardMounted /\ entered = <<>>
    /\ docs = DocsMounted

\* Every page is mounted anew when it is shown next.
RemountPages(d) ==
    /\ offer' = OfferMounted /\ checkout' = CheckoutMounted
    /\ room' = RoomMounted
    /\ pipeline' = PipelineMounted /\ detail' = d
    /\ inbox' = InboxMounted /\ compose' = ComposeMounted
    /\ sources' = SourcesMounted /\ signals' = SignalsMounted
    /\ changes' = ChangesMounted /\ runbook' = RunbookMounted
    /\ severity' = "All" /\ controls' = ControlsMounted /\ lists' = NoQuery
    /\ wizard' = WizardMounted /\ entered' = <<>>
    /\ docs' = DocsMounted

\* No account is shown.
NoAccount == DetailMounted("none", <<>>)

\* The address of an account can be typed with any id; a row of the list has
\* the id of its account.
AccountsAt(p, linked) ==
    CASE p # Account -> {NoAccount}
      [] linked      -> {DetailMounted(id, <<id>>) : id \in PipelineRows}
      [] OTHER       -> {DetailMounted(id, <<>>) :
                           id \in {"trustlayer", "cloudvault", "unknown"}}

Init ==
    \E p \in Entrances :
        /\ path = Landing(p)
        /\ ShellInit(Landing(p))
        /\ \E d \in AccountsAt(p, FALSE) : PagesMounted(d)

\* A document is loaded: an address is typed, the tab is reloaded.
Load(p) ==
    /\ path' = Landing(p)
    /\ MountShell(Landing(p))
    /\ \E d \in AccountsAt(p, FALSE) : RemountPages(d)

\* The router goes to another page; the console stays if both are inside.
Go(p, linked) ==
    /\ p # path
    /\ path' = p
    /\ IF InConsole(path) /\ InConsole(p) THEN KeepShell(p, linked) ELSE MountShell(p)
    /\ \E d \in AccountsAt(p, linked) : RemountPages(d)

\* The links that a page shows at its last step.
LastStepLinks ==
    IF \/ path = Checkout /\ checkout.step = 4
       \/ path = Wizard /\ wizard.step = 5
      THEN {Dashboard} ELSE {}

Links ==
    LinksOn(path) \cup LastStepLinks
        \cup IF InConsole(path) THEN SidebarLinks ELSE {}

Follow == \E p \in Links : Go(p, TRUE)

\* Back and forward inside the console, to any page the history of the tab can
\* hold for the document that is loaded, also after it was reloaded: the router
\* restores the page and keeps the console.  Of two pages of one document at
\* least one was reached by a link.  Outside the console, and between two
\* documents, the page is loaded, as by its address.
HistoryBack ==
    /\ InConsole(path)
    /\ \E p \in Earlier :
         /\ InConsole(p)
         /\ p \in Linked \/ path \in Linked
         /\ Go(p, FALSE)

InShell == ShellNext /\ UNCHANGED pageVars

\* What is done on the page that is mounted.
OnBuyerPage ==
    \/ /\ path = Offer /\ OfferNext
       /\ UNCHANGED <<room, docs>>
    \/ /\ path = Checkout /\ CheckoutNext
       /\ UNCHANGED <<room, docs>>
    \/ /\ path = Room /\ RoomNext
       /\ UNCHANGED <<offer, checkout, docs>>
    \/ /\ path = Docs /\ DocsNext
       /\ UNCHANGED <<offer, checkout, room>>

OnAccountPage ==
    \/ path = Accounts /\ PipelineNext
    \/ path = Account /\ DetailNext

OnInboxPage ==
    \/ path = Inbox /\ InboxNext
    \/ path = Compose /\ ComposeNext

OnDiscoveryPage ==
    \/ path = Sources /\ SourcesNext
    \/ path = Signals /\ SignalsNext

OnOpsPage ==
    \/ path = Changes /\ ChangesNext
    \/ path = Runbooks /\ SelectRunbook
    \/ path = Alerts /\ FilterSeverity
    \/ path = SendBudgets /\ ControlsNext
    \/ path = Suppressions /\ SearchLists

buyerVars == <<offer, checkout, room, docs>>
accountVars == <<pipeline, detail>>
inboxVars == <<inbox, compose>>
discoveryVars == <<sources, signals>>
opsVars == <<changes, runbook, severity, controls, lists>>
wizardVars == <<wizard, entered>>

OnPage ==
    /\ \/ /\ OnBuyerPage
          /\ UNCHANGED <<accountVars, inboxVars, discoveryVars, opsVars, wizardVars>>
       \/ /\ OnAccountPage
          /\ UNCHANGED <<buyerVars, inboxVars, discoveryVars, opsVars, wizardVars>>
       \/ /\ OnInboxPage
          /\ UNCHANGED <<buyerVars, accountVars, discoveryVars, opsVars, wizardVars>>
       \/ /\ OnDiscoveryPage
          /\ UNCHANGED <<buyerVars, accountVars, inboxVars, opsVars, wizardVars>>
       \/ /\ OnOpsPage
          /\ UNCHANGED <<buyerVars, accountVars, inboxVars, discoveryVars, wizardVars>>
       \/ /\ path = Wizard /\ WizardNext
          /\ UNCHANGED <<buyerVars, accountVars, inboxVars, discoveryVars, opsVars>>
    /\ UNCHANGED <<path, shellVars>>

Next ==
    \/ \E p \in Entrances \cup {path} : Load(p)
    \/ Follow
    \/ HistoryBack
    \/ InShell
    \/ OnPage

Spec == Init /\ [][Next]_vars

TypeOK ==
    /\ ShellTypeOK
    /\ OfferTypeOK /\ CheckoutTypeOK /\ RoomTypeOK
    /\ PipelineTypeOK /\ DetailTypeOK
    /\ InboxTypeOK /\ ComposeTypeOK
    /\ DiscoveryTypeOK /\ OpsTypeOK
    /\ WizardTypeOK /\ DocsTypeOK
=============================================================================
