------------------------------ MODULE SiteMap ------------------------------
(* The pages of the web application, the links between them and the         *)
(* sections of the operator's sidebar: pure data, read from the app         *)
(* directory, config/navigation.ts and the <Link>s of the pages.  A path is *)
(* the sequence of its segments; a segment in brackets is a parameter, whose *)
(* value is left out.                                                        *)
EXTENDS Sequences, SequencesExt, TLC

\* ------------------------------------------------------------- pages
Discovery    == <<"app", "discovery">>
Sources      == <<"app", "discovery", "sources">>
Signals      == <<"app", "discovery", "signals">>
CrawlRun     == <<"app", "discovery", "runs", "[runId]">>
CrawledPage  == <<"app", "discovery", "pages", "[pageId]">>
Accounts     == <<"app", "accounts">>
Account      == <<"app", "accounts", "[accountId]">>
SendBudgets  == <<"app", "outreach", "budgets">>
Inbox        == <<"app", "inbox">>
Alerts       == <<"app", "inbox", "alerts">>
Compose      == <<"app", "inbox", "compose">>
Changes      == <<"app", "ops", "changes">>
Runbooks     == <<"app", "ops", "runbooks">>
Suppressions == <<"app", "settings", "suppression">>
Wizard       == <<"app", "onboarding">>
Offer        == <<"offer", "[offerId]">>
Checkout     == <<"checkout", "[offerId]">>
Room         == <<"r", "[token]">>
Proof        == <<"proof", "[token]">>
Summary      == <<"proof", "[token]", "summary">>
Workspace    == <<"workspace">>
Docs         == <<"workspace", "docs">>
Health       == <<"workspace", "health">>

\* What the "Go to Dashboard" buttons and the terms of an offer point to.
Dashboard    == <<"app">>
Terms        == <<"terms">>

\* ----------------------------------------------------------- sidebar
\* The items of the sidebar with their targets and those of their children.
Section == {"Discovery", "Accounts", "Outreach", "Inbox", "Learning",
            "Analytics", "OpsConsole", "Settings"}

Href ==
    [Discovery |-> Discovery, Accounts |-> Accounts, Outreach |-> SendBudgets,
     Inbox |-> Inbox, Learning |-> <<"app", "learning", "labels">>,
     Analytics |-> <<"app", "analytics", "deliverability">>,
     OpsConsole |-> <<"app", "ops">>,
     Settings |-> <<"app", "settings", "sending-domains">>]

Children ==
    [Discovery |-> {Discovery, Sources, Signals,
                    <<"app", "discovery", "source-health">>,
                    <<"app", "discovery", "budgets">>},
     Accounts |-> {Accounts},
     Outreach |-> {SendBudgets},
     Inbox |-> {Inbox, <<"app", "inbox", "queues">>, Alerts,
                <<"app", "inbox", "engagement">>},
     Learning |-> {<<"app", "learning", p>> : p \in {"labels", "evals", "shadow"}},
     Analytics |-> {<<"app", "analytics", p>> : p \in {"deliverability", "revenue"}},
     OpsConsole |-> {<<"app", "ops">>, Changes, Runbooks},
     Settings |-> {<<"app", "settings", p>> :
                   p \in {"sending-domains", "mailboxes", "compliance",
                          "suppression", "policy-simulator"}}]

\* NavItemRow: the item of the path, of one of its children or of a path
\* below its own.
IsActive(section, path) ==
    \/ path \in Children[section] \cup {Href[section]}
    \/ IsStrictPrefix(Href[section], path)

Active(path) == {s \in Section : IsActive(s, path)}

\* ------------------------------------------------------------- links
\* The pages there are: a directory with a page.tsx.
Page ==
    (UNION {Children[s] : s \in Section})
        \cup {CrawlRun, CrawledPage, Account, Compose, Wizard}
        \cup {Offer, Checkout, Room, <<"r", "[token]", "status">>, Proof,
              Summary, Workspace, Docs, Health}

\* The pages inside app/app/layout.tsx.
InConsole(path) == path \in Page /\ Head(path) = "app"

\* app/page.tsx sends the root to the discovery dashboard.
Landing(path) == IF path = <<>> THEN Discovery ELSE path

\* The links a page shows in itself, whatever its state.
LinksOn(path) ==
    CASE path = Discovery -> {Sources, Signals}
      [] path = Accounts  -> {Account}
      [] path = Offer     -> {Checkout, Terms}
      [] path = Summary   -> {Proof}
      [] path = Workspace -> {Docs, Health}
      [] path = Docs      -> {Workspace, Health}
      [] path = Health    -> {Workspace, Docs}
      [] OTHER            -> {}

\* The pages of the console that a link leads to.
Linked == (UNION {Children[s] : s \in Section}) \cup {Account}
=============================================================================
