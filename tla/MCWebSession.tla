---------------------------- MODULE MCWebSession ----------------------------
(* A visitor of every page that has a state.                                 *)
EXTENDS WebSession

MCEntrances ==
    {<<>>, Accounts, SendBudgets, Inbox, Compose, Suppressions, Wizard, Runbooks,
     Offer, Room, Summary, Workspace}
MCEarlier == {Discovery, Account, Compose, Wizard}
MCToggled == {"Inbox"}
MCClassFilters == {"All", "Not Now"}
MCSnoozeOptions == {"1d", "3d"}
=============================================================================
