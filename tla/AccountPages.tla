---------------------------- MODULE AccountPages ----------------------------
(* The pipeline list and the page of an account it leads to                  *)
(* (app/app/accounts/page.tsx, app/app/accounts/[accountId]/page.tsx).       *)
EXTENDS SearchBox, Naturals, FiniteSets, Sequences, SequencesExt, TLC

VARIABLES
    pipeline,   \* the state of a mounted AccountPipelinePage
    detail      \* the state of a mounted AccountDetailPage

LOCAL Row(company, state, score, segment) ==
    [company |-> company, state |-> state, icpScore |-> score, segment |-> segment]

\* ---------------------------------------------------------- the list
\* The ids of the accounts; nimbus_security is the code's nimbus-security.
AccountOrder ==
    <<"nimbus_security", "trustlayer", "cybernova", "cloudvault", "datashield",
      "securestack", "shieldforce", "complianceio", "privacyfirst", "govguard">>

MockAccounts ==
    [nimbus_security |-> Row("Nimbus Security", "replied", 94, "Mid-Market"),
     trustlayer      |-> Row("TrustLayer", "paid", 91, "Enterprise"),
     cybernova       |-> Row("CyberNova", "contacted", 88, "Enterprise"),
     cloudvault      |-> Row("CloudVault", "qualified_account", 85, "Mid-Market"),
     datashield      |-> Row("DataShield", "contactable", 82, "SMB"),
     securestack     |-> Row("SecureStack", "paid", 78, "Mid-Market"),
     shieldforce     |-> Row("ShieldForce", "contacted", 72, "SMB"),
     complianceio    |-> Row("ComplianceIO", "qualified_account", 68, "Mid-Market"),
     privacyfirst    |-> Row("PrivacyFirst", "contactable", 61, "SMB"),
     govguard        |-> Row("GovGuard", "paid", 55, "Enterprise")]

StageFilters ==
    {"all", "qualified_account", "contactable", "contacted", "replied", "paid"}
SegmentFilters == {"all", "SMB", "Mid-Market", "Enterprise"}

CompanyIndex ==
    [all |-> DOMAIN MockAccounts,
     with |-> [shield |-> {"datashield", "shieldforce"}],
     followed |-> [shield |-> {}],
     blank |-> {"nimbus_security"}]

PipelineMounted == [search |-> NoQuery, stage |-> "all", segment |-> "all"]

Passes(id) ==
    /\ id \in FindTrimmed(CompanyIndex, pipeline.search)
    /\ pipeline.stage \in {"all", MockAccounts[id].state}
    /\ pipeline.segment \in {"all", MockAccounts[id].segment}

\* The rows that are listed; their order, by descending score, is left out.
PipelineRows == {id \in ToSet(AccountOrder) : Passes(id)}

SearchAccounts ==
    /\ \E q \in Query({"shield"}) : pipeline' = [pipeline EXCEPT !.search = q]
    /\ UNCHANGED detail

FilterStage ==
    /\ \E s \in StageFilters : pipeline' = [pipeline EXCEPT !.stage = s]
    /\ UNCHANGED detail

FilterSegment ==
    /\ \E s \in SegmentFilters : pipeline' = [pipeline EXCEPT !.segment = s]
    /\ UNCHANGED detail

PipelineNext == SearchAccounts \/ FilterStage \/ FilterSegment

\* -------------------------------------------------------- the account
AccountDetail ==
    [nimbus_security |-> Row("Nimbus Security", "replied", 94, "Mid-Market"),
     trustlayer      |-> Row("TrustLayer", "paid", 91, "Enterprise"),
     cybernova       |-> Row("CyberNova", "contacted", 88, "Enterprise"),
     cloudvault      |-> Row("CloudVault", "qualified_account", 85, "Mid-Market"),
     datashield      |-> Row("DataShield", "contactable", 82, "SMB"),
     securestack     |-> Row("SecureStack", "paid", 78, "Mid-Market"),
     shieldforce     |-> Row("ShieldForce", "contacted", 72, "SMB"),
     complianceio    |-> Row("ComplianceIO", "qualified_account", 68, "Mid-Market"),
     privacyfirst    |-> Row("PrivacyFirst", "contactable", 61, "SMB"),
     govguard        |-> Row("GovGuard", "paid", 55, "Enterprise")]

Tabs == {"overview", "signals", "buyers", "contact", "messaging", "fulfillment",
         "audit"}

\* opened: history, the row that was clicked, or nothing when the
\* address was typed.
DetailMounted(id, row) == [id |-> id, tab |-> "overview", opened |-> row]

\* Mutant of AccountFound: the row is looked up by the company's name.
FoundByCompany ==
    detail.id \in {AccountDetail[a].company : a \in DOMAIN AccountDetail}

AccountFound == detail.id \in DOMAIN AccountDetail

\* There are no tabs on the page that says "Account not found".
SelectTab ==
    /\ AccountFound
    /\ \E t \in Tabs : detail' = [detail EXCEPT !.tab = t]
    /\ UNCHANGED pipeline

DetailNext == SelectTab

\* What is below the tabs: the overview's cards or the placeholder of a tab.
Shown ==
    IF ~AccountFound THEN "not found"
    ELSE IF detail.tab = "overview" THEN "account" ELSE "placeholder"

PipelineTypeOK ==
    pipeline \in [search : Query({"shield"}), stage : StageFilters,
                  segment : SegmentFilters]

DetailTypeOK == detail.tab \in Tabs

\* A click on a row of the list opens that account and shows it as the list
\* did, although the two pages keep tables of their own.
OpensAsListed ==
    detail.opened # <<>> =>
        /\ AccountFound
        /\ AccountDetail[detail.id] = MockAccounts[detail.opened[1]]
=============================================================================
