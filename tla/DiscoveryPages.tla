--------------------------- MODULE DiscoveryPages ---------------------------
(* The registry of crawled sources and the explorer of their signals         *)
(* (app/app/discovery/sources/page.tsx, app/app/discovery/signals/page.tsx). *)
EXTENDS SearchBox, Naturals, FiniteSets, TLC

VARIABLES
    sources,    \* the state of a mounted SourceRegistryPage
    signals     \* the state of a mounted SignalExplorerPage

\* ------------------------------------------------------------ sources
LOCAL Source(type, status) == [type |-> type, status |-> status]

MockSources ==
    [s1 |-> Source("job_board", "active"),
     s2 |-> Source("job_board", "active"),
     s3 |-> Source("rss", "active"),
     s4 |-> Source("press", "active"),
     s5 |-> Source("trust_page", "active"),
     s6 |-> Source("job_board", "erroring"),
     s7 |-> Source("job_board", "paused"),
     s8 |-> Source("trust_page", "active")]

TypeFilters ==
    {"all", "job_board", "rss", "trust_page", "company_site", "press"}
StatusFilters == {"all", "active", "paused", "erroring"}

\* No domain has a blank in it, and none is trimmed off the query.
DomainIndex ==
    [all |-> DOMAIN MockSources,
     with |-> [security |-> {"s3", "s4", "s6"}, jobs |-> {"s1", "s2", "s6", "s7"}],
     followed |-> [security |-> {}, jobs |-> {}],
     blank |-> {}]

SourcesMounted == [search |-> NoQuery, type |-> "all", status |-> "all"]

SourceRows ==
    {s \in Including(DomainIndex, sources.search) :
        /\ sources.type \in {"all", MockSources[s].type}
        /\ sources.status \in {"all", MockSources[s].status}}

SearchSources ==
    /\ \E q \in Query({"security", "jobs"}) : sources' = [sources EXCEPT !.search = q]
    /\ UNCHANGED signals

FilterType ==
    /\ \E t \in TypeFilters : sources' = [sources EXCEPT !.type = t]
    /\ UNCHANGED signals

FilterStatus ==
    /\ \E s \in StatusFilters : sources' = [sources EXCEPT !.status = s]
    /\ UNCHANGED signals

SourcesNext == SearchSources \/ FilterType \/ FilterStatus

\* ------------------------------------------------------------ signals
\* The age in quarters of an hour.
LOCAL Signal(type, quarters, negative) ==
    [signalType |-> type, age |-> quarters, negative |-> negative]

MockSignals ==
    <<Signal("soc2", 8, FALSE),
      Signal("security_hiring", 24, FALSE),
      Signal("trust_center", 56, FALSE),
      Signal("iso27001", 104, FALSE),
      Signal("compliance_funding", 288, FALSE),
      Signal("gdpr", 72, TRUE),
      Signal("procurement", 16, FALSE),
      Signal("upmarket", 36, FALSE),
      Signal("security_hiring", 3, FALSE),
      Signal("soc2", 2, FALSE),
      Signal("trust_center", 1152, TRUE),
      Signal("iso27001", 88, FALSE)>>

SignalTypes ==
    {"all", "soc2", "security_hiring", "trust_center", "iso27001",
     "compliance_funding", "gdpr", "procurement", "upmarket"}
Windows == {"all", "24h", "7d", "30d"}

\* Company and source of the signals; FintechOS has no blank in it.
SignalIndex ==
    [all |-> DOMAIN MockSignals,
     with |-> [trust |-> {1, 3, 10, 11}, tech |-> {4, 5, 7, 10}],
     followed |-> [trust |-> {}, tech |-> {7}],
     blank |-> DOMAIN MockSignals \ {4}]

SignalsMounted ==
    [search |-> NoQuery, type |-> "all", freshness |-> "all", negatives |-> FALSE]

PassesFreshness(age, window) ==
    \/ window = "all"
    \/ window = "24h" /\ age < 24 * 4
    \/ window = "7d"  /\ age < 24 * 7 * 4
    \/ window = "30d" /\ age < 24 * 30 * 4

RowsWithin(window) ==
    {i \in Including(SignalIndex, signals.search) :
        /\ signals.type \in {"all", MockSignals[i].signalType}
        /\ PassesFreshness(MockSignals[i].age, window)
        /\ signals.negatives => MockSignals[i].negative}

SignalRows == RowsWithin(signals.freshness)

SearchSignals ==
    /\ \E q \in Query({"trust", "tech"}) : signals' = [signals EXCEPT !.search = q]
    /\ UNCHANGED sources

FilterSignalType ==
    /\ \E t \in SignalTypes : signals' = [signals EXCEPT !.type = t]
    /\ UNCHANGED sources

FilterFreshness ==
    /\ \E w \in Windows : signals' = [signals EXCEPT !.freshness = w]
    /\ UNCHANGED sources

ToggleNegatives ==
    /\ signals' = [signals EXCEPT !.negatives = ~@]
    /\ UNCHANGED sources

SignalsNext ==
    SearchSignals \/ FilterSignalType \/ FilterFreshness \/ ToggleNegatives

DiscoveryTypeOK ==
    /\ sources \in [search : Query({"security", "jobs"}), type : TypeFilters,
                    status : StatusFilters]
    /\ signals \in [search : Query({"trust", "tech"}), type : SignalTypes,
                    freshness : Windows, negatives : BOOLEAN]
=============================================================================
