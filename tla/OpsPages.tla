------------------------------ MODULE OpsPages ------------------------------
(* Pages the operators watch and steer with: the change log, the runbooks,   *)
(* the safety alerts, the sending budgets and the suppression lists          *)
(* (app/app/ops/changes, ops/runbooks, inbox/alerts, outreach/budgets,       *)
(* settings/suppression).                                                    *)
EXTENDS SearchBox, Integers, FiniteSets, Sequences, SequencesExt, TLC

CONSTANT Limits     \* what is typed into the limiter's inputs (bound)

VARIABLES
    changes,    \* the state of a mounted ChangeLogPage
    runbook,    \* the runbook selected on a mounted RunbooksPage
    severity,   \* the filter of a mounted SafetyAlertsPage
    controls,   \* the state of a mounted OutreachBudgetsPage
    lists       \* the query of a mounted SuppressionListsPage

\* --------------------------------------------------------- change log
LOCAL Entry(id, type, status) == [id |-> id, type |-> type, status |-> status]

Entries ==
    {Entry(1042, "Policy", "deployed"), Entry(1041, "Prompt", "pending"),
     Entry(1040, "Model", "deployed"), Entry(1038, "Config", "deployed"),
     Entry(1037, "Policy", "deployed"), Entry(1035, "Prompt", "rolled-back"),
     Entry(1034, "Model", "rolled-back"), Entry(1032, "Config", "deployed"),
     Entry(1030, "Policy", "deployed"), Entry(1028, "Prompt", "pending")}

ChangeTypes == {"All", "Policy", "Prompt", "Model", "Config"}

\* Ids, descriptions and authors.
ChangeIndex ==
    LET ids == {e.id : e \in Entries}
    IN [all |-> ids,
        with |-> [policy |-> {1042, 1030}, prompt |-> {1041, 1035, 1028}],
        followed |-> [policy |-> {}, prompt |-> {1035}],
        blank |-> ids]

ChangesMounted == [filter |-> "All", q |-> NoQuery]

ChangeRows ==
    {e \in Entries : /\ changes.filter \in {"All", e.type}
                     /\ e.id \in FindUnlessBlank(ChangeIndex, changes.q)}

FilterChanges ==
    /\ \E t \in ChangeTypes : changes' = [changes EXCEPT !.filter = t]
    /\ UNCHANGED <<runbook, severity, controls, lists>>

SearchChanges ==
    /\ \E q \in Query({"policy", "prompt"}) : changes' = [changes EXCEPT !.q = q]
    /\ UNCHANGED <<runbook, severity, controls, lists>>

ChangesNext == FilterChanges \/ SearchChanges

\* ----------------------------------------------------------- runbooks
\* The steps a runbook says it has; the ids are the code's rb-bounce,
\* rb-complaint and so on.
StepCount ==
    [bounce |-> 8, complaint |-> 9, warmup |-> 7, kill |-> 6, pipeline |-> 11,
     drift |-> 8]

RunbookMounted == "bounce"

SelectRunbook ==
    /\ runbook' \in DOMAIN StepCount
    /\ UNCHANGED <<changes, severity, controls, lists>>

\* ------------------------------------------------------------- alerts
LOCAL Alert(level, resolved) == [severity |-> level, resolved |-> resolved]

MockAlerts ==
    <<Alert("Critical", FALSE), Alert("Warning", FALSE), Alert("Info", TRUE),
      Alert("Critical", FALSE), Alert("Warning", FALSE), Alert("Info", TRUE),
      Alert("Warning", TRUE), Alert("Critical", FALSE)>>

SeverityFilters == {"All", "Critical", "Warning", "Info"}

VisibleAlerts == {i \in DOMAIN MockAlerts : severity \in {"All", MockAlerts[i].severity}}

FilterSeverity ==
    /\ severity' \in SeverityFilters
    /\ UNCHANGED <<changes, runbook, controls, lists>>

\* ------------------------------------------------------------ budgets
\* The buttons "Apply limiter" and "Save threshold" do nothing.
ControlsMounted ==
    [tripped |-> FALSE, perMin |-> "45", perHour |-> "1800", bounce |-> "3.5"]

ToggleKillSwitch ==
    /\ controls' = [controls EXCEPT !.tripped = ~@]
    /\ UNCHANGED <<changes, runbook, severity, lists>>

TypeLimit ==
    /\ \E field \in {"perMin", "perHour", "bounce"}, text \in Limits :
         controls' = [controls EXCEPT ![field] = text]
    /\ UNCHANGED <<changes, runbook, severity, lists>>

ControlsNext == ToggleKillSwitch \/ TypeLimit

\* -------------------------------------------------------- suppression
SuppressionLists ==
    [global |-> [count |-> 1284, entries |-> 1 .. 4],
     competitor |-> [count |-> 56, entries |-> 5 .. 7],
     manual |-> [count |-> 312, entries |-> 8 .. 11]]

\* Values, reasons and who added them: "jane" added 8 and 10, "auto-detect" 5 to 7.
EntryIndex ==
    [all |-> 1 .. 11,
     with |-> [jane |-> {8, 10}, auto |-> 5 .. 7, hard |-> {4}],
     followed |-> [jane |-> {}, auto |-> {}, hard |-> {4}],
     blank |-> 1 .. 11]

\* The lists keep their heads and counts, whatever is found in them.
FilteredLists ==
    [id \in DOMAIN SuppressionLists |->
        [SuppressionLists[id] EXCEPT !.entries = @ \cap FindTrimmed(EntryIndex, lists)]]

SearchLists ==
    /\ lists' \in Query({"jane", "auto", "hard"})
    /\ UNCHANGED <<changes, runbook, severity, controls>>

OpsTypeOK ==
    /\ changes \in [filter : ChangeTypes, q : Query({"policy", "prompt"})]
    /\ runbook \in DOMAIN StepCount
    /\ severity \in SeverityFilters
    /\ controls \in [tripped : BOOLEAN, perMin : Limits \cup {"45"},
                     perHour : Limits \cup {"1800"}, bounce : Limits \cup {"3.5"}]
    /\ lists \in Query({"jane", "auto", "hard"})
=============================================================================
