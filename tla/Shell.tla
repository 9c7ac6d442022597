------------------------------- MODULE Shell -------------------------------
(* The operator console around a page: AppLayout with the sidebar and the   *)
(* audit drawer (app/app/layout.tsx, components/shell/).  Its state lives    *)
(* as long as the visitor stays on pages of the console, whatever page.     *)
EXTENDS SiteMap, FiniteSets

CONSTANT Toggled    \* the sections the visitor opens and closes (bound)

ASSUME ToggledAssumption == Toggled \subseteq Section

VARIABLES
    path,       \* the path in the address bar, whose page is mounted
    expanded,   \* the sections whose children are shown (NavItemRow.expanded)
    auditOpen,  \* the audit drawer (AppLayout.auditOpen)
    closed,     \* history: the sections the visitor has closed and not reopened
    strayed     \* history: the sections of the page that the tab's history led
                \* into while they were not shown, until opened or left

shellVars == <<expanded, auditOpen, closed, strayed>>

\* Outside the console there is no sidebar and no drawer.
ActiveAt(p) == IF InConsole(p) THEN Active(p) ELSE {}

\* What useState(isActive) starts with when the console is mounted at a path.
ExpandedAt(p) == ActiveAt(p)

\* The shell when a document is loaded at p.
ShellInit(p) ==
    /\ expanded = ExpandedAt(p)
    /\ auditOpen = FALSE
    /\ closed = {}
    /\ strayed = {}

MountShell(p) ==
    /\ expanded' = ExpandedAt(p)
    /\ auditOpen' = FALSE
    /\ closed' = {}
    /\ strayed' = {}

\* A navigation of the router inside the console, by a link or through the
\* tab's history: the layout stays, so that useState(isActive) is not asked
\* again.
KeepShell(p, linked) ==
    /\ strayed' = IF linked THEN strayed \cap Active(p) ELSE Active(p) \ expanded
    /\ UNCHANGED <<expanded, auditOpen, closed>>

\* The children of the expanded sections.
SidebarLinks == UNION {Children[s] : s \in expanded}

\* Mutant of ToggleSection: one section is shown at a time.
ToggleSectionAlone(s) ==
    /\ InConsole(path)
    /\ s \in Toggled
    /\ IF s \in expanded
         THEN /\ expanded' = {}
              /\ closed' = closed \cup {s}
              /\ UNCHANGED strayed
         ELSE /\ expanded' = {s}
              /\ closed' = closed \ {s}
              /\ strayed' = strayed \ {s}
    /\ UNCHANGED <<path, auditOpen>>

\* The click on a section: setExpanded(!expanded).
ToggleSection(s) ==
    /\ InConsole(path)
    /\ s \in Toggled
    /\ IF s \in expanded
         THEN /\ expanded' = expanded \ {s}
              /\ closed' = closed \cup {s}
              /\ UNCHANGED strayed
         ELSE /\ expanded' = expanded \cup {s}
              /\ closed' = closed \ {s}
              /\ strayed' = strayed \ {s}
    /\ UNCHANGED <<path, auditOpen>>

\* The topbar's button toggles the drawer, the drawer's own button closes it.
\* A closed drawer renders nothing, so that only the topbar's is there then.
ToggleAudit ==
    /\ InConsole(path)
    /\ auditOpen' = ~auditOpen
    /\ UNCHANGED <<path, expanded, closed, strayed>>

CloseAudit ==
    /\ InConsole(path)
    /\ auditOpen
    /\ auditOpen' = FALSE
    /\ UNCHANGED <<path, expanded, closed, strayed>>

ShellNext ==
    \/ \E s \in Toggled : ToggleSection(s)
    \/ ToggleAudit
    \/ CloseAudit

ShellTypeOK ==
    /\ expanded \subseteq Section
    /\ auditOpen \in BOOLEAN
    /\ closed \subseteq Toggled
    /\ strayed \subseteq Section

\* The visitor can see where he is, although NavItemRow asks only once, when it
\* is mounted, whether it is active: the section of his page shows its children
\* unless he closed it himself or the back button led into it.  No link does:
\* those of a page stay in its section, those of the sidebar in a section that
\* is shown.
OnlyHistoryStrays ==
    InConsole(path) => Active(path) \subseteq expanded \cup closed \cup strayed
=============================================================================
