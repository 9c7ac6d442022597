--------------------------- MODULE SignalTimeline ---------------------------
(* The timeline of an account's signals (components/account/                 *)
(* signal-timeline.tsx): a table, and a chart that EChartsWrapper            *)
(* (components/charts/echarts-wrapper.tsx) makes anew for each option it is  *)
(* given.  React commits the page first and runs the wrapper's effect later. *)
EXTENDS Naturals, FiniteSets, Sequences, SequencesExt

CONSTANT Widths     \* the widths the chart's element takes (bound)

VARIABLES
    timeline,   \* mounted, filter, the signals chartOption was made of, and
                \* whether an effect is yet to run
    width,      \* the width of the chart's element
    charts      \* the charts on the element, disposed of ones that are still
                \* observed included

timelineVars == <<timeline, width, charts>>

SignalTypeFilters ==
    {"All", "SOC 2", "Security Hiring", "Trust Center", "ISO 27001"}

SignalEvent(type, daysAgo) == [type |-> type, daysAgo |-> daysAgo]

MockEvents ==
    <<SignalEvent("SOC 2", 28), SignalEvent("Security Hiring", 22),
      SignalEvent("Trust Center", 18), SignalEvent("ISO 27001", 15),
      SignalEvent("SOC 2", 12), SignalEvent("Trust Center", 7),
      SignalEvent("Security Hiring", 3), SignalEvent("SOC 2", 1)>>

\* The signals the table lists; their order, the newest first, is left out.
EventsOf(filter) == {e \in ToSet(MockEvents) : filter \in {"All", e.type}}

\* The chart: a series of points for each type, each about the filtered signals.
Series(filter) ==
    [type \in SignalTypeFilters \ {"All"} |->
        {e \in EventsOf(filter) : e.type = type}]

NoTimeline == [mounted |-> FALSE, filter |-> "All", option |-> "All", due |-> FALSE]

\* echarts.init, setOption and the ResizeObserver.
Chart(option, size) ==
    [option |-> option, size |-> size, live |-> TRUE, observed |-> TRUE]

\* Mutant of Cleanup: the chart is not disposed of.
CleanupUndisposed(chart) == [chart EXCEPT !.observed = FALSE]

\* What the effect returns: disconnect and dispose.
Cleanup(chart) == [chart EXCEPT !.observed = FALSE, !.live = FALSE]

\* Mutant of Afterwards: the observer of a chart is never started.
AfterwardsUnobserved(option) ==
    {c \in {Cleanup(c) : c \in charts} : c.live \/ c.observed}
        \cup {[Chart(option, width) EXCEPT !.observed = FALSE]}

Cleaned == {c \in {Cleanup(c) : c \in charts} : c.live \/ c.observed}

\* The effect for an option: the last one's cleanup comes first.
Afterwards(option) == Cleaned \cup {Chart(option, width)}

MountTimeline ==
    /\ ~timeline.mounted
    /\ timeline' = [NoTimeline EXCEPT !.mounted = TRUE, !.due = TRUE]
    /\ UNCHANGED <<width, charts>>

\* Mutant of SelectType: chartOption's memo depends on now alone.
SelectTypeUnseen ==
    /\ timeline.mounted /\ ~timeline.due
    /\ \E f \in SignalTypeFilters : timeline' = [timeline EXCEPT !.filter = f]
    /\ UNCHANGED <<width, charts>>

\* The click on a type: another filter makes another option, the same one none.
\* React runs an effect that is due before it renders again.
SelectType ==
    /\ timeline.mounted /\ ~timeline.due
    /\ \E f \in SignalTypeFilters :
         timeline' = [timeline EXCEPT !.filter = f, !.option = f,
                                      !.due = f # timeline.filter]
    /\ UNCHANGED <<width, charts>>

RunEffect ==
    /\ timeline.due
    /\ timeline' = [timeline EXCEPT !.due = FALSE]
    /\ charts' = Afterwards(timeline.option)
    /\ UNCHANGED width

UnmountTimeline ==
    /\ timeline.mounted
    /\ timeline' = NoTimeline
    /\ charts' = Cleaned
    /\ UNCHANGED width

\* The window is resized, a sidebar opens.
ResizeElement ==
    /\ width' \in Widths \ {width}
    /\ UNCHANGED <<timeline, charts>>

\* The observer's callback: chart.resize().
ObserverCalls ==
    /\ \E c \in charts : c.observed /\ c.size # width
    /\ charts' = {IF c.observed THEN [c EXCEPT !.size = width] ELSE c : c \in charts}
    /\ UNCHANGED <<timeline, width>>

TimelineInit ==
    timeline = NoTimeline /\ width = (CHOOSE w \in Widths : TRUE) /\ charts = {}

TimelineNext ==
    \/ MountTimeline \/ SelectType \/ RunEffect \/ UnmountTimeline
    \/ ResizeElement \/ ObserverCalls

TimelineTypeOK ==
    /\ timeline \in [mounted : BOOLEAN, filter : SignalTypeFilters,
                     option : SignalTypeFilters, due : BOOLEAN]
    /\ width \in Widths
    /\ \A c \in charts : c.option \in SignalTypeFilters /\ c.size \in Widths

\* However the filter is changed and the page left, there is never a second
\* chart on the element, no observer outlives its chart and nothing of either
\* is left behind.
OneChartAtMost ==
    /\ \A c \in charts : c.live /\ c.observed
    /\ Cardinality(charts) <= IF timeline.mounted THEN 1 ELSE 0

\* As soon as the effect has run, the chart has exactly the signals the table
\* lists.
ChartAsTable ==
    timeline.mounted /\ ~timeline.due =>
        \E c \in charts :
            UNION {Series(c.option)[t] : t \in SignalTypeFilters \ {"All"}}
                = EventsOf(timeline.filter)

\* A chart that does not fit its element is resized, replaced or gone in the
\* end, also if its element changed before the chart was made or while a filter
\* replaced it.
ChartFits ==
    (\E c \in charts : c.size # width) ~> (\A c \in charts : c.size = width)
=============================================================================
