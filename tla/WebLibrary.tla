----------------------------- MODULE WebLibrary -----------------------------
(* The parts of the web application that no page mounts yet: the hooks for   *)
(* the API with the edit form that saves through them, the table, the upload *)
(* widget and the timeline with its chart.  They share nothing but the form  *)
(* and its mutation, so that one of the four parts is in use at a time.      *)
EXTENDS EditForm, DataTable, UploadWidget, SignalTimeline

VARIABLE part   \* the part in use

tableVars == <<data, table>>
vars == <<part, cacheVars, formVars, tableVars, upload, timelineVars>>

Init ==
    /\ part \in {"form", "table", "upload", "timeline"}
    /\ CacheInit /\ FormInit
    /\ data \in Versions /\ table = TableMounted
    /\ upload = UploadMounted
    /\ TimelineInit

InForm ==
    /\ part = "form" /\ FormNext
    /\ UNCHANGED <<part, tableVars, upload, timelineVars>>

InTable ==
    /\ part = "table" /\ TableNext
    /\ UNCHANGED <<part, cacheVars, formVars, upload, timelineVars>>

InUpload ==
    /\ part = "upload" /\ UploadNext
    /\ UNCHANGED <<part, cacheVars, formVars, tableVars, timelineVars>>

InTimeline ==
    /\ part = "timeline" /\ TimelineNext
    /\ UNCHANGED <<part, cacheVars, formVars, tableVars, upload>>

Next == InForm \/ InTable \/ InUpload \/ InTimeline

\* The server and the network answer in the end, with data or an error, and a
\* browser reports the size of what it is asked to observe.
Fairness ==
    /\ WF_vars(part = "form" /\ ServerReads
                 /\ UNCHANGED <<part, formVars, tableVars, upload, timelineVars>>)
    /\ WF_vars(part = "form" /\ AnswerArrives
                 /\ UNCHANGED <<part, formVars, tableVars, upload, timelineVars>>)
    /\ WF_vars(part = "timeline" /\ ObserverCalls
                 /\ UNCHANGED <<part, cacheVars, formVars, tableVars, upload>>)

Spec == Init /\ [][Next]_vars /\ Fairness

TypeOK == CacheTypeOK /\ FormTypeOK /\ TableTypeOK /\ UploadTypeOK
          /\ TimelineTypeOK
=============================================================================
