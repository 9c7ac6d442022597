--------------------------- MODULE WorkspacePages ---------------------------
(* The evidence vault of a customer's workspace (app/workspace/docs/page.tsx): *)
(* its filter and its zone for files.  The documents it lists are left out.   *)

VARIABLE docs   \* the state of a mounted WorkspaceDocsPage

Categories == {"All", "Policies", "Audits", "Certificates", "Reports", "Evidence"}

\* over: history, where the files that are dragged are: "away", over the "zone"
\* itself or over a "child" of it.
DocsMounted == [category |-> "All", drag |-> FALSE, over |-> "away"]

FilterCategory == \E c \in Categories : docs' = [docs EXCEPT !.category = c]

\* The browser tells the element the files enter before the one they leave, and
\* both events reach the zone's handlers when they are a child's.
Entered(place) == docs' = [docs EXCEPT !.over = place, !.drag = TRUE]
Left(place) == docs' = [docs EXCEPT !.over = place, !.drag = FALSE]

DragEnter ==
    /\ docs.over = "away"
    /\ \E place \in {"zone", "child"} : Entered(place)

\* From the zone to a child of it or back: dragenter, then dragleave.
DragAcross ==
    /\ docs.over # "away"
    /\ \E place \in {"zone", "child"} \ {docs.over} : Left(place)

\* Out of the zone, or the drag is given up.
DragLeave == docs.over # "away" /\ Left("away")

\* dragover comes again and again while the files are over the zone.
DragOver == docs.over # "away" /\ Entered(docs.over)

\* onDrop, which does nothing with the files.
DropDocs == docs.over # "away" /\ Left("away")

DocsNext ==
    \/ FilterCategory
    \/ DragEnter \/ DragAcross \/ DragLeave \/ DragOver \/ DropDocs

DocsTypeOK ==
    /\ docs.category \in Categories
    /\ docs.drag \in BOOLEAN
    /\ docs.over \in {"away", "zone", "child"}

\* The zone is not left highlighted once nothing is dragged over it, in
\* whatever way and over whichever of its children the files came and went.
HighlightOnlyOverZone == docs.drag => docs.over # "away"
=============================================================================
