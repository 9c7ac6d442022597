---------------------------- MODULE UploadWidget ----------------------------
(* The upload widget made for the trust room                                 *)
(* (components/trust-room/upload-widget.tsx), which no page mounts yet.  Of  *)
(* a file in its list the status and the progress are kept, which its line   *)
(* and its bar show; its name and the React key, made from the clock at the  *)
(* drop, are left out.                                                       *)
EXTENDS Naturals, Sequences, SequencesExt

CONSTANT MaxQueue   \* files in the widget's list (bound)

VARIABLE upload     \* the state of a mounted UploadWidget

File(status, progress) == [status |-> status, progress |-> progress]

UploadMounted ==
    [dragging |-> FALSE,
     queue |-> <<File("complete", 100), File("uploading", 67), File("waiting", 0)>>]

DragOver == upload' = [upload EXCEPT !.dragging = TRUE]

DragLeave == upload' = [upload EXCEPT !.dragging = FALSE]

\* simulateDrop: a file joins the end of the list.
SimulateDrop(dragging) ==
    /\ Len(upload.queue) < MaxQueue
    /\ upload' = [dragging |-> dragging,
                  queue |-> Append(upload.queue, File("waiting", 0))]

\* A click on the zone, or Enter or Space in it.
ClickZone == SimulateDrop(upload.dragging)

OnDrop == SimulateDrop(FALSE)

\* The files of the list, each that waits changed to another.
Started(queue, other) ==
    [i \in DOMAIN queue |-> IF queue[i].status = "waiting" THEN other ELSE queue[i]]

\* Mutant of HandleUploadAll: the progress is forgotten.
UploadAllAtZero ==
    upload' = [upload EXCEPT !.queue = Started(@, File("uploading", 0))]

HandleUploadAll ==
    upload' = [upload EXCEPT !.queue = Started(@, File("uploading", 12))]

HandleClearCompleted ==
    upload' = [upload EXCEPT !.queue = SelectSeq(@, LAMBDA f : f.status # "complete")]

UploadNext ==
    \/ DragOver \/ DragLeave \/ ClickZone \/ OnDrop
    \/ HandleUploadAll \/ HandleClearCompleted

\* A file's bar begins with the upload and is full when the file is complete.
UploadTypeOK ==
    /\ upload.dragging \in BOOLEAN
    /\ Len(upload.queue) <= MaxQueue
    /\ \A f \in ToSet(upload.queue) :
         \/ f = File("waiting", 0)
         \/ f = File("complete", 100)
         \/ f.status = "uploading" /\ f.progress \in 1 .. 99
=============================================================================
