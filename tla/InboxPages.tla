----------------------------- MODULE InboxPages -----------------------------
(* The unified inbox with the pane of a thread (app/app/inbox/page.tsx,      *)
(* components/inbox/thread-detail.tsx) and the editor of an email            *)
(* (app/app/inbox/compose/page.tsx).                                         *)
EXTENDS SearchBox, Integers, Sequences, SequencesExt, TLC

CONSTANTS
    ClassFilters,   \* the classification buttons that are used (bound)
    SnoozeOptions,  \* the snooze periods that are used (bound)
    MaxBody         \* the length of an email in pieces of text (bound)

\* The bounds leave room for what the pages are mounted with.
ASSUME InboxAssumption ==
    /\ "All" \in ClassFilters /\ "3d" \in SnoozeOptions
    /\ MaxBody \in Nat /\ MaxBody >= 1

VARIABLES
    inbox,      \* the state of a mounted UnifiedInboxPage and its ThreadDetail
    compose     \* the state of a mounted ComposeEmailPage

\* -------------------------------------------------------------- inbox
ThreadOrder == <<"t1", "t2", "t3", "t4", "t5", "t6", "t7", "t8">>

\* classification and replyClassification, which are the same in every thread
Classification ==
    [t1 |-> "Interested", t2 |-> "Referral", t3 |-> "Meeting Booked",
     t4 |-> "Not Now", t5 |-> "Unsubscribe", t6 |-> "Bounce",
     t7 |-> "No Reply", t8 |-> "Not Now"]

\* Company and preview of the threads.
ThreadIndex ==
    [all |-> ToSet(ThreadOrder),
     with |-> [trust |-> {"t4", "t7"}, security |-> {"t1"}],
     followed |-> [trust |-> {"t7"}, security |-> {}],
     blank |-> ToSet(ThreadOrder)]

\* picked: history, the thread last clicked on, at first the first one.
\* snooze: ThreadDetail is rendered without a key, so that it lives on when the
\* thread in the pane changes.
InboxMounted ==
    [filter |-> "All", q |-> NoQuery, selectedId |-> ThreadOrder[1],
     picked |-> ThreadOrder[1], snooze |-> "3d"]

Listed(t) ==
    /\ inbox.filter \in {"All", Classification[t]}
    /\ t \in FindUnlessBlank(ThreadIndex, inbox.q)

Threads == {t \in ToSet(ThreadOrder) : Listed(t)}

Topmost(S) == ThreadOrder[Min({i \in DOMAIN ThreadOrder : ThreadOrder[i] \in S})]

\* The thread in the pane: the selected one if it is listed, else the first
\* listed, else the first of all.
InPane ==
    IF inbox.selectedId \in Threads THEN inbox.selectedId
    ELSE Topmost(IF Threads # {} THEN Threads ELSE ToSet(ThreadOrder))

\* Mutant of FilterThreads: a filter goes back to the first thread.
ResetOnFilter ==
    /\ \E c \in ClassFilters :
         inbox' = [inbox EXCEPT !.filter = c, !.selectedId = ThreadOrder[1]]
    /\ UNCHANGED compose

FilterThreads ==
    /\ \E c \in ClassFilters : inbox' = [inbox EXCEPT !.filter = c]
    /\ UNCHANGED compose

SearchThreads ==
    /\ \E q \in Query({"trust", "security"}) : inbox' = [inbox EXCEPT !.q = q]
    /\ UNCHANGED compose

SelectThread ==
    /\ \E t \in Threads :
         inbox' = [inbox EXCEPT !.selectedId = t, !.picked = t]
    /\ UNCHANGED compose

SelectSnooze ==
    /\ \E d \in SnoozeOptions : inbox' = [inbox EXCEPT !.snooze = d]
    /\ UNCHANGED compose

InboxNext == FilterThreads \/ SearchThreads \/ SelectThread \/ SelectSnooze

InboxTypeOK ==
    /\ inbox.filter \in ClassFilters
    /\ inbox.q \in Query({"trust", "security"})
    /\ inbox.selectedId \in ToSet(ThreadOrder)
    /\ inbox.snooze \in SnoozeOptions

\* However the list was narrowed and widened since, the pane is back at the
\* thread the operator picked as soon as the list has it again; it never shows
\* a thread the list leaves out while the list has any.
PickIsKept ==
    /\ inbox.picked \in Threads => InPane = inbox.picked
    /\ Threads # {} => InPane \in Threads

\* ------------------------------------------------------------ compose
\* The body is a sequence of pieces of text and merge tags; from, to and
\* subject are inputs of their own that only the preview reads.  start and end
\* are the selection of the textarea; captured is the body insertTag has in its
\* closure, which useCallback renews when the body has changed; frame is where
\* the last callback that waits for the next frame puts the caret.
ComposeMounted ==
    [body |-> <<"text">>, captured |-> <<"text">>, start |-> 1, end |-> 1,
     frame |-> <<>>]

\* setBody, after which the component renders and useCallback([body]) runs.
Rendered(body, caret, frame) ==
    compose' = [body |-> body, captured |-> body, start |-> caret, end |-> caret,
                frame |-> frame]

\* slice(0, n), of which n may be behind the end.
UpTo(text, n) == SubSeq(text, 1, IF n <= Len(text) THEN n ELSE Len(text))

Replaced(text, piece) ==
    UpTo(text, compose.start) \o <<piece>>
        \o SubSeq(text, compose.end + 1, Len(text))

\* The operator moves the caret or selects.
SelectText ==
    /\ \E s \in 0 .. Len(compose.body) : \E e \in s .. Len(compose.body) :
         compose' = [compose EXCEPT !.start = s, !.end = e]
    /\ UNCHANGED inbox

\* Mutant of TypeText: the closure is renewed only when the page is mounted.
TypeUnseen ==
    /\ Len(compose.body) < MaxBody
    /\ compose' = [compose EXCEPT
                     !.body = Replaced(compose.body, "new"),
                     !.start = compose.start + 1, !.end = compose.start + 1]
    /\ UNCHANGED inbox

\* The textarea's onChange; the text the DOM shows is the one that is rendered,
\* so that the caret stays where the browser put it.
TypeText ==
    /\ Len(compose.body) < MaxBody
    /\ Rendered(Replaced(compose.body, "new"), compose.start + 1, compose.frame)
    /\ UNCHANGED inbox

\* insertTag: the selection is the textarea's, the text the closure's.  React
\* renders before the next event and writes a new text into the textarea, which
\* moves the caret to its end; the callback that puts it after the tag waits.
\* bodyRef.current is set whenever a tag's button can be clicked: the two are
\* mounted in one commit.
InsertTag ==
    /\ Len(compose.body) < MaxBody
    /\ LET next == Replaced(compose.captured, "tag")
       IN  Rendered(next, Len(next), <<compose.start + 1>>)
    /\ UNCHANGED inbox

\* The callbacks of a frame run one after the other; a position behind the end
\* of the text is moved to the end.
FrameRuns ==
    /\ compose.frame # <<>>
    /\ LET pos == IF compose.frame[1] <= Len(compose.body)
                    THEN compose.frame[1] ELSE Len(compose.body)
       IN  compose' = [compose EXCEPT !.start = pos, !.end = pos, !.frame = <<>>]
    /\ UNCHANGED inbox

ComposeNext == SelectText \/ TypeText \/ InsertTag \/ FrameRuns

ComposeTypeOK ==
    /\ compose.body \in BoundedSeq({"text", "tag", "new"}, MaxBody)
    /\ compose.start \in 0 .. compose.end
    /\ compose.end <= Len(compose.body)
    /\ compose.frame \in {<<>>} \cup {<<pos>> : pos \in 1 .. MaxBody}

\* A tag replaces what is selected at the click and nothing else, also when the
\* operator types, selects or clicks a second tag before the frame of the first:
\* insertTag's closure has the text by then, and a late callback moves the caret
\* only.
TagsSpareTheText ==
    [][InsertTag =>
        LET n == Len(compose.body) - compose.end
        IN /\ SubSeq(compose'.body, 1, compose.start)
                = SubSeq(compose.body, 1, compose.start)
           /\ SubSeq(compose'.body, Len(compose'.body) - n + 1, Len(compose'.body))
                = SubSeq(compose.body, compose.end + 1, Len(compose.body))]_compose
=============================================================================
