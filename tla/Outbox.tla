------------------------------- MODULE Outbox -------------------------------
(***************************************************************************)
(* The transactional outbox (src/services/outbox.py): publishers insert    *)
(* events inside their business transactions, workers claim batches with   *)
(* SELECT ... FOR UPDATE SKIP LOCKED, run the side effect and report it     *)
(* done or failed.                                                         *)
(*                                                                         *)
(* Every write is a flush inside the caller's transaction: it updates the  *)
(* columns whose attributes have changed, locks the row and shows to       *)
(* others only at the commit.  A worker keeps the claimed events as        *)
(* objects of its session, which a commit does not expire, and reports on  *)
(* those objects: once as its loop should, or again, for complete and fail *)
(* look at no status.                                                      *)
(***************************************************************************)
EXTENDS Integers, FiniteSets

CONSTANTS
    Event,        \* outbox rows, one per idempotency key, numbered by created_at
    Publisher,    \* sessions of business transactions
    Worker,       \* worker sessions polling the outbox
    BatchSize,    \* claim_batch's limit
    MaxAttempts,  \* the column max_attempts
    MaxCrashes,   \* bound: worker deaths in a behaviour
    MaxRepeats,   \* bound: repeated reports in a behaviour
    NoEvent,      \* a publisher with nothing to commit
    Nobody,       \* claimed_by of a row nobody claimed
    NoObject      \* a worker's place for an event it has not loaded

ASSUME OutboxAssumption ==
    /\ Event \subseteq Nat /\ NoEvent \notin Event
    /\ Nobody \notin Worker
    /\ BatchSize \in Nat \ {0}
    /\ MaxAttempts \in Nat \ {0}
    /\ MaxCrashes \in Nat /\ MaxRepeats \in Nat

VARIABLES
    row,        \* row[e]: the committed row of event e
    inserting,  \* inserting[p]: the event p has inserted and not committed
    object,     \* object[w][e]: worker w's loaded copy of e's row, or NoObject
    dirty,      \* dirty[w][e]: the columns w has written and not committed
    crashes,    \* how often a worker has died with work in hand
    again,      \* the events a session has reported on more than once
    repeats     \* how often that happened

vars == <<row, inserting, object, dirty, crashes, again, repeats>>

Status == {"absent", "pending", "claimed", "completed", "dead"}

Row == [status : Status, attempts : Nat, by : Worker \cup {Nobody}]

\* The columns the poller writes; "times" stands for claimed_at, completed_at
\* and last_error, which nothing here reads.
Column == {"status", "attempts", "by", "times"}

\* A loaded object is an event in work or one already reported on.
Object == [status : {"claimed", "pending", "completed", "dead"},
           attempts : Nat, by : Worker \cup {Nobody}]

ASSUME NoObjectAssumption == NoObject \notin Object

TypeOK ==
    /\ row \in [Event -> Row]
    /\ inserting \in [Publisher -> Event \cup {NoEvent}]
    /\ object \in [Worker -> [Event -> Object \cup {NoObject}]]
    /\ dirty \in [Worker -> [Event -> SUBSET Column]]
    /\ crashes \in 0..MaxCrashes
    /\ again \subseteq Event
    /\ repeats \in 0..MaxRepeats

Absent == [status |-> "absent", attempts |-> 0, by |-> Nobody]

\* Mutant of Fresh: a default status nobody polls for.
FreshQueued == [status |-> "queued", attempts |-> 0, by |-> Nobody]

\* The defaults of the columns.
Fresh == [status |-> "pending", attempts |-> 0, by |-> Nobody]

Init ==
    /\ row = [e \in Event |-> Absent]
    /\ inserting = [p \in Publisher |-> NoEvent]
    /\ object = [w \in Worker |-> [e \in Event |-> NoObject]]
    /\ dirty = [w \in Worker |-> [e \in Event |-> {}]]
    /\ crashes = 0
    /\ again = {}
    /\ repeats = 0

-----------------------------------------------------------------------------
(* Publishers.                                                             *)

\* OutboxPublisher.publish: INSERT at the flush.  The unique key makes it
\* wait while another transaction holds the same key; a key that is already
\* committed is an IntegrityError and leaves no trace.
Publish(p, e) ==
    /\ inserting[p] = NoEvent
    /\ row[e].status = "absent"
    /\ \A q \in Publisher : inserting[q] # e
    /\ inserting' = [inserting EXCEPT ![p] = e]
    /\ UNCHANGED <<row, object, dirty, crashes, again, repeats>>

CommitPublish(p) ==
    /\ inserting[p] # NoEvent
    /\ row' = [row EXCEPT ![inserting[p]] = Fresh]
    /\ inserting' = [inserting EXCEPT ![p] = NoEvent]
    /\ UNCHANGED <<object, dirty, crashes, again, repeats>>

\* The business transaction fails or its process dies: the event goes with it.
AbortPublish(p) ==
    /\ inserting[p] # NoEvent
    /\ inserting' = [inserting EXCEPT ![p] = NoEvent]
    /\ UNCHANGED <<row, object, dirty, crashes, again, repeats>>

-----------------------------------------------------------------------------
(* Workers.                                                                *)

Holds(w, e) == object[w][e] # NoObject

InWork(w, e) == Holds(w, e) /\ object[w][e].status = "claimed"

Locked(w, e) == dirty[w][e] # {}

\* Nothing in work and nothing to commit: a worker's loop polls only then.
Resting(w) == \A e \in Event : ~InWork(w, e) /\ ~Locked(w, e)

\* Mutant of Claimable: a plain SELECT, without FOR UPDATE SKIP LOCKED.
ClaimableUnlocked == {e \in Event : row[e].status = "pending"}

\* Mutant of Claimable: every row that is not claimed, settled ones too.
ClaimableNotClaimed ==
    {e \in Event : /\ row[e].status \notin {"absent", "claimed"}
                   /\ \A w \in Worker : ~Locked(w, e)}

\* Rows a poll sees: pending, and not locked by another transaction.
Claimable == {e \in Event : /\ row[e].status = "pending"
                            /\ \A w \in Worker : ~Locked(w, e)}

\* ORDER BY created_at LIMIT n.
Oldest(S, n) == {e \in S : Cardinality({f \in S : f < e}) < n}

\* Mutant of ClaimBatch: a claim does not count as an attempt.
ClaimBatchUncounted(w) ==
    /\ Resting(w)
    /\ Claimable # {}
    /\ LET batch == Oldest(Claimable, BatchSize) IN
         /\ object' = [object EXCEPT ![w] = [e \in Event |->
                IF e \in batch
                  THEN [status |-> "claimed", attempts |-> row[e].attempts,
                        by |-> w]
                  ELSE NoObject]]
         /\ dirty' = [dirty EXCEPT ![w] =
                [e \in Event |-> IF e \in batch THEN Column ELSE {}]]
    /\ UNCHANGED <<row, inserting, crashes, again, repeats>>

\* OutboxPoller.claim_batch: one locking SELECT, then the assignments and
\* the flush; the locks last until the transaction ends.  Each poll has a
\* session of its own: the objects of the batch before are forgotten.
ClaimBatch(w) ==
    /\ Resting(w)
    /\ Claimable # {}
    /\ LET batch == Oldest(Claimable, BatchSize) IN
         /\ object' = [object EXCEPT ![w] = [e \in Event |->
                IF e \in batch
                  THEN [status |-> "claimed", attempts |-> row[e].attempts + 1,
                        by |-> w]
                  ELSE NoObject]]
         /\ dirty' = [dirty EXCEPT ![w] =
                [e \in Event |-> IF e \in batch THEN Column ELSE {}]]
    /\ UNCHANGED <<row, inserting, crashes, again, repeats>>

\* The columns of the UPDATE that takes object o to n.
Changed(o, n) == {"times"} \cup (IF n.status # o.status THEN {"status"} ELSE {})
                           \cup (IF n.by # o.by THEN {"by"} ELSE {})

\* Whether the session reports on e again: history, and a bound.
Counting(w, e) ==
    IF InWork(w, e)
      THEN UNCHANGED <<again, repeats>>
      ELSE /\ repeats < MaxRepeats
           /\ repeats' = repeats + 1
           /\ again' = again \cup {e}

\* A report assigns to the loaded object, whatever its status, and flushes:
\* the UPDATE waits for the row lock of another transaction.
Flush(w, e, n) ==
    /\ Holds(w, e)
    /\ \A v \in Worker \ {w} : ~Locked(v, e)
    /\ Counting(w, e)
    /\ object' = [object EXCEPT ![w][e] = n]
    /\ dirty' = [dirty EXCEPT ![w][e] = @ \cup Changed(object[w][e], n)]
    /\ UNCHANGED <<row, inserting, crashes>>

\* Mutant of Complete: the report is not flushed.
CompleteUnflushed(w, e) ==
    /\ Holds(w, e)
    /\ Counting(w, e)
    /\ object' = [object EXCEPT ![w][e].status = "completed"]
    /\ UNCHANGED <<row, inserting, dirty, crashes>>

\* OutboxPoller.complete
Complete(w, e) == Flush(w, e, [object[w][e] EXCEPT !.status = "completed"])

\* Mutant of Fail: one attempt too many.
FailPastMaximum(w, e) ==
    Flush(w, e, IF object[w][e].attempts > MaxAttempts
                  THEN [object[w][e] EXCEPT !.status = "dead"]
                  ELSE [object[w][e] EXCEPT !.status = "pending", !.by = Nobody])

\* OutboxPoller.fail: give up, or put the event back for another attempt.
Fail(w, e) ==
    Flush(w, e, IF object[w][e].attempts >= MaxAttempts
                  THEN [object[w][e] EXCEPT !.status = "dead"]
                  ELSE [object[w][e] EXCEPT !.status = "pending", !.by = Nobody])

\* The row of e after w's UPDATEs: a column w has not written keeps what
\* others have committed to it.
Updated(w, e) ==
    [status   |-> IF "status" \in dirty[w][e] THEN object[w][e].status
                                              ELSE row[e].status,
     attempts |-> IF "attempts" \in dirty[w][e] THEN object[w][e].attempts
                                                ELSE row[e].attempts,
     by       |-> IF "by" \in dirty[w][e] THEN object[w][e].by ELSE row[e].by]

\* The worker's transaction commits, at any point after a flush.  Its objects
\* stay as they are, those it has reported on too.
Commit(w) ==
    /\ \E e \in Event : Locked(w, e)
    /\ row' = [e \in Event |-> IF Locked(w, e) THEN Updated(w, e) ELSE row[e]]
    /\ dirty' = [dirty EXCEPT ![w] = [e \in Event |-> {}]]
    /\ UNCHANGED <<inserting, object, crashes, again, repeats>>

\* The worker dies with events in hand, before, between or after its commits.
Crash(w) ==
    /\ ~Resting(w)
    /\ crashes < MaxCrashes
    /\ crashes' = crashes + 1
    /\ object' = [object EXCEPT ![w] = [e \in Event |-> NoObject]]
    /\ dirty' = [dirty EXCEPT ![w] = [e \in Event |-> {}]]
    /\ UNCHANGED <<row, inserting, again, repeats>>

Report(w, e) == Complete(w, e) \/ Fail(w, e)

Next ==
    \/ \E p \in Publisher :
          \/ \E e \in Event : Publish(p, e)
          \/ CommitPublish(p)
          \/ AbortPublish(p)
    \/ \E w \in Worker :
          \/ ClaimBatch(w)
          \/ \E e \in Event : Complete(w, e) \/ Fail(w, e)
          \/ Commit(w)
          \/ Crash(w)

Spec == Init /\ [][Next]_vars

\* A worker loop polls for ever, reports each event it claimed one way or
\* the other and commits; no side effect is owed success, and nobody is owed
\* a second report.
FairSpec ==
    /\ Spec
    /\ \A w \in Worker :
         /\ WF_vars(ClaimBatch(w))
         /\ WF_vars(Commit(w))
         /\ \A e \in Event : WF_vars(InWork(w, e) /\ Report(w, e))

-----------------------------------------------------------------------------
\* Every session that reported on e did it once.
ReportedOnce(e) == e \notin again

\* Two workers never have the same event in work: neither the row lock of an
\* open claim nor the status of a committed one leaves a moment in which
\* claim_batch of another worker sees the event.
ExclusiveClaim ==
    \A e \in Event : \A v, w \in Worker :
        InWork(v, e) /\ InWork(w, e) /\ ReportedOnce(e) => v = w

\* An event is attempted at most max_attempts times, and given up only when
\* all its attempts are used, also when workers die between the claim and
\* the report; so long as no session reports on it twice.
AttemptsAccounted ==
    \A e \in Event : ReportedOnce(e) =>
        /\ row[e].attempts <= MaxAttempts
        /\ row[e].status = "dead" => row[e].attempts = MaxAttempts
        /\ row[e].status = "pending" => row[e].attempts < MaxAttempts

\* Only a session that reports on an event again can write to it once it is
\* settled: the first report of a worker, however late and whatever others
\* did in between, revives or overwrites nothing another worker settled.
SettledForGood ==
    [][\A e \in Event :
         row[e].status \in {"completed", "dead"} /\ ReportedOnce(e)
           => row'[e] = row[e]]_vars

\* Claimed rows whose worker neither works on the event nor has a report on
\* it to commit.
Stranded == {e \in Event : /\ row[e].status = "claimed"
                           /\ ~InWork(row[e].by, e) /\ ~Locked(row[e].by, e)}

\* The workers that had claimed them.
LostBy == {row[e].by : e \in Stranded}

\* Only a death strands events, of the worker that died alone and of one batch
\* at most, also when sessions report again on what they have settled.
DeathsStrandOneBatch ==
    /\ Cardinality(Stranded) <= crashes * BatchSize
    /\ Cardinality(LostBy) <= crashes

\* Without deaths every published event is completed or dead in the end,
\* however its attempts go, however the workers share the batches and
\* whatever is reported on again.
EventuallySettled ==
    [](crashes = 0) =>
        \A e \in Event :
            row[e].status = "pending" ~> row[e].status \in {"completed", "dead"}

\* The backlog asks for claims with a lease: an event whose worker died is
\* claimed by another one in the end.
ClaimsExpire ==
    \A e \in Event : row[e].status = "claimed" ~> row[e].status # "claimed"
=============================================================================
