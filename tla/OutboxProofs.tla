---------------------------- MODULE OutboxProofs ----------------------------
(***************************************************************************)
(* Proofs about Outbox, for any events, workers, batch size and number of  *)
(* attempts, with any number of worker deaths and of repeated reports.     *)
(***************************************************************************)
EXTENDS Outbox, FiniteSetTheorems, TLAPS

USE DEF Status, Row, Object, Column

(* The inductive invariant says how a worker's objects, its uncommitted    *)
(* columns and the committed rows fit together.  Locks and Objects hold    *)
(* however often events are reported on; HandsMatch of an event every      *)
(* session reports on once.                                                *)

\* A written row is locked by one worker, which has the object.
Locks ==
    /\ \A w \in Worker, e \in Event : Locked(w, e) => Holds(w, e)
    /\ \A v, w \in Worker, e \in Event : Locked(v, e) /\ Locked(w, e) => v = w

\* A worker's claim, its object and the columns it has written.
Objects ==
    \A w \in Worker, e \in Event : Holds(w, e) =>
        /\ row[e].status # "absent"
        /\ InWork(w, e) => object[w][e].by = w
        /\ object[w][e].status = "pending" => object[w][e].by = Nobody
        /\ "by" \in dirty[w][e] => "status" \in dirty[w][e]
        /\ InWork(w, e) /\ Locked(w, e) => {"status", "by"} \subseteq dirty[w][e]
        /\ row[e].status = "claimed" /\ row[e].by = w /\ ~InWork(w, e)
             => "status" \in dirty[w][e]

\* The attempts an object counts, and what they allow it to say.
Counted(o) ==
    /\ o.attempts \in 1..MaxAttempts
    /\ o.status = "dead" => o.attempts = MaxAttempts
    /\ o.status = "pending" => o.attempts < MaxAttempts

\* A row whose claim is not committed is still pending, one attempt short;
\* afterwards it is claimed by the worker, and what the worker then writes is
\* its status and not its attempts.
Matches(w, e) ==
    \/ /\ dirty[w][e] = Column
       /\ row[e].status = "pending"
       /\ object[w][e].attempts = row[e].attempts + 1
    \/ /\ row[e].status = "claimed"
       /\ row[e].by = w
       /\ row[e].attempts = object[w][e].attempts
       /\ "attempts" \notin dirty[w][e]
       /\ Locked(w, e) => "status" \in dirty[w][e]

Active(w, e) == Holds(w, e) /\ (InWork(w, e) \/ Locked(w, e))

HandsMatch ==
    \A w \in Worker, e \in Event : Active(w, e) /\ ReportedOnce(e) =>
        Counted(object[w][e]) /\ Matches(w, e)

\* An event being inserted is not in the table, and is inserted once.
InsertsAreNew ==
    \A p, q \in Publisher : inserting[p] # NoEvent =>
        /\ row[inserting[p]].status = "absent"
        /\ inserting[q] = inserting[p] => q = p

Inv == /\ TypeOK /\ Locks /\ Objects /\ HandsMatch /\ InsertsAreNew
       /\ ExclusiveClaim /\ AttemptsAccounted

-----------------------------------------------------------------------------
(* What each step does to a worker's objects.                              *)

\* A worker's own part of the state.
Untouched(v) == object'[v] = object[v] /\ dirty'[v] = dirty[v]

\* Events in the hands of two workers: at most one of them is active.
LEMMA OneIsActive ==
    ASSUME Inv, NEW v \in Worker, NEW w \in Worker, NEW e \in Event,
           Active(v, e), Active(w, e), ReportedOnce(e)
    PROVE  v = w
<1>1. Matches(v, e) /\ Matches(w, e)
  BY DEF Inv, HandsMatch
<1> QED
  BY <1>1 DEF Matches, Inv, Locks, Locked

LEMMA ReportStep ==
    ASSUME Inv, NEW w \in Worker, NEW e \in Event, Report(w, e)
    PROVE  \E o \in Object :
             /\ object' = [object EXCEPT ![w] = [object[w] EXCEPT ![e] = o]]
             /\ dirty' = [dirty EXCEPT ![w] = [dirty[w] EXCEPT ![e] =
                            dirty[w][e] \cup Changed(object[w][e], o)]]
             /\ UNCHANGED <<row, inserting, crashes>>
             /\ Counting(w, e)
             /\ Holds(w, e) /\ object[w][e] \in Object
             /\ \A v \in Worker \ {w} : ~Locked(v, e)
             /\ o.status # "claimed"
             /\ o.attempts = object[w][e].attempts
             /\ o.status = "pending" => o.by = Nobody
             /\ o.by # object[w][e].by => o.status = "pending"
             /\ Counted(object[w][e]) => Counted(o)
<1>1. Holds(w, e) /\ object[w][e] \in Object
  BY DEF Report, Complete, Fail, Flush, Holds, Inv, TypeOK
<1>2. ASSUME NEW o \in Object, Flush(w, e, o)
      PROVE  /\ object' = [object EXCEPT ![w] = [object[w] EXCEPT ![e] = o]]
             /\ dirty' = [dirty EXCEPT ![w] = [dirty[w] EXCEPT ![e] =
                            dirty[w][e] \cup Changed(object[w][e], o)]]
             /\ UNCHANGED <<row, inserting, crashes>>
             /\ Counting(w, e)
             /\ \A v \in Worker \ {w} : ~Locked(v, e)
  BY <1>2 DEF Flush
<1>3. CASE Complete(w, e)
  <2> DEFINE o == [object[w][e] EXCEPT !.status = "completed"]
  <2>1. /\ o \in Object /\ o.status = "completed"
        /\ o.attempts = object[w][e].attempts /\ o.by = object[w][e].by
        /\ Flush(w, e, o)
    BY <1>1, <1>3 DEF Complete
  <2> HIDE DEF o
  <2>2. Counted(object[w][e]) => Counted(o)
    BY <2>1 DEF Counted
  <2> QED
    BY <1>1, <1>2, <2>1, <2>2
<1>4. CASE Fail(w, e) /\ object[w][e].attempts >= MaxAttempts
  <2> DEFINE o == [object[w][e] EXCEPT !.status = "dead"]
  <2>1. /\ o \in Object /\ o.status = "dead"
        /\ o.attempts = object[w][e].attempts /\ o.by = object[w][e].by
        /\ Flush(w, e, o)
    BY <1>1, <1>4 DEF Fail
  <2> HIDE DEF o
  <2>2. Counted(object[w][e]) => Counted(o)
    BY <1>1, <1>4, <2>1, OutboxAssumption DEF Counted
  <2> QED
    BY <1>1, <1>2, <2>1, <2>2
<1>5. CASE Fail(w, e) /\ ~(object[w][e].attempts >= MaxAttempts)
  <2> DEFINE o == [object[w][e] EXCEPT !.status = "pending", !.by = Nobody]
  <2>a. Flush(w, e, o)
    BY <1>1, <1>5 DEF Fail
  <2>b. o \in Object
    BY <1>1
  <2>c. o.status = "pending"
    BY <1>1
  <2>d. o.by = Nobody
    BY <1>1
  <2>e. o.attempts = object[w][e].attempts
    BY <1>1
  <2>1. /\ o \in Object /\ o.status = "pending" /\ o.by = Nobody
        /\ o.attempts = object[w][e].attempts
        /\ Flush(w, e, o)
    BY <2>a, <2>b, <2>c, <2>d, <2>e
  <2> HIDE DEF o
  <2>2. Counted(object[w][e]) => Counted(o)
    BY <1>1, <1>5, <2>1, OutboxAssumption DEF Counted
  <2> QED
    BY <1>1, <1>2, <2>1, <2>2
<1> QED
  BY <1>3, <1>4, <1>5 DEF Report

LEMMA ClaimStep ==
    ASSUME Inv, NEW w \in Worker, ClaimBatch(w)
    PROVE  \E batch \in SUBSET Event :
             /\ \A e \in batch : /\ row[e].status = "pending"
                                 /\ \A v \in Worker : ~Locked(v, e)
             /\ object' = [object EXCEPT ![w] = [e \in Event |->
                  IF e \in batch
                    THEN [status |-> "claimed", attempts |-> row[e].attempts + 1,
                          by |-> w]
                    ELSE NoObject]]
             /\ dirty' = [dirty EXCEPT ![w] =
                  [e \in Event |-> IF e \in batch THEN Column ELSE {}]]
             /\ UNCHANGED <<row, inserting, crashes, again, repeats>>
<1> DEFINE batch == Oldest(Claimable, BatchSize)
<1>1. batch \in SUBSET Event
  BY DEF Oldest, Claimable
<1>2. \A e \in batch : /\ row[e].status = "pending"
                       /\ \A v \in Worker : ~Locked(v, e)
  BY DEF Oldest, Claimable
<1> QED
  BY <1>1, <1>2 DEF ClaimBatch

-----------------------------------------------------------------------------
LEMMA InvInit == Init => Inv
  BY OutboxAssumption DEF Init, Inv, TypeOK, Absent, Locks, Objects, HandsMatch,
     ExclusiveClaim, AttemptsAccounted, Holds, InWork, Locked, Active, InsertsAreNew

\* A step that leaves the workers, and every row an object stands for, alone.
LEMMA WorkersUntouched ==
    ASSUME Inv, TypeOK', UNCHANGED <<object, dirty, crashes, again, repeats>>,
           \A w \in Worker, e \in Event : Holds(w, e) => row'[e] = row[e]
    PROVE  Locks' /\ Objects' /\ HandsMatch' /\ ExclusiveClaim'
<1>1. \A w \in Worker, e \in Event :
        /\ Holds(w, e)' = Holds(w, e) /\ InWork(w, e)' = InWork(w, e)
        /\ Locked(w, e)' = Locked(w, e) /\ Active(w, e)' = Active(w, e)
  BY DEF Holds, InWork, Locked, Active
<1>2. Locks' /\ ExclusiveClaim'
  BY <1>1 DEF Inv, Locks, ExclusiveClaim, ReportedOnce
<1>3. Objects'
  BY <1>1 DEF Inv, Objects
<1>4. HandsMatch'
  <2> SUFFICES ASSUME NEW w \in Worker, NEW e \in Event,
                      Active(w, e)', ReportedOnce(e)'
               PROVE  Counted(object[w][e])' /\ Matches(w, e)'
    BY DEF HandsMatch
  <2>1. Active(w, e) /\ ReportedOnce(e) /\ row'[e] = row[e]
    BY <1>1 DEF Active, ReportedOnce
  <2>2. Counted(object[w][e]) /\ Matches(w, e)
    BY <2>1 DEF Inv, HandsMatch
  <2> QED
    BY <2>1, <2>2 DEF Counted, Matches, Locked
<1> QED
  BY <1>2, <1>3, <1>4

LEMMA PublishKeepsInv ==
    ASSUME Inv, NEW p \in Publisher,
           \/ \E e \in Event : Publish(p, e)
           \/ CommitPublish(p)
           \/ AbortPublish(p)
    PROVE  Inv'
<1>1. ASSUME NEW e \in Event, Publish(p, e) PROVE Inv'
  <2>1. UNCHANGED <<row, object, dirty, crashes, again, repeats>>
    BY <1>1 DEF Publish
  <2>2. inserting' = [inserting EXCEPT ![p] = e] /\ row[e].status = "absent"
        /\ \A q \in Publisher : inserting[q] # e
    BY <1>1 DEF Publish
  <2>3. TypeOK'
    BY <2>1, <2>2 DEF Inv, TypeOK
  <2>4. InsertsAreNew'
    BY <2>1, <2>2 DEF Inv, TypeOK, InsertsAreNew
  <2>5. Locks' /\ Objects' /\ HandsMatch' /\ ExclusiveClaim'
    BY <2>1, <2>3, WorkersUntouched
  <2> QED
    BY <2>1, <2>3, <2>4, <2>5 DEF Inv, AttemptsAccounted, ReportedOnce
<1>2. CASE AbortPublish(p)
  <2>1. UNCHANGED <<row, object, dirty, crashes, again, repeats>>
    BY <1>2 DEF AbortPublish
  <2>2. inserting' = [inserting EXCEPT ![p] = NoEvent]
    BY <1>2 DEF AbortPublish
  <2>3. TypeOK'
    BY <2>1, <2>2 DEF Inv, TypeOK
  <2>4. InsertsAreNew'
    BY <2>1, <2>2 DEF Inv, TypeOK, InsertsAreNew
  <2>5. Locks' /\ Objects' /\ HandsMatch' /\ ExclusiveClaim'
    BY <2>1, <2>3, WorkersUntouched
  <2> QED
    BY <2>1, <2>3, <2>4, <2>5 DEF Inv, AttemptsAccounted, ReportedOnce
<1>3. CASE CommitPublish(p)
  <2> DEFINE n == inserting[p]
  <2>1. /\ n \in Event /\ row[n].status = "absent"
        /\ row' = [row EXCEPT ![n] = Fresh]
        /\ inserting' = [inserting EXCEPT ![p] = NoEvent]
        /\ UNCHANGED <<object, dirty, crashes, again, repeats>>
    BY <1>3 DEF CommitPublish, Inv, TypeOK, InsertsAreNew
  <2>2. Fresh \in Row /\ Fresh.status = "pending" /\ Fresh.attempts = 0
    BY DEF Fresh
  <2>3. TypeOK'
    BY <2>1, <2>2 DEF Inv, TypeOK
  <2>4. InsertsAreNew'
    BY <2>1 DEF Inv, TypeOK, InsertsAreNew
  <2>5. \A w \in Worker, e \in Event : Holds(w, e) => row'[e] = row[e]
    BY <2>1 DEF Inv, Objects, TypeOK
  <2>6. Locks' /\ Objects' /\ HandsMatch' /\ ExclusiveClaim'
    BY <2>1, <2>3, <2>5, WorkersUntouched
  <2>7. AttemptsAccounted'
    BY <2>1, <2>2, OutboxAssumption DEF Inv, TypeOK, AttemptsAccounted, ReportedOnce
  <2> QED
    BY <2>1, <2>3, <2>4, <2>6, <2>7 DEF Inv
<1> QED
  BY <1>1, <1>2, <1>3

LEMMA ClaimKeepsInv ==
    ASSUME Inv, NEW w \in Worker, ClaimBatch(w) PROVE Inv'
<1>1. PICK batch \in SUBSET Event :
        /\ \A e \in batch : /\ row[e].status = "pending"
                            /\ \A v \in Worker : ~Locked(v, e)
        /\ object' = [object EXCEPT ![w] = [e \in Event |->
             IF e \in batch
               THEN [status |-> "claimed", attempts |-> row[e].attempts + 1, by |-> w]
               ELSE NoObject]]
        /\ dirty' = [dirty EXCEPT ![w] =
             [e \in Event |-> IF e \in batch THEN Column ELSE {}]]
        /\ UNCHANGED <<row, inserting, crashes, again, repeats>>
  BY ClaimStep
<1>2. TypeOK'
  BY <1>1 DEF Inv, TypeOK
<1>3. \A v \in Worker \ {w} : Untouched(v)
  BY <1>1 DEF Inv, TypeOK, Untouched
<1>4. \A v \in Worker \ {w}, e \in Event :
        /\ Holds(v, e)' = Holds(v, e) /\ InWork(v, e)' = InWork(v, e)
        /\ Locked(v, e)' = Locked(v, e) /\ Active(v, e)' = Active(v, e)
        /\ object'[v][e] = object[v][e] /\ dirty'[v][e] = dirty[v][e]
  BY <1>3 DEF Untouched, Holds, InWork, Locked, Active
<1>5. ASSUME NEW e \in batch
      PROVE  /\ object'[w][e].status = "claimed"
             /\ object'[w][e].attempts = row[e].attempts + 1
             /\ object'[w][e].by = w
             /\ object'[w][e] # NoObject
             /\ dirty'[w][e] = Column
             /\ row[e].attempts \in Nat
  <2>1. row[e].attempts \in Nat
    BY DEF Inv, TypeOK
  <2>2. /\ object'[w][e] = [status |-> "claimed", attempts |-> row[e].attempts + 1,
                            by |-> w]
        /\ dirty'[w][e] = Column
    BY <1>1 DEF Inv, TypeOK
  <2>3. object'[w][e] \in Object
    BY <2>1, <2>2
  <2> QED
    BY <2>1, <2>2, <2>3, NoObjectAssumption
<1>6. \A e \in Event \ batch : object'[w][e] = NoObject /\ dirty'[w][e] = {}
  BY <1>1 DEF Inv, TypeOK
<1>7. \A e \in Event :
        /\ e \in batch => Holds(w, e)' /\ InWork(w, e)' /\ Locked(w, e)'
        /\ e \notin batch => ~Holds(w, e)' /\ ~InWork(w, e)' /\ ~Locked(w, e)'
  BY <1>5, <1>6 DEF Holds, InWork, Locked
<1>8. Locks'
  BY <1>1, <1>4, <1>7 DEF Inv, Locks
<1>9. Objects'
  <2>1. ASSUME NEW e \in batch
        PROVE  /\ row'[e].status # "absent"
               /\ object'[w][e].by = w /\ object'[w][e].status = "claimed"
               /\ "status" \in dirty'[w][e] /\ "by" \in dirty'[w][e]
    BY <1>1, <1>5
  <2>2. ASSUME NEW v \in Worker \ {w}, NEW e \in Event, Holds(v, e)'
        PROVE  /\ row'[e].status # "absent"
               /\ InWork(v, e)' => object'[v][e].by = v
               /\ object'[v][e].status = "pending" => object'[v][e].by = Nobody
               /\ "by" \in dirty'[v][e] => "status" \in dirty'[v][e]
               /\ InWork(v, e)' /\ Locked(v, e)'
                    => {"status", "by"} \subseteq dirty'[v][e]
               /\ row'[e].status = "claimed" /\ row'[e].by = v /\ ~InWork(v, e)'
                    => "status" \in dirty'[v][e]
    <3>1. Holds(v, e)
      BY <1>4, <2>2
    <3> QED
      BY <1>1, <1>4, <3>1 DEF Inv, Objects
  <2>3. ASSUME NEW e \in Event, Holds(w, e)'
        PROVE  e \in batch /\ InWork(w, e)'
    BY <1>7, <2>3
  <2>4. ASSUME NEW v \in Worker, NEW e \in Event, Holds(v, e)'
        PROVE  /\ row'[e].status # "absent"
               /\ InWork(v, e)' => object'[v][e].by = v
               /\ object'[v][e].status = "pending" => object'[v][e].by = Nobody
               /\ "by" \in dirty'[v][e] => "status" \in dirty'[v][e]
               /\ InWork(v, e)' /\ Locked(v, e)'
                    => {"status", "by"} \subseteq dirty'[v][e]
               /\ row'[e].status = "claimed" /\ row'[e].by = v /\ ~InWork(v, e)'
                    => "status" \in dirty'[v][e]
    <3>1. CASE v = w
      BY <2>1, <2>3, <2>4, <3>1
    <3>2. CASE v # w
      BY <2>2, <2>4, <3>2
    <3> QED
      BY <3>1, <3>2
  <2> QED
    BY <2>4 DEF Objects
<1>10. \A v \in Worker, e \in batch : Active(v, e) => ~ReportedOnce(e)
  BY <1>1 DEF Inv, HandsMatch, Matches, Locked
<1>11. HandsMatch'
  <2>1. ASSUME NEW v \in Worker \ {w}, NEW e \in Event,
               Active(v, e)', ReportedOnce(e)'
        PROVE  Counted(object[v][e])' /\ Matches(v, e)'
    <3>1. Counted(object[v][e]) /\ Matches(v, e)
      BY <1>1, <1>4, <2>1 DEF Inv, HandsMatch, ReportedOnce
    <3> QED
      BY <1>1, <1>4, <3>1 DEF Counted, Matches, Locked
  <2>2. ASSUME NEW e \in Event, Active(w, e)', ReportedOnce(e)'
        PROVE  Counted(object[w][e])' /\ Matches(w, e)'
    <3>1. e \in batch /\ ReportedOnce(e)
      BY <1>1, <1>7, <2>2 DEF Active, ReportedOnce
    <3>2. row[e].attempts < MaxAttempts
      BY <1>1, <3>1 DEF Inv, AttemptsAccounted
    <3>3. /\ object'[w][e].status = "claimed"
          /\ object'[w][e].attempts = row[e].attempts + 1
      BY <1>5, <3>1
    <3>4. Counted(object[w][e])'
      BY <1>5, <3>1, <3>2, <3>3, OutboxAssumption DEF Counted
    <3>5. Matches(w, e)'
      BY <1>1, <1>5, <3>1, <3>3 DEF Matches
    <3> QED
      BY <3>4, <3>5
  <2> QED
    BY <2>1, <2>2 DEF HandsMatch
<1>12. ExclusiveClaim'
  <2>1. ASSUME NEW e \in Event, NEW u \in Worker, NEW v \in Worker,
               InWork(u, e)', InWork(v, e)', ReportedOnce(e)', u # v
        PROVE  FALSE
    <3>1. ReportedOnce(e)
      BY <1>1, <2>1 DEF ReportedOnce
    <3>2. CASE u # w /\ v # w
      BY <1>4, <2>1, <3>1, <3>2 DEF Inv, ExclusiveClaim
    <3>3. CASE u = w
      BY <1>4, <1>7, <1>10, <2>1, <3>1, <3>3 DEF InWork, Active
    <3>4. CASE v = w
      BY <1>4, <1>7, <1>10, <2>1, <3>1, <3>4 DEF InWork, Active
    <3> QED
      BY <3>2, <3>3, <3>4
  <2> QED
    BY <2>1 DEF ExclusiveClaim
<1> QED
  BY <1>1, <1>2, <1>8, <1>9, <1>11, <1>12
     DEF Inv, InsertsAreNew, AttemptsAccounted, ReportedOnce

LEMMA ReportKeepsInv ==
    ASSUME Inv, NEW w \in Worker, NEW e \in Event, Report(w, e) PROVE Inv'
<1>1. PICK o \in Object :
        /\ object' = [object EXCEPT ![w] = [object[w] EXCEPT ![e] = o]]
        /\ dirty' = [dirty EXCEPT ![w] = [dirty[w] EXCEPT ![e] =
                       dirty[w][e] \cup Changed(object[w][e], o)]]
        /\ UNCHANGED <<row, inserting, crashes>>
        /\ Counting(w, e)
        /\ Holds(w, e) /\ object[w][e] \in Object
        /\ \A v \in Worker \ {w} : ~Locked(v, e)
        /\ o.status # "claimed"
        /\ o.attempts = object[w][e].attempts
        /\ o.status = "pending" => o.by = Nobody
        /\ o.by # object[w][e].by => o.status = "pending"
        /\ Counted(object[w][e]) => Counted(o)
  BY ReportStep
<1> DEFINE C == Changed(object[w][e], o)
<1>2. /\ C \subseteq {"status", "by", "times"} /\ "times" \in C
      /\ o.status # object[w][e].status => "status" \in C
      /\ "by" \in C => o.by # object[w][e].by
  BY DEF Changed
<1> HIDE DEF C
<1>3. /\ again \subseteq again' /\ again' \subseteq again \cup {e}
      /\ e \notin again' => InWork(w, e)
      /\ again' \subseteq Event /\ repeats' \in 0..MaxRepeats
  <2>1. again \subseteq Event /\ repeats \in 0..MaxRepeats
    BY DEF Inv, TypeOK
  <2>2. CASE InWork(w, e)
    BY <1>1, <2>1, <2>2 DEF Counting
  <2>3. CASE ~InWork(w, e)
    <3>1. /\ repeats < MaxRepeats /\ repeats' = repeats + 1
          /\ again' = again \cup {e}
      BY <1>1, <2>3 DEF Counting
    <3> QED
      BY <2>1, <3>1, OutboxAssumption
  <2> QED
    BY <2>2, <2>3
<1>4. object'[w][e] = o /\ dirty'[w][e] = dirty[w][e] \cup C
  BY <1>1 DEF Inv, TypeOK, C
<1>5. \A v \in Worker, f \in Event : v # w \/ f # e =>
        /\ object'[v][f] = object[v][f]
        /\ dirty'[v][f] = dirty[v][f]
  BY <1>1 DEF Inv, TypeOK
<1>6. TypeOK'
  <2>0. dirty[w][e] \in SUBSET Column
    BY DEF Inv, TypeOK
  <2>1. dirty[w][e] \cup C \subseteq Column
    BY <1>2, <2>0
  <2>2. /\ object' \in [Worker -> [Event -> Object \cup {NoObject}]]
        /\ row' \in [Event -> Row]
        /\ inserting' \in [Publisher -> Event \cup {NoEvent}]
        /\ crashes' \in 0..MaxCrashes
    BY <1>1 DEF Inv, TypeOK
  <2>3. dirty' \in [Worker -> [Event -> SUBSET Column]]
    BY <1>1, <2>1 DEF Inv, TypeOK, C
  <2> QED
    BY <1>3, <2>2, <2>3 DEF TypeOK
<1>7. \A v \in Worker, f \in Event : v # w \/ f # e =>
        /\ Holds(v, f)' = Holds(v, f) /\ InWork(v, f)' = InWork(v, f)
        /\ Locked(v, f)' = Locked(v, f) /\ Active(v, f)' = Active(v, f)
  BY <1>5 DEF Holds, InWork, Locked, Active
<1>8. /\ Holds(w, e)' /\ ~InWork(w, e)' /\ Locked(w, e)'
      /\ object[w][e].status = "claimed" <=> InWork(w, e)
  BY <1>1, <1>2, <1>4, NoObjectAssumption DEF Holds, InWork, Locked
<1>9. Locks'
  <2>1. \A v \in Worker, f \in Event : Locked(v, f)' => Holds(v, f)'
    BY <1>7, <1>8 DEF Inv, Locks
  <2>2. ASSUME NEW u \in Worker, NEW v \in Worker, NEW f \in Event,
               Locked(u, f)', Locked(v, f)'
        PROVE  u = v
    <3>1. CASE f # e
      BY <1>7, <2>2, <3>1 DEF Inv, Locks
    <3>2. CASE f = e
      BY <1>1, <1>7, <2>2, <3>2
    <3> QED
      BY <3>1, <3>2
  <2> QED
    BY <2>1, <2>2 DEF Locks
<1>10. Objects'
  <2>1. ASSUME NEW v \in Worker, NEW f \in Event, v # w \/ f # e, Holds(v, f)'
        PROVE  /\ row'[f].status # "absent"
               /\ InWork(v, f)' => object'[v][f].by = v
               /\ object'[v][f].status = "pending" => object'[v][f].by = Nobody
               /\ "by" \in dirty'[v][f] => "status" \in dirty'[v][f]
               /\ InWork(v, f)' /\ Locked(v, f)'
                    => {"status", "by"} \subseteq dirty'[v][f]
               /\ row'[f].status = "claimed" /\ row'[f].by = v /\ ~InWork(v, f)'
                    => "status" \in dirty'[v][f]
    <3>1. Holds(v, f)
      BY <1>7, <2>1
    <3> QED
      BY <1>1, <1>5, <1>7, <2>1, <3>1 DEF Inv, Objects
  <2>2. /\ row[e].status # "absent"
        /\ object[w][e].status = "pending" => object[w][e].by = Nobody
        /\ "by" \in dirty[w][e] => "status" \in dirty[w][e]
        /\ row[e].status = "claimed" /\ row[e].by = w /\ ~InWork(w, e)
             => "status" \in dirty[w][e]
    BY <1>1 DEF Inv, Objects
  <2>3. "by" \in C => "status" \in C
    BY <1>1, <1>2, <2>2
  <2>4. InWork(w, e) => "status" \in C
    BY <1>1, <1>2, <1>8
  <2>5. /\ row'[e].status # "absent"
        /\ object'[w][e].status = "pending" => object'[w][e].by = Nobody
        /\ "by" \in dirty'[w][e] => "status" \in dirty'[w][e]
        /\ row'[e].status = "claimed" /\ row'[e].by = w
             => "status" \in dirty'[w][e]
    BY <1>1, <1>4, <2>2, <2>3, <2>4
  <2>6. ASSUME NEW v \in Worker, NEW f \in Event, Holds(v, f)'
        PROVE  /\ row'[f].status # "absent"
               /\ InWork(v, f)' => object'[v][f].by = v
               /\ object'[v][f].status = "pending" => object'[v][f].by = Nobody
               /\ "by" \in dirty'[v][f] => "status" \in dirty'[v][f]
               /\ InWork(v, f)' /\ Locked(v, f)'
                    => {"status", "by"} \subseteq dirty'[v][f]
               /\ row'[f].status = "claimed" /\ row'[f].by = v /\ ~InWork(v, f)'
                    => "status" \in dirty'[v][f]
    <3>1. CASE v = w /\ f = e
      BY <1>8, <2>5, <3>1
    <3>2. CASE v # w \/ f # e
      BY <2>1, <2>6, <3>2
    <3> QED
      BY <3>1, <3>2
  <2> QED
    BY <2>6 DEF Objects
<1>11. HandsMatch'
  <2>1. ASSUME NEW v \in Worker, NEW f \in Event, v # w \/ f # e,
               Active(v, f)', ReportedOnce(f)'
        PROVE  Counted(object[v][f])' /\ Matches(v, f)'
    <3>1. Counted(object[v][f]) /\ Matches(v, f)
      BY <1>3, <1>7, <2>1 DEF Inv, HandsMatch, ReportedOnce
    <3> QED
      BY <1>1, <1>5, <2>1, <3>1 DEF Counted, Matches, Locked
  <2>2. ASSUME ReportedOnce(e)'
        PROVE  Counted(object[w][e])' /\ Matches(w, e)'
    <3>1. InWork(w, e) /\ ReportedOnce(e) /\ Active(w, e)
      BY <1>3, <2>2 DEF ReportedOnce, Active, InWork
    <3>2. Counted(object[w][e]) /\ Matches(w, e)
      BY <3>1 DEF Inv, HandsMatch
    <3>3. "status" \in C /\ dirty[w][e] \subseteq Column
      BY <1>1, <1>2, <1>8, <3>1 DEF Inv, TypeOK
    <3>4. Matches(w, e)'
      <4>1. CASE /\ dirty[w][e] = Column
                 /\ row[e].status = "pending"
                 /\ object[w][e].attempts = row[e].attempts + 1
        <5>1. dirty'[w][e] = Column
          BY <1>2, <1>4, <4>1
        <5> QED
          BY <1>1, <1>4, <4>1, <5>1 DEF Matches
      <4>2. CASE /\ row[e].status = "claimed"
                 /\ row[e].by = w
                 /\ row[e].attempts = object[w][e].attempts
                 /\ "attempts" \notin dirty[w][e]
        <5>1. "attempts" \notin dirty'[w][e] /\ "status" \in dirty'[w][e]
          BY <1>2, <1>4, <3>3, <4>2
        <5> QED
          BY <1>1, <1>4, <4>2, <5>1 DEF Matches
      <4> QED
        BY <3>2, <4>1, <4>2 DEF Matches
    <3>5. Counted(object[w][e])'
      BY <1>1, <1>4, <3>2 DEF Counted
    <3> QED
      BY <3>4, <3>5
  <2> QED
    BY <2>1, <2>2 DEF HandsMatch
<1>12. ExclusiveClaim'
  BY <1>3, <1>7, <1>8 DEF Inv, ExclusiveClaim, ReportedOnce
<1> QED
  BY <1>1, <1>3, <1>6, <1>9, <1>10, <1>11, <1>12
     DEF Inv, InsertsAreNew, AttemptsAccounted, ReportedOnce

LEMMA CommitKeepsInv ==
    ASSUME Inv, NEW w \in Worker, Commit(w) PROVE Inv'
<1>1. /\ row' = [e \in Event |-> IF Locked(w, e) THEN Updated(w, e) ELSE row[e]]
      /\ dirty' = [dirty EXCEPT ![w] = [e \in Event |-> {}]]
      /\ UNCHANGED <<inserting, object, crashes, again, repeats>>
  BY DEF Commit
<1>2. ASSUME NEW e \in Event, Locked(w, e)
      PROVE  /\ Holds(w, e) /\ object[w][e] \in Object
             /\ row'[e].status = IF "status" \in dirty[w][e]
                                   THEN object[w][e].status ELSE row[e].status
             /\ row'[e].attempts = IF "attempts" \in dirty[w][e]
                                     THEN object[w][e].attempts ELSE row[e].attempts
             /\ row'[e].by = IF "by" \in dirty[w][e]
                               THEN object[w][e].by ELSE row[e].by
             /\ row'[e] \in Row
  <2>1. Holds(w, e) /\ object[w][e] \in Object /\ row[e] \in Row
    BY <1>2 DEF Inv, TypeOK, Locks, Holds
  <2>2. row'[e] = Updated(w, e)
    BY <1>1, <1>2
  <2> QED
    BY <2>1, <2>2 DEF Updated
<1>3. \A e \in Event : ~Locked(w, e) => row'[e] = row[e]
  BY <1>1
<1>4. TypeOK'
  <2>1. \A e \in Event : row'[e] \in Row
    BY <1>2, <1>3 DEF Inv, TypeOK
  <2>2. row' \in [Event -> Row]
    BY <1>1, <2>1
  <2>3. dirty' \in [Worker -> [Event -> SUBSET Column]]
    BY <1>1 DEF Inv, TypeOK
  <2> QED
    BY <1>1, <2>2, <2>3 DEF Inv, TypeOK
<1>5. \A v \in Worker, e \in Event :
        /\ Holds(v, e)' = Holds(v, e) /\ InWork(v, e)' = InWork(v, e)
        /\ v # w => dirty'[v][e] = dirty[v][e]
        /\ dirty'[w][e] = {}
  BY <1>1 DEF Inv, TypeOK, Holds, InWork
<1>6. \A v \in Worker, e \in Event :
        /\ Locked(v, e)' => v # w /\ Locked(v, e)
        /\ Active(v, e)' => Active(v, e)
        /\ Active(w, e)' => InWork(w, e)
        /\ v # w => Locked(v, e)' = Locked(v, e)
  BY <1>5 DEF Locked, Active
<1>7. Locks' /\ ExclusiveClaim'
  BY <1>1, <1>5, <1>6 DEF Inv, Locks, ExclusiveClaim, ReportedOnce
<1>8. ASSUME NEW e \in Event, NEW u \in Worker, Holds(u, e),
             row'[e].status = "claimed", row'[e].by = u, ~InWork(u, e)
      PROVE  u # w /\ "status" \in dirty[u][e]
  <2>1. CASE ~Locked(w, e)
    <3>1. "status" \in dirty[u][e]
      BY <1>3, <1>8, <2>1 DEF Inv, Objects
    <3> QED
      BY <2>1, <3>1 DEF Locked
  <2>2. CASE Locked(w, e) /\ "status" \in dirty[w][e]
    <3>1. object[w][e].status = "claimed" /\ Holds(w, e)
      BY <1>2, <1>8, <2>2
    <3>2. InWork(w, e) /\ "by" \in dirty[w][e] /\ object[w][e].by = w
      BY <2>2, <3>1 DEF Inv, Objects, InWork
    <3> QED
      BY <1>2, <1>8, <2>2, <3>2
  <2>3. CASE Locked(w, e) /\ "status" \notin dirty[w][e]
    <3>1. Holds(w, e) /\ "by" \notin dirty[w][e]
      BY <1>2, <2>3 DEF Inv, Objects
    <3>2. row[e].status = "claimed" /\ row[e].by = u
      BY <1>2, <1>8, <2>3, <3>1
    <3>3. "status" \in dirty[u][e]
      BY <1>8, <3>2 DEF Inv, Objects
    <3> QED
      BY <2>3, <3>3
  <2> QED
    BY <2>1, <2>2, <2>3
<1>9. \A e \in Event : row[e].status # "absent" => row'[e].status # "absent"
  <2> SUFFICES ASSUME NEW e \in Event, row[e].status # "absent"
               PROVE  row'[e].status # "absent"
    OBVIOUS
  <2>1. CASE Locked(w, e)
    BY <1>2, <2>1
  <2>2. CASE ~Locked(w, e)
    BY <1>3, <2>2
  <2> QED
    BY <2>1, <2>2
<1>10. Objects'
  <2>1. ASSUME NEW v \in Worker, NEW e \in Event, Holds(v, e)'
        PROVE  /\ row'[e].status # "absent"
               /\ InWork(v, e)' => object'[v][e].by = v
               /\ object'[v][e].status = "pending" => object'[v][e].by = Nobody
               /\ "by" \in dirty'[v][e] => "status" \in dirty'[v][e]
               /\ InWork(v, e)' /\ Locked(v, e)'
                    => {"status", "by"} \subseteq dirty'[v][e]
               /\ row'[e].status = "claimed" /\ row'[e].by = v /\ ~InWork(v, e)'
                    => "status" \in dirty'[v][e]
    <3>1. Holds(v, e) /\ InWork(v, e)' = InWork(v, e)
      BY <1>5, <2>1
    <3>2. row'[e].status = "claimed" /\ row'[e].by = v /\ ~InWork(v, e)'
            => "status" \in dirty'[v][e]
      BY <1>5, <1>8, <3>1
    <3>3. "by" \in dirty'[v][e] => "status" \in dirty'[v][e]
      BY <1>5, <3>1 DEF Inv, Objects
    <3>4. InWork(v, e)' /\ Locked(v, e)' => {"status", "by"} \subseteq dirty'[v][e]
      BY <1>5, <1>6, <3>1 DEF Inv, Objects
    <3>5. /\ row'[e].status # "absent"
          /\ InWork(v, e) => object[v][e].by = v
          /\ object[v][e].status = "pending" => object[v][e].by = Nobody
      BY <1>9, <3>1 DEF Inv, Objects
    <3> QED
      BY <1>1, <3>1, <3>2, <3>3, <3>4, <3>5
  <2> QED
    BY <2>1 DEF Objects
<1>11. ASSUME NEW e \in Event, Locked(w, e), ReportedOnce(e)
       PROVE  /\ Counted(object[w][e])
              /\ row[e].status \in {"pending", "claimed"}
              /\ row'[e].status = object[w][e].status
              /\ row'[e].attempts = object[w][e].attempts
              /\ InWork(w, e) => row'[e].by = w
  <2>1. Holds(w, e) /\ Counted(object[w][e]) /\ Matches(w, e)
    BY <1>2, <1>11 DEF Inv, HandsMatch, Active
  <2>2. InWork(w, e) => object[w][e].by = w /\ "by" \in dirty[w][e]
    BY <1>11, <2>1 DEF Inv, Objects
  <2> QED
    BY <1>2, <1>11, <2>1, <2>2 DEF Matches
<1>12. HandsMatch'
  <2>1. ASSUME NEW v \in Worker, NEW e \in Event, v # w,
               Active(v, e)', ReportedOnce(e)'
        PROVE  Counted(object[v][e])' /\ Matches(v, e)'
    <3>1. Active(v, e) /\ ReportedOnce(e)
      BY <1>1, <1>6, <2>1 DEF ReportedOnce
    <3>2. ~Locked(w, e)
      BY <1>2, <2>1, <3>1, OneIsActive DEF Active
    <3>3. Counted(object[v][e]) /\ Matches(v, e)
      BY <3>1 DEF Inv, HandsMatch
    <3> QED
      BY <1>1, <1>3, <1>5, <1>6, <2>1, <3>2, <3>3 DEF Counted, Matches, Locked
  <2>2. ASSUME NEW e \in Event, Active(w, e)', ReportedOnce(e)'
        PROVE  Counted(object[w][e])' /\ Matches(w, e)'
    <3>1. InWork(w, e) /\ Active(w, e) /\ ReportedOnce(e)
      BY <1>1, <1>6, <2>2 DEF ReportedOnce
    <3>2. object[w][e].status = "claimed"
      BY <3>1 DEF InWork
    <3>3. Counted(object[w][e]) /\ Matches(w, e)
      BY <3>1 DEF Inv, HandsMatch
    <3>4. /\ row'[e].status = "claimed" /\ row'[e].by = w
          /\ row'[e].attempts = object[w][e].attempts
      <4>1. CASE Locked(w, e)
        BY <1>11, <3>1, <3>2, <4>1
      <4>2. CASE ~Locked(w, e)
        BY <1>3, <3>3, <4>2 DEF Matches, Locked
      <4> QED
        BY <4>1, <4>2
    <3>5. Matches(w, e)'
      BY <1>1, <1>5, <3>4 DEF Matches, Locked
    <3> QED
      BY <1>1, <3>3, <3>5 DEF Counted
  <2> QED
    BY <2>1, <2>2 DEF HandsMatch
<1>13. AttemptsAccounted'
  <2>1. ASSUME NEW e \in Event, ReportedOnce(e)'
        PROVE  /\ row'[e].attempts <= MaxAttempts
               /\ row'[e].status = "dead" => row'[e].attempts = MaxAttempts
               /\ row'[e].status = "pending" => row'[e].attempts < MaxAttempts
    <3>1. ReportedOnce(e)
      BY <1>1, <2>1 DEF ReportedOnce
    <3>2. CASE Locked(w, e)
      BY <1>11, <3>1, <3>2, OutboxAssumption DEF Counted
    <3>3. CASE ~Locked(w, e)
      BY <1>3, <3>1, <3>3 DEF Inv, AttemptsAccounted
    <3> QED
      BY <3>2, <3>3
  <2> QED
    BY <2>1 DEF AttemptsAccounted
<1>14. InsertsAreNew'
  <2>1. \A e \in Event : row[e].status = "absent" => ~Locked(w, e)
    BY <1>2 DEF Inv, Objects
  <2> QED
    BY <1>1, <1>3, <2>1 DEF Inv, TypeOK, InsertsAreNew
<1> QED
  BY <1>4, <1>7, <1>10, <1>12, <1>13, <1>14 DEF Inv

LEMMA CrashKeepsInv ==
    ASSUME Inv, NEW w \in Worker, Crash(w) PROVE Inv'
<1>1. /\ object' = [object EXCEPT ![w] = [e \in Event |-> NoObject]]
      /\ dirty' = [dirty EXCEPT ![w] = [e \in Event |-> {}]]
      /\ crashes' = crashes + 1 /\ crashes < MaxCrashes
      /\ UNCHANGED <<row, inserting, again, repeats>>
  BY DEF Crash
<1>2. TypeOK'
  BY <1>1, OutboxAssumption DEF Inv, TypeOK
<1>3. \A e \in Event : object'[w][e] = NoObject /\ dirty'[w][e] = {}
  BY <1>1 DEF Inv, TypeOK
<1>4. \A v \in Worker \ {w} : Untouched(v)
  BY <1>1 DEF Inv, TypeOK, Untouched
<1>5. \A v \in Worker, e \in Event :
        Holds(v, e)' \/ InWork(v, e)' \/ Locked(v, e)' \/ Active(v, e)' => v # w
  BY <1>3 DEF Holds, InWork, Locked, Active
<1>6. \A v \in Worker \ {w}, e \in Event :
        /\ Holds(v, e)' = Holds(v, e) /\ InWork(v, e)' = InWork(v, e)
        /\ Locked(v, e)' = Locked(v, e) /\ Active(v, e)' = Active(v, e)
        /\ object'[v][e] = object[v][e] /\ dirty'[v][e] = dirty[v][e]
  BY <1>4 DEF Untouched, Holds, InWork, Locked, Active
<1>7. Locks' /\ ExclusiveClaim'
  BY <1>1, <1>5, <1>6 DEF Inv, Locks, ExclusiveClaim, ReportedOnce
<1>8. Objects'
  BY <1>1, <1>5, <1>6 DEF Inv, Objects
<1>9. HandsMatch'
  BY <1>1, <1>5, <1>6 DEF Inv, HandsMatch, Counted, Matches, Locked, ReportedOnce
<1> QED
  BY <1>1, <1>2, <1>7, <1>8, <1>9 DEF Inv, InsertsAreNew, AttemptsAccounted, ReportedOnce

LEMMA InvInductive == Inv /\ [Next]_vars => Inv'
<1> SUFFICES ASSUME Inv, [Next]_vars PROVE Inv'
  OBVIOUS
<1>1. CASE UNCHANGED vars
  <2>1. /\ UNCHANGED <<object, dirty, crashes, again, repeats>>
        /\ UNCHANGED <<row, inserting>>
    BY <1>1 DEF vars
  <2>2. TypeOK'
    BY <2>1 DEF Inv, TypeOK
  <2>3. Locks' /\ Objects' /\ HandsMatch' /\ ExclusiveClaim'
    BY <2>1, <2>2, WorkersUntouched
  <2> QED
    BY <2>1, <2>2, <2>3 DEF Inv, InsertsAreNew, AttemptsAccounted, ReportedOnce
<1>2. CASE Next
  <2>1. CASE \E p \in Publisher : \/ \E e \in Event : Publish(p, e)
                                  \/ CommitPublish(p)
                                  \/ AbortPublish(p)
    BY <2>1, PublishKeepsInv
  <2>2. CASE \E w \in Worker : \/ ClaimBatch(w)
                               \/ \E e \in Event : Report(w, e)
                               \/ Commit(w)
                               \/ Crash(w)
    BY <2>2, ClaimKeepsInv, ReportKeepsInv, CommitKeepsInv, CrashKeepsInv
  <2> QED
    BY <1>2, <2>1, <2>2 DEF Next, Report
<1> QED
  BY <1>1, <1>2

LEMMA InvAlways == Spec => []Inv
  BY InvInit, InvInductive, PTL DEF Spec

-----------------------------------------------------------------------------
\* The variables keep their types, however often events are reported on.
THEOREM TypeCorrect == Spec => []TypeOK
<1>1. Inv => TypeOK
  BY DEF Inv
<1> QED
  BY <1>1, InvAlways, PTL

\* No event that every session reports on once is in the work of two
\* workers, for any number of workers.
THEOREM ClaimsAreExclusive == Spec => []ExclusiveClaim
<1>1. Inv => ExclusiveClaim
  BY DEF Inv
<1> QED
  BY <1>1, InvAlways, PTL

\* Attempts never exceed max_attempts, and only an event that has used them
\* all is dead, so long as no session reports on it again.
THEOREM AttemptsAreAccounted == Spec => []AttemptsAccounted
<1>1. Inv => AttemptsAccounted
  BY DEF Inv
<1> QED
  BY <1>1, InvAlways, PTL

\* A completed or dead event is written again only by a session that has
\* reported on it before: no worker's first report reaches an event that
\* another worker settled.
THEOREM SettledIsForGood == Spec => SettledForGood
<1>1. ASSUME Inv, [Next]_vars, NEW e \in Event,
             row[e].status \in {"completed", "dead"}, ReportedOnce(e)
      PROVE  row'[e] = row[e]
  <2>1. CASE \E p \in Publisher : CommitPublish(p)
    BY <1>1, <2>1 DEF CommitPublish, Inv, TypeOK, InsertsAreNew
  <2>2. CASE \E w \in Worker : Commit(w)
    <3>1. PICK w \in Worker : Commit(w)
      BY <2>2
    <3>2. ~Locked(w, e)
      BY <1>1 DEF Inv, Locks, HandsMatch, Active, Matches
    <3> QED
      BY <3>1, <3>2 DEF Commit
  <2>3. CASE UNCHANGED row
    BY <2>3
  <2>4. \/ \E p \in Publisher : CommitPublish(p)
        \/ \E w \in Worker : Commit(w)
        \/ UNCHANGED row
    BY <1>1 DEF Next, vars, Publish, AbortPublish, ClaimBatch, Complete, Fail,
                Flush, Crash
  <2> QED
    BY <2>1, <2>2, <2>3, <2>4
<1>2. Inv /\ [Next]_vars =>
        [\A e \in Event : row[e].status \in {"completed", "dead"} /\ ReportedOnce(e)
                            => row'[e] = row[e]]_vars
  BY <1>1
<1> QED
  BY <1>2, InvAlways, PTL DEF Spec, SettledForGood
-----------------------------------------------------------------------------
(* What a death can strand: the events its worker had in hand, which came  *)
(* from one batch.                                                         *)

\* LIMIT n: no more than n rows have fewer than n older ones, however many
\* rows there are.
LEMMA OldestAtMost ==
    ASSUME NEW S \in SUBSET Nat, NEW n \in Nat \ {0}
    PROVE  /\ IsFiniteSet(Oldest(S, n))
           /\ Cardinality(Oldest(S, n)) <= n
<1> DEFINE older(e) == {f \in S : f < e}
           rank == [e \in Oldest(S, n) |-> Cardinality(older(e))]
<1>1. \A e \in S : IsFiniteSet(older(e)) /\ Cardinality(older(e)) \in Nat
  <2> TAKE e \in S
  <2>1. older(e) \subseteq Nat /\ e \in Nat
    OBVIOUS
  <2>2. \A f \in older(e) : f <= e
    OBVIOUS
  <2> HIDE DEF older
  <2>3. IsFiniteSet(older(e))
    BY <2>1, <2>2, FS_BoundedSetOfNaturals
  <2> QED
    BY <2>3, FS_CardinalityType
<1>2. \A d, e \in S : d < e => Cardinality(older(d)) # Cardinality(older(e))
  <2> SUFFICES ASSUME NEW d \in S, NEW e \in S, d < e,
                      Cardinality(older(d)) = Cardinality(older(e))
               PROVE  FALSE
    OBVIOUS
  <2>1. /\ \A f \in older(d) : f \in older(e)
        /\ d \in older(e) /\ d \notin older(d)
    OBVIOUS
  <2>2. IsFiniteSet(older(e))
    BY <1>1
  <2> HIDE DEF older
  <2>3. older(d) \in SUBSET older(e)
    BY <2>1
  <2>4. older(d) = older(e)
    BY <2>2, <2>3, FS_Subset
  <2> QED
    BY <2>1, <2>4
<1>3. \A e \in Oldest(S, n) : e \in S /\ e \in Nat /\ Cardinality(older(e)) < n
  BY DEF Oldest
<1> HIDE DEF older
<1>4. rank \in [Oldest(S, n) -> 0..(n - 1)]
  <2>1. \A e \in Oldest(S, n) : Cardinality(older(e)) \in 0..(n - 1)
    BY <1>1, <1>3
  <2> QED
    BY <2>1
<1>5. \A d, e \in Oldest(S, n) : rank[d] = rank[e] => d = e
  <2> SUFFICES ASSUME NEW d \in Oldest(S, n), NEW e \in Oldest(S, n), d # e
               PROVE  rank[d] # rank[e]
    OBVIOUS
  <2>1. d \in S /\ e \in S /\ (d < e \/ e < d)
    BY <1>3
  <2> QED
    BY <1>2, <2>1
<1>6. rank \in Injection(Oldest(S, n), 0..(n - 1))
  BY <1>4, <1>5 DEF Injection, IsInjective
<1>7. IsFiniteSet(0..(n - 1)) /\ Cardinality(0..(n - 1)) = n
  BY FS_Interval
<1> QED
  BY <1>6, <1>7, FS_Injection

\* The events a worker has objects of.
Hand(w) == {e \in Event : Holds(w, e)}

\* A worker's objects are those of one batch, and what is stranded is counted.
Strands ==
    /\ \A w \in Worker : IsFiniteSet(Hand(w)) /\ Cardinality(Hand(w)) <= BatchSize
    /\ IsFiniteSet(Stranded) /\ IsFiniteSet(LostBy)
    /\ DeathsStrandOneBatch

LEMMA StrandsInit == Init => Strands
<1> SUFFICES ASSUME Init PROVE Strands
  OBVIOUS
<1>1. Stranded = {} /\ LostBy = {} /\ \A w \in Worker : Hand(w) = {}
  BY DEF Init, Absent, Stranded, LostBy, Hand, Holds
<1>2. crashes = 0
  BY DEF Init
<1> QED
  BY <1>1, <1>2, FS_EmptySet, OutboxAssumption DEF Strands, DeathsStrandOneBatch

\* A step that adds nothing to any hand or to what is stranded.
LEMMA NothingAdded ==
    ASSUME Inv, Strands, UNCHANGED crashes,
           \A w \in Worker : Hand(w)' \subseteq Hand(w),
           Stranded' \subseteq Stranded,
           \A e \in Stranded' : row'[e].by = row[e].by
    PROVE  Strands'
<1>1. \A w \in Worker : /\ IsFiniteSet(Hand(w)')
                        /\ Cardinality(Hand(w)') <= BatchSize
  <2> TAKE w \in Worker
  <2>1. /\ IsFiniteSet(Hand(w)) /\ Cardinality(Hand(w)) <= BatchSize
        /\ Hand(w)' \in SUBSET Hand(w)
    BY DEF Strands
  <2>2. /\ IsFiniteSet(Hand(w)')
        /\ Cardinality(Hand(w)') <= Cardinality(Hand(w))
    BY <2>1, FS_Subset
  <2>3. Cardinality(Hand(w)) \in Nat /\ Cardinality(Hand(w)') \in Nat
    BY <2>1, <2>2, FS_CardinalityType
  <2> QED
    BY <2>1, <2>2, <2>3, OutboxAssumption
<1>2. /\ IsFiniteSet(Stranded')
      /\ Cardinality(Stranded') <= crashes * BatchSize
  <2>1. /\ IsFiniteSet(Stranded) /\ Cardinality(Stranded) <= crashes * BatchSize
        /\ Stranded' \in SUBSET Stranded
    BY DEF Strands, DeathsStrandOneBatch
  <2>2. /\ IsFiniteSet(Stranded')
        /\ Cardinality(Stranded') <= Cardinality(Stranded)
    BY <2>1, FS_Subset
  <2>3. Cardinality(Stranded) \in Nat /\ Cardinality(Stranded') \in Nat
    BY <2>1, <2>2, FS_CardinalityType
  <2>4. crashes * BatchSize \in Int
    BY OutboxAssumption DEF Inv, TypeOK
  <2> QED
    BY <2>1, <2>2, <2>3, <2>4
<1>3. IsFiniteSet(LostBy') /\ Cardinality(LostBy') <= crashes
  <2>1. LostBy' \in SUBSET LostBy
    BY DEF LostBy
  <2>2. IsFiniteSet(LostBy) /\ Cardinality(LostBy) <= crashes
    BY DEF Strands, DeathsStrandOneBatch
  <2>3. IsFiniteSet(LostBy') /\ Cardinality(LostBy') <= Cardinality(LostBy)
    BY <2>1, <2>2, FS_Subset
  <2>4. Cardinality(LostBy) \in Nat /\ Cardinality(LostBy') \in Nat
    BY <2>2, <2>3, FS_CardinalityType
  <2>5. crashes \in Int
    BY OutboxAssumption DEF Inv, TypeOK
  <2> QED
    BY <2>2, <2>3, <2>4, <2>5
<1> QED
  BY <1>1, <1>2, <1>3 DEF Strands, DeathsStrandOneBatch

LEMMA StrandsInductive == Inv /\ Inv' /\ Strands /\ [Next]_vars => Strands'
<1> SUFFICES ASSUME Inv, Inv', Strands, [Next]_vars PROVE Strands'
  OBVIOUS
<1>1. CASE UNCHANGED vars
  BY <1>1, NothingAdded DEF vars, Hand, Holds, Stranded, LostBy, InWork, Locked
<1>2. ASSUME NEW p \in Publisher,
             \/ \E e \in Event : Publish(p, e)
             \/ CommitPublish(p)
             \/ AbortPublish(p)
      PROVE  Strands'
  <2>1. UNCHANGED <<object, dirty, crashes>>
    BY <1>2 DEF Publish, CommitPublish, AbortPublish
  <2>2. \A e \in Event : row'[e].status = "claimed" => row'[e] = row[e]
    BY <1>2 DEF Publish, CommitPublish, AbortPublish, Fresh, Inv, TypeOK
  <2>3. \A w \in Worker : Hand(w)' \subseteq Hand(w)
    BY <2>1 DEF Hand, Holds
  <2>4. /\ Stranded' \subseteq Stranded
        /\ \A e \in Stranded' : row'[e].by = row[e].by
    BY <2>1, <2>2 DEF Stranded, Holds, InWork, Locked
  <2> QED
    BY <2>1, <2>3, <2>4, NothingAdded
<1>3. ASSUME NEW w \in Worker, ClaimBatch(w) PROVE Strands'
  <2> DEFINE batch == Oldest(Claimable, BatchSize)
  <2>1. IsFiniteSet(batch) /\ Cardinality(batch) <= BatchSize
    BY OldestAtMost, OutboxAssumption DEF Claimable
  <2>2. /\ object' = [object EXCEPT ![w] = [e \in Event |->
             IF e \in batch
               THEN [status |-> "claimed", attempts |-> row[e].attempts + 1, by |-> w]
               ELSE NoObject]]
        /\ dirty' = [dirty EXCEPT ![w] =
             [e \in Event |-> IF e \in batch THEN Column ELSE {}]]
        /\ Resting(w)
        /\ UNCHANGED <<row, crashes>>
    BY <1>3 DEF ClaimBatch
  <2> HIDE DEF batch
  <2>3. Hand(w)' \in SUBSET batch
    BY <2>2 DEF Hand, Holds, Inv, TypeOK
  <2>4. IsFiniteSet(Hand(w)') /\ Cardinality(Hand(w)') <= Cardinality(batch)
    BY <2>1, <2>3, FS_Subset
  <2>5. Cardinality(Hand(w)') \in Nat /\ Cardinality(batch) \in Nat
    BY <2>1, <2>4, FS_CardinalityType
  <2>6. Cardinality(Hand(w)') <= BatchSize
    BY <2>1, <2>4, <2>5, OutboxAssumption
  <2>7. \A v : v # w => object'[v] = object[v] /\ dirty'[v] = dirty[v]
    BY <2>2 DEF Inv, TypeOK
  <2>8. \A v \in Worker \ {w} : Hand(v)' = Hand(v)
    BY <2>7 DEF Hand, Holds
  <2>9. Stranded' \in SUBSET Stranded
    <3>1. \A e \in Event : ~InWork(w, e) /\ ~Locked(w, e)
      BY <2>2 DEF Resting
    <3>2. ASSUME NEW e \in Event, row[e].status = "claimed",
                 InWork(row[e].by, e) \/ Locked(row[e].by, e)
          PROVE  InWork(row[e].by, e)' \/ Locked(row[e].by, e)'
      <4>1. row[e].by # w
        BY <3>1, <3>2
      <4>2. object'[row[e].by] = object[row[e].by] /\ dirty'[row[e].by] = dirty[row[e].by]
        BY <2>7, <4>1
      <4> QED
        BY <2>2, <3>2, <4>2 DEF InWork, Holds, Locked
    <3> QED
      BY <2>2, <3>2 DEF Stranded
  <2>10. /\ IsFiniteSet(Stranded')
         /\ Cardinality(Stranded') <= crashes' * BatchSize
    <3>1. /\ IsFiniteSet(Stranded)
          /\ Cardinality(Stranded) <= crashes * BatchSize
      BY DEF Strands, DeathsStrandOneBatch
    <3>2. /\ IsFiniteSet(Stranded')
          /\ Cardinality(Stranded') <= Cardinality(Stranded)
      BY <2>9, <3>1, FS_Subset
    <3>3. Cardinality(Stranded) \in Nat /\ Cardinality(Stranded') \in Nat
      BY <3>1, <3>2, FS_CardinalityType
    <3>4. crashes * BatchSize \in Int /\ crashes' = crashes
      BY <2>2, OutboxAssumption DEF Inv, TypeOK
    <3> QED
      BY <3>1, <3>2, <3>3, <3>4
  <2>12. /\ IsFiniteSet(LostBy')
         /\ Cardinality(LostBy') <= crashes'
    <3>1. LostBy' \in SUBSET LostBy
      BY <2>2, <2>9 DEF LostBy
    <3>2. IsFiniteSet(LostBy) /\ Cardinality(LostBy) <= crashes
      BY DEF Strands, DeathsStrandOneBatch
    <3>3. IsFiniteSet(LostBy') /\ Cardinality(LostBy') <= Cardinality(LostBy)
      BY <3>1, <3>2, FS_Subset
    <3>4. Cardinality(LostBy) \in Nat /\ Cardinality(LostBy') \in Nat
      BY <3>2, <3>3, FS_CardinalityType
    <3>5. crashes \in Int /\ crashes' = crashes
      BY <2>2, OutboxAssumption DEF Inv, TypeOK
    <3> QED
      BY <3>2, <3>3, <3>4, <3>5
  <2>11. \A v \in Worker : /\ IsFiniteSet(Hand(v)')
                           /\ Cardinality(Hand(v)') <= BatchSize
    BY <2>4, <2>6, <2>8 DEF Strands
  <2> QED
    BY <2>10, <2>11, <2>12 DEF Strands, DeathsStrandOneBatch
<1>4. ASSUME NEW w \in Worker, NEW e \in Event, Report(w, e) PROVE Strands'
  <2>1. PICK o \in Object :
          /\ object' = [object EXCEPT ![w] = [object[w] EXCEPT ![e] = o]]
          /\ dirty' = [dirty EXCEPT ![w] = [dirty[w] EXCEPT ![e] =
                         dirty[w][e] \cup Changed(object[w][e], o)]]
          /\ UNCHANGED <<row, inserting, crashes>>
          /\ Holds(w, e)
    BY <1>4, ReportStep
  <2>2. \A v : \A f \in Event : v # w \/ f # e =>
          object'[v][f] = object[v][f] /\ dirty'[v][f] = dirty[v][f]
    BY <2>1 DEF Inv, TypeOK
  <2>3. object'[w][e] = o /\ dirty'[w][e] # {}
    BY <2>1 DEF Inv, TypeOK, Changed
  <2>4. \A v \in Worker : Hand(v)' \subseteq Hand(v)
    BY <2>1, <2>2 DEF Hand, Holds
  <2>5. \A v : \A f \in Event :
          InWork(v, f) \/ Locked(v, f) => InWork(v, f)' \/ Locked(v, f)'
    BY <2>2, <2>3 DEF InWork, Holds, Locked
  <2>6. Stranded' \subseteq Stranded
    BY <2>1, <2>5 DEF Stranded
  <2>7. \A f \in Event : row'[f].by = row[f].by
    BY <2>1
  <2> QED
    BY <2>1, <2>4, <2>6, <2>7, NothingAdded DEF Stranded
<1>5. ASSUME NEW w \in Worker, Commit(w) PROVE Strands'
  <2>1. /\ row' = [e \in Event |-> IF Locked(w, e) THEN Updated(w, e) ELSE row[e]]
        /\ dirty' = [dirty EXCEPT ![w] = [e \in Event |-> {}]]
        /\ UNCHANGED <<crashes, object>>
    BY <1>5 DEF Commit
  <2>2. /\ \A v \in Worker : Hand(v)' = Hand(v)
        /\ \A v : v # w => dirty'[v] = dirty[v]
    BY <2>1 DEF Hand, Holds, Inv, TypeOK
  <2>3. ASSUME NEW e \in Stranded', e \notin Stranded \/ row'[e].by # row[e].by
        PROVE  FALSE
    <3>1. /\ e \in Event /\ row'[e].status = "claimed"
          /\ \/ object'[row'[e].by][e] = NoObject
             \/ object'[row'[e].by][e].status # "claimed"
          /\ dirty'[row'[e].by][e] = {}
      BY <2>3 DEF Stranded, InWork, Holds, Locked
    <3>2. CASE ~Locked(w, e)
      <4>1. row'[e] = row[e]
        BY <2>1, <3>1, <3>2
      <4>2. e \notin Stranded
        BY <2>3, <4>1
      <4>3. ~InWork(row[e].by, e) /\ Locked(row[e].by, e)
        BY <2>1, <3>1, <4>1, <4>2 DEF Stranded, InWork, Holds
      <4>4. row[e].by # w /\ dirty'[row[e].by] = dirty[row[e].by]
        BY <2>2, <3>2, <4>3
      <4> QED
        BY <3>1, <4>1, <4>3, <4>4 DEF Locked
    <3>3. CASE Locked(w, e)
      <4>1. /\ Holds(w, e) /\ row'[e] = Updated(w, e)
            /\ object[w][e] \in Object /\ row[e] \in Row
        BY <2>1, <3>1, <3>3 DEF Inv, Locks, TypeOK, Holds
      <4>2. CASE "status" \in dirty[w][e]
        <5>1. InWork(w, e)
          BY <3>1, <4>1, <4>2 DEF Updated, InWork
        <5>2. "by" \in dirty[w][e] /\ object[w][e].by = w
          BY <3>1, <3>3, <4>1, <5>1 DEF Inv, Objects
        <5>3. row'[e].by = w
          BY <4>1, <5>2 DEF Updated
        <5> QED
          BY <2>1, <3>1, <5>1, <5>3 DEF InWork, Holds
      <4>3. CASE "status" \notin dirty[w][e]
        <5>1. "by" \notin dirty[w][e]
          BY <3>1, <4>1, <4>3 DEF Inv, Objects
        <5>2. row[e].status = "claimed" /\ row'[e].by = row[e].by
          BY <3>1, <4>1, <4>3, <5>1 DEF Updated
        <5>3. ~InWork(row[e].by, e) /\ Locked(row[e].by, e)
          <6>1. e \notin Stranded
            BY <2>3, <5>2
          <6> QED
            BY <2>1, <3>1, <5>2, <6>1 DEF Stranded, InWork, Holds
        <5>4. CASE row[e].by = w
          BY <3>1, <4>1, <4>3, <5>2, <5>3, <5>4 DEF Inv, Objects
        <5>5. CASE row[e].by # w
          <6>1. dirty'[row[e].by] = dirty[row[e].by]
            BY <2>2, <5>5
          <6> QED
            BY <3>1, <5>2, <5>3, <6>1 DEF Locked
        <5> QED
          BY <5>4, <5>5
      <4> QED
        BY <4>2, <4>3
    <3> QED
      BY <3>2, <3>3
  <2>4. /\ Stranded' \subseteq Stranded
        /\ \A e \in Stranded' : row'[e].by = row[e].by
    BY <2>3
  <2> QED
    BY <2>1, <2>2, <2>4, NothingAdded
<1>6. ASSUME NEW w \in Worker, Crash(w) PROVE Strands'
  <2>1. /\ object' = [object EXCEPT ![w] = [e \in Event |-> NoObject]]
        /\ dirty' = [dirty EXCEPT ![w] = [e \in Event |-> {}]]
        /\ crashes' = crashes + 1
        /\ UNCHANGED row
    BY <1>6 DEF Crash
  <2>2. /\ \A e \in Event : object'[w][e] = NoObject
        /\ \A v : v # w => object'[v] = object[v] /\ dirty'[v] = dirty[v]
    BY <2>1 DEF Inv, TypeOK
  <2>3. Hand(w)' = {} /\ \A v \in Worker \ {w} : Hand(v)' = Hand(v)
    BY <2>2 DEF Hand, Holds
  <2>4. \A v \in Worker : /\ IsFiniteSet(Hand(v)')
                          /\ Cardinality(Hand(v)') <= BatchSize
    BY <2>3, FS_EmptySet, OutboxAssumption DEF Strands
  <2>5. Stranded' \in SUBSET (Stranded \cup Hand(w))
    <3> SUFFICES ASSUME NEW e \in Event, row[e].status = "claimed",
                        ~InWork(row[e].by, e)', ~Locked(row[e].by, e)',
                        InWork(row[e].by, e) \/ Locked(row[e].by, e)
                 PROVE  e \in Hand(w)
      BY <2>1 DEF Stranded
    <3>1. row[e].by = w
      BY <2>1, <2>2 DEF InWork, Holds, Locked
    <3> QED
      BY <3>1 DEF Hand, InWork, Inv, Locks
  <2>13. LostBy' \in SUBSET (LostBy \cup {w})
    <3> SUFFICES ASSUME NEW e \in Event, e \in Stranded', e \notin Stranded
                 PROVE  row[e].by = w
      BY <2>1 DEF LostBy, Stranded
    <3>1. /\ ~InWork(row[e].by, e)' /\ ~Locked(row[e].by, e)'
          /\ InWork(row[e].by, e) \/ Locked(row[e].by, e)
      BY <2>1 DEF Stranded, InWork, Holds, Locked
    <3> QED
      BY <2>1, <2>2, <3>1 DEF InWork, Holds, Locked
  <2>14. IsFiniteSet(LostBy') /\ Cardinality(LostBy') <= crashes'
    <3>1. /\ IsFiniteSet(LostBy) /\ Cardinality(LostBy) <= crashes
          /\ Cardinality(LostBy) \in Nat
      BY FS_CardinalityType DEF Strands, DeathsStrandOneBatch
    <3>2. /\ IsFiniteSet(LostBy \cup {w})
          /\ Cardinality(LostBy \cup {w}) <= Cardinality(LostBy) + 1
      BY <3>1, FS_AddElement
    <3>3. IsFiniteSet(LostBy') /\ Cardinality(LostBy') <= Cardinality(LostBy \cup {w})
      BY <2>13, <3>2, FS_Subset
    <3>4. Cardinality(LostBy') \in Nat /\ Cardinality(LostBy \cup {w}) \in Nat
      BY <3>2, <3>3, FS_CardinalityType
    <3>5. crashes \in Int /\ crashes' = crashes + 1
      BY <2>1, OutboxAssumption DEF Inv, TypeOK
    <3> QED
      BY <3>1, <3>2, <3>3, <3>4, <3>5
  <2>6. /\ IsFiniteSet(Stranded) /\ IsFiniteSet(Hand(w))
        /\ Cardinality(Stranded) <= crashes * BatchSize
        /\ Cardinality(Hand(w)) <= BatchSize
    BY DEF Strands, DeathsStrandOneBatch
  <2>7. /\ IsFiniteSet(Stranded \cup Hand(w))
        /\ Cardinality(Stranded \cup Hand(w)) =
             Cardinality(Stranded) + Cardinality(Hand(w))
               - Cardinality(Stranded \cap Hand(w))
    BY <2>6, FS_Union
  <2>8. /\ IsFiniteSet(Stranded')
        /\ Cardinality(Stranded') <= Cardinality(Stranded \cup Hand(w))
    BY <2>5, <2>7, FS_Subset
  <2>9. IsFiniteSet(Stranded \cap Hand(w))
    BY <2>6, FS_Intersection
  <2>10. /\ Cardinality(Stranded) \in Nat /\ Cardinality(Hand(w)) \in Nat
         /\ Cardinality(Stranded \cap Hand(w)) \in Nat
         /\ Cardinality(Stranded') \in Nat
    BY <2>6, <2>8, <2>9, FS_CardinalityType
  <2>11. /\ crashes * BatchSize \in Int
         /\ crashes' * BatchSize = crashes * BatchSize + BatchSize
    BY <2>1, OutboxAssumption DEF Inv, TypeOK
  <2>12. Cardinality(Stranded') <= crashes' * BatchSize
    BY <2>6, <2>7, <2>8, <2>10, <2>11, OutboxAssumption
  <2> QED
    BY <2>4, <2>8, <2>12, <2>14 DEF Strands, DeathsStrandOneBatch
<1> QED
  BY <1>1, <1>2, <1>3, <1>4, <1>5, <1>6 DEF Next, Report

\* Only deaths strand events, and each of them at most one batch, whatever
\* the number of workers, of rows, of attempts and of repeated reports.
THEOREM DeathsStrandOneBatchEach == Spec => []DeathsStrandOneBatch
<1>1. Strands => DeathsStrandOneBatch
  BY DEF Strands
<1> QED
  BY <1>1, StrandsInit, StrandsInductive, InvAlways, PTL DEF Spec
=============================================================================
