---------------------------- MODULE SendPathProofs ----------------------------
(***************************************************************************)
(* Proofs about SendPath, for any people, mailboxes, batches, pauses and    *)
(* bounds.                                                                 *)
(***************************************************************************)
EXTENDS SendPath, LeastElements, FiniteSetTheorems, TLAPS

\* Every action but Send leaves the mails alone, and every action but Approve
\* the approvals.
LEMMA WhoWrites ==
    ASSUME Next
    PROVE  /\ \/ UNCHANGED mails
              \/ \E i \in DOMAIN tasks : Send(i)
           /\ \/ UNCHANGED approved
              \/ \E i \in DOMAIN tasks : Approve(i)
  BY DEF Next, Allocate, Operate, Approve, Send, Refused, Suppress, Import,
         Readmit, FindBreach, OperatorActs, TimePasses

-----------------------------------------------------------------------------
(* Stops.  The property speaks of people, the guard of entries: the        *)
(* invariant ties the two together.                                        *)

StopInv ==
    /\ mails \in [1..MaxTasks -> 0..MaxMails]
    /\ \A p \in stopped : <<"email", p>> \in entries

LEMMA StopInit == Init => StopInv
  BY SendAssumption DEF Init, StopInv

\* A refusal adds the person to both; an admin takes it out of both.
LEMMA StopInductive == StopInv /\ [Next]_vars => StopInv'
<1> SUFFICES ASSUME StopInv, [Next]_vars PROVE StopInv'
  OBVIOUS
<1> USE DEF StopInv
<1>1. mails' \in [1..MaxTasks -> 0..MaxMails]
  <2>1. CASE UNCHANGED mails
    BY <2>1
  <2>2. ASSUME NEW i \in DOMAIN tasks, Send(i)
        PROVE  mails' \in [1..MaxTasks -> 0..MaxMails]
    <3>1. /\ mails' = [mails EXCEPT ![i] = mails[i] + 1]
          /\ mails[i] < MaxMails
      BY <2>2 DEF Send
    <3>2. ASSUME NEW j \in 1..MaxTasks
          PROVE  mails'[j] \in 0..MaxMails
      <4>1. mails[j] \in 0..MaxMails
        OBVIOUS
      <4> QED
        BY <3>1, <4>1, SendAssumption
    <3> QED
      BY <3>1, <3>2
  <2> QED
    BY <2>1, <2>2, WhoWrites DEF vars
<1>2. \A p \in stopped' : <<"email", p>> \in entries'
  <2>1. CASE UNCHANGED <<entries, stopped>>
    BY <2>1
  <2>2. ASSUME NEW i \in DOMAIN tasks, NEW spelling \in Spelling,
               Refused(i, spelling)
        PROVE  \A p \in stopped' : <<"email", p>> \in entries'
    BY <2>2 DEF Refused, AddEntry, MakeKey
  <2>3. ASSUME NEW named \in Admin, Suppress(named)
        PROVE  \A p \in stopped' : <<"email", p>> \in entries'
    BY <2>3 DEF Suppress, AddEntry
  <2>4. ASSUME NEW named \in Admin, Readmit(named)
        PROVE  \A p \in stopped' : <<"email", p>> \in entries'
    <3>1. ASSUME NEW p \in stopped', <<"email", p>> = MakeKey(named)
          PROVE  FALSE
      BY <2>4, <3>1 DEF Readmit, MakeKey
    <3> QED
      BY <2>4, <3>1 DEF Readmit, RemoveEntry
  <2>5. ASSUME Import
        PROVE  \A p \in stopped' : <<"email", p>> \in entries'
    BY <2>5 DEF Import, BulkImport
  <2> QED
    BY <2>1, <2>2, <2>3, <2>4, <2>5
    DEF vars, Next, Allocate, Operate, Approve, Send, FindBreach,
        OperatorActs, TimePasses
<1> QED
  BY <1>1, <1>2

LEMMA StopStep ==
    StopInv /\ [Next]_vars =>
       [\A i \in 1..MaxTasks :
          mails'[i] > mails[i] => tasks[i].to[1] \notin stopped]_vars
<1> SUFFICES ASSUME StopInv, Next, NEW i \in 1..MaxTasks, mails'[i] > mails[i]
             PROVE  tasks[i].to[1] \notin stopped
  BY DEF vars
<1>1. PICK j \in DOMAIN tasks : Send(j)
  BY WhoWrites, SendAssumption DEF StopInv
<1>2. i = j
  BY <1>1, SendAssumption DEF Send, StopInv
<1>3. <<"email", tasks[i].to[1]>> \notin entries
  BY <1>1, <1>2 DEF Send, IsSuppressed, MakeKey
<1> QED
  BY <1>3 DEF StopInv

\* Nobody who bounced or complained gets another mail before the entry is
\* removed: for any retries, replays, spellings and interleavings.
THEOREM StoppedGetNoMail == Spec => NoMailAfterStop
  BY StopInit, StopInductive, StopStep, PTL DEF Spec, NoMailAfterStop

-----------------------------------------------------------------------------
(* Breaches.  A breach leaves an untimed pause, which the clock does not    *)
(* end.                                                                     *)

BreachInv ==
    /\ pauses \in [Scope -> Pause]
    /\ breached \subseteq Scope
    /\ \A k \in breached : pauses[k] = "held"

LEMMA BreachInit == Init => BreachInv
  BY DEF Init, BreachInv, Pause

LEMMA BreachInductive == BreachInv /\ [Next]_vars => BreachInv'
<1> SUFFICES ASSUME BreachInv, [Next]_vars PROVE BreachInv'
  OBVIOUS
<1>1. CASE UNCHANGED <<pauses, breached>>
  BY <1>1 DEF BreachInv
<1>2. ASSUME NEW k \in Scope, FindBreach(k)
      PROVE  BreachInv'
  BY <1>2 DEF FindBreach, Breach, PauseScope, BreachInv, Pause
<1>3. ASSUME NEW k \in Scope, OperatorActs(k)
      PROVE  BreachInv'
  BY <1>3 DEF OperatorActs, PauseScope, ResumeScope, BreachInv, Pause
<1>4. ASSUME NEW k \in Scope, TimePasses(k)
      PROVE  BreachInv'
  BY <1>4 DEF TimePasses, Lapse, BreachInv, Pause
<1>5. Watched \subseteq Scope
  BY SendAssumption
<1> QED
  BY <1>1, <1>2, <1>3, <1>4, <1>5
  DEF vars, Next, Allocate, Operate, Approve, Send, Refused, Suppress, Import,
      Readmit

LEMMA BreachStep ==
    BreachInv /\ [Next]_vars =>
       [\A i \in approved' \ approved :
          breached \cap {System, tasks[i].from} = {}]_vars
<1> SUFFICES ASSUME BreachInv, Next, NEW i \in approved' \ approved
             PROVE  breached \cap {System, tasks[i].from} = {}
  BY DEF vars
<1>1. PICK j \in DOMAIN tasks : Approve(j)
  BY WhoWrites
<1>2. i = j
  BY <1>1 DEF Approve
<1>3. \A k \in {System, tasks[i].from} : pauses[k] = "none"
  BY <1>1, <1>2 DEF Approve, AnyPauseActive, IsPaused
<1> QED
  BY <1>3 DEF BreachInv

\* While a breach stands, no task of its mailbox, and none at all if it is the
\* system's, is approved: the clock and further breaches do not end it.
THEOREM BreachesStopApprovals == Spec => BreachStopsApproval
  BY BreachInit, BreachInductive, BreachStep, PTL DEF Spec, BreachStopsApproval

-----------------------------------------------------------------------------
(* Allocations.  allocate's loop is a fold, a recursive function over the   *)
(* sets of places in the batch; its values at the sets 1..k are the results *)
(* after k recipients.                                                     *)

BoxTypes == box \in [Mailbox -> Box]

Start == [allocated |-> <<>>, unallocated |-> {},
          used |-> [m \in Mailbox |-> box[m].used]]

\* f is the function that Allocation defines over the subsets of T.
Folds(f, batch, dryRun, T) ==
    f = [s \in SUBSET T |->
           IF s = {} THEN Start
           ELSE Give(batch, dryRun, f[s \ {Max(s)}], [n \in DOMAIN batch |-> n][Max(s)])]

LEMMA AllocationIsFold ==
    ASSUME NEW batch, NEW dryRun, NEW h, Folds(h, batch, dryRun, DOMAIN batch)
    PROVE  \E f : /\ Folds(f, batch, dryRun, DOMAIN batch)
                  /\ Allocation(batch, dryRun) = f[DOMAIN batch]
<1> DEFINE f == CHOOSE f : Folds(f, batch, dryRun, DOMAIN batch)
<1>1. Folds(f, batch, dryRun, DOMAIN batch)
  OBVIOUS
<1>2. Allocation(batch, dryRun) = f[DOMAIN batch]
  BY DEF Allocation, FoldLeftDomain, FoldLeft, MapThenFoldSet, Folds, Start
<1> QED
  BY <1>1, <1>2

\* A set of places has a last one.
LEMMA LastPlace ==
    ASSUME NEW N \in Nat, NEW s \in SUBSET (1..N), s # {}
    PROVE  Max(s) \in s /\ \A n \in s : n <= Max(s)
<1>1. s \in SUBSET Nat /\ \A n \in s : n <= N
  OBVIOUS
<1>2. \E n \in s : \A k \in s : k <= n
  BY <1>1, GreatestNumber
<1>3. \E n \in s : \A k \in s : n >= k
  BY <1>1, <1>2
<1>4. Max(s) \in s /\ \A k \in s : Max(s) >= k
  BY <1>3 DEF Max
<1> QED
  BY <1>1, <1>4

\* Two such functions agree where both are defined.
LEMMA FoldsAgree ==
    ASSUME NEW N \in Nat, NEW batch, NEW dryRun, NEW A \in SUBSET (1..N),
           NEW B \in SUBSET (1..N), NEW f, NEW h,
           Folds(f, batch, dryRun, A), Folds(h, batch, dryRun, B),
           NEW S \in SUBSET (A \cap B)
    PROVE  f[S] = h[S]
<1> DEFINE Bad == {R \in SUBSET S : f[R] # h[R]}
<1> SUFFICES ASSUME Bad # {} PROVE FALSE
  OBVIOUS
<1>1. PICK R \in Bad : \A Q \in SUBSET R : Q # R => Q \notin Bad
  <2>1. Bad \in SUBSET SUBSET S
    OBVIOUS
  <2>2. IsFiniteSet(S)
    <3>1. IsFiniteSet(1..N)
      BY FS_Interval
    <3>2. S \in SUBSET (1..N)
      OBVIOUS
    <3> HIDE DEF Bad
    <3> QED
      BY <3>1, <3>2, FS_Subset
  <2> HIDE DEF Bad
  <2> QED
    BY <2>1, <2>2, LeastSet
<1>2. R \in SUBSET S /\ f[R] # h[R]
  OBVIOUS
<1> DEFINE at == [n \in DOMAIN batch |-> n]
<1>3. /\ f[R] = IF R = {} THEN Start ELSE Give(batch, dryRun, f[R \ {Max(R)}], at[Max(R)])
      /\ h[R] = IF R = {} THEN Start ELSE Give(batch, dryRun, h[R \ {Max(R)}], at[Max(R)])
  <2> HIDE DEF Bad
  <2> QED
    BY <1>2 DEF Folds
<1>4. R # {} => Max(R) \in R
  BY <1>2, LastPlace
<1>5. R # {} => f[R \ {Max(R)}] = h[R \ {Max(R)}]
  BY <1>1, <1>2, <1>4
<1> HIDE DEF at
<1> QED
  BY <1>2, <1>3, <1>5

\* There is such a function.
LEMMA FoldsExists ==
    ASSUME NEW N \in Nat, NEW batch, NEW dryRun
    PROVE  \E f : Folds(f, batch, dryRun, 1..N)
<1> DEFINE Bad == {R \in SUBSET (1..N) : ~ \E f : Folds(f, batch, dryRun, R)}
           at == [n \in DOMAIN batch |-> n]
<1> SUFFICES ASSUME Bad # {} PROVE FALSE
  OBVIOUS
<1>1. PICK S \in Bad : \A Q \in SUBSET S : Q # S => Q \notin Bad
  <2>1. Bad \in SUBSET SUBSET (1..N)
    OBVIOUS
  <2>2. IsFiniteSet(1..N)
    BY FS_Interval
  <2> HIDE DEF Bad
  <2> QED
    BY <2>1, <2>2, LeastSet
<1>2. /\ S \in SUBSET (1..N)
      /\ \A Q \in SUBSET S : Q # S => \E f : Folds(f, batch, dryRun, Q)
  BY <1>1
<1>a. ~ \E f : Folds(f, batch, dryRun, S)
  OBVIOUS
<1> HIDE DEF Bad
<1> DEFINE below == [Q \in SUBSET S |-> CHOOSE f : Folds(f, batch, dryRun, Q)]
           f == [s \in SUBSET S |-> IF s = {} THEN Start
                   ELSE Give(batch, dryRun, below[s \ {Max(s)}][s \ {Max(s)}],
                             at[Max(s)])]
<1>3. \A Q \in SUBSET S : Q # S => Folds(below[Q], batch, dryRun, Q)
  BY <1>2
<1>4. \A s \in SUBSET S : s # {} =>
        Max(s) \in s /\ s \ {Max(s)} \in SUBSET S /\ s \ {Max(s)} # S
  BY <1>2, LastPlace
<1> HIDE DEF below, at
<1>5. ASSUME NEW Q \in SUBSET S, Q # S PROVE f[Q] = below[Q][Q]
  <2>1. below[Q][Q] = IF Q = {} THEN Start
                      ELSE Give(batch, dryRun, below[Q][Q \ {Max(Q)}], at[Max(Q)])
    <3>1. Folds(below[Q], batch, dryRun, Q) /\ Q \in SUBSET Q
      BY <1>3, <1>5
    <3> QED
      BY <3>1 DEF Folds, at
  <2>2. ASSUME Q # {}
        PROVE  below[Q][Q \ {Max(Q)}] = below[Q \ {Max(Q)}][Q \ {Max(Q)}]
    <3> DEFINE R == Q \ {Max(Q)}
    <3>1. /\ Folds(below[Q], batch, dryRun, Q) /\ Folds(below[R], batch, dryRun, R)
          /\ R \in SUBSET (Q \cap R) /\ Q \in SUBSET (1..N) /\ R \in SUBSET (1..N)
      BY <1>2, <1>3, <1>4, <1>5, <2>2
    <3> HIDE DEF R
    <3>2. PICK g, h : g = below[Q] /\ h = below[R]
      OBVIOUS
    <3>3. Folds(g, batch, dryRun, Q) /\ Folds(h, batch, dryRun, R)
      BY <3>1, <3>2
    <3>4. g[R] = h[R]
      BY <3>1, <3>3, FoldsAgree
    <3> QED
      BY <3>2, <3>4 DEF R
  <2>3. f[Q] = IF Q = {} THEN Start
               ELSE Give(batch, dryRun, below[Q \ {Max(Q)}][Q \ {Max(Q)}], at[Max(Q)])
    OBVIOUS
  <2> HIDE DEF f
  <2> QED
    BY <2>1, <2>2, <2>3
<1>6. \A s \in SUBSET S : s # {} => f[s \ {Max(s)}] = below[s \ {Max(s)}][s \ {Max(s)}]
  <2> HIDE DEF f
  <2> QED
    BY <1>4, <1>5
<1>7. \A s \in SUBSET S :
        f[s] = IF s = {} THEN Start
               ELSE Give(batch, dryRun, f[s \ {Max(s)}], at[Max(s)])
  <2> TAKE s \in SUBSET S
  <2>1. f[s] = IF s = {} THEN Start
               ELSE Give(batch, dryRun, below[s \ {Max(s)}][s \ {Max(s)}], at[Max(s)])
    OBVIOUS
  <2> HIDE DEF f
  <2> QED
    BY <1>6, <2>1
<1>8. Folds(f, batch, dryRun, S)
  <2>1. f = [s \in SUBSET S |-> f[s]]
    OBVIOUS
  <2> HIDE DEF f
  <2> QED
    BY <1>7, <2>1 DEF Folds, at
<1> QED
  BY <1>a, <1>8

\* The results of a batch recipient by recipient.
LEMMA AllocationSteps ==
    ASSUME NEW batch \in Seq(Address), NEW dryRun
    PROVE  \E r : /\ r[0] = Start
                  /\ \A k \in 1..Len(batch) :
                        r[k] = Give(batch, dryRun, r[k - 1], k)
                  /\ Allocation(batch, dryRun) = r[Len(batch)]
<1> DEFINE N == Len(batch)
           at == [n \in DOMAIN batch |-> n]
<1>1. N \in Nat /\ DOMAIN batch = 1..N
  OBVIOUS
<1> HIDE DEF N
<1>2. PICK f : Folds(f, batch, dryRun, 1..N) /\ Allocation(batch, dryRun) = f[1..N]
  BY <1>1, FoldsExists, AllocationIsFold
<1>3. \A s \in SUBSET (1..N) :
        f[s] = IF s = {} THEN Start
               ELSE Give(batch, dryRun, f[s \ {Max(s)}], at[Max(s)])
  BY <1>2 DEF Folds
<1>4. \A k \in 1..N : at[k] = k
  BY <1>1
<1> HIDE DEF at
<1> DEFINE r == [k \in 0..N |-> f[1..k]]
<1>5. r[0] = Start
  <2>1. 1..0 = {} /\ 0 \in 0..N
    BY <1>1
  <2> QED
    BY <1>3, <2>1
<1>6. ASSUME NEW k \in 1..N PROVE r[k] = Give(batch, dryRun, r[k - 1], k)
  <2>1. k \in Nat /\ k >= 1 /\ 1..k \in SUBSET (1..N) /\ k \in 1..k
    BY <1>1
  <2>2. Max(1..k) \in 1..k /\ \A n \in 1..k : n <= Max(1..k)
    BY <1>1, <2>1, LastPlace
  <2>3. Max(1..k) = k
    BY <2>1, <2>2
  <2>4. (1..k) \ {k} = 1..(k - 1)
    BY <2>1
  <2>5. f[1..k] = Give(batch, dryRun, f[1..(k - 1)], k)
    BY <1>3, <1>4, <2>1, <2>3, <2>4
  <2>6. r[k] = f[1..k] /\ r[k - 1] = f[1..(k - 1)]
    BY <1>1, <2>1
  <2> QED
    BY <2>5, <2>6
<1>7. r[N] = f[1..N]
  BY <1>1
<1> HIDE DEF r
<1> QED
  BY <1>2, <1>5, <1>6, <1>7 DEF N

-----------------------------------------------------------------------------
(* The turn of one recipient.                                              *)

\* A set of mailboxes has a first one.
LEMMA FirstIn ==
    ASSUME BoxTypes, NEW S \in SUBSET Mailbox, S # {}
    PROVE  First(S) \in S
<1>a. /\ S \in SUBSET Nat
      /\ \A m \in S : box[m].health \in 0..2 /\ box[m].used \in Nat
  BY MailboxAssumption DEF BoxTypes, Box, Health
<1>1. PICK k \in S : \A n \in S : box[n].health <= box[k].health
  <2> DEFINE H == {box[m].health : m \in S}
  <2>1. H \in SUBSET Nat /\ H # {} /\ \A h \in H : h <= 2
    <3>1. \A m \in S : box[m].health \in Nat /\ box[m].health <= 2
      BY <1>a
    <3> QED
      BY <3>1
  <2>2. \E h \in H : \A g \in H : g <= h
    <3> HIDE DEF H
    <3> QED
      BY <2>1, GreatestNumber
  <2> QED
    BY <2>2
<1>2. PICK u \in S : /\ box[u].health = box[k].health
                     /\ \A n \in S : box[n].health = box[k].health =>
                           box[u].used <= box[n].used
  <2> DEFINE U == {box[m].used : m \in {n \in S : box[n].health = box[k].health}}
  <2>1. U \in SUBSET Nat /\ U # {}
    BY <1>a
  <2>2. \E h \in U : \A g \in U : h <= g
    <3> HIDE DEF U
    <3> QED
      BY <2>1, LeastNumber
  <2> QED
    BY <2>2
<1>3. PICK f \in S : /\ box[f].health = box[k].health /\ box[f].used = box[u].used
                     /\ \A n \in S : /\ box[n].health = box[k].health
                                     /\ box[n].used = box[u].used
                                     => f <= n
  <2> DEFINE F == {n \in S : box[n].health = box[k].health /\ box[n].used = box[u].used}
  <2>1. F \in SUBSET Nat /\ F # {}
    BY <1>a, <1>2
  <2>2. \E h \in F : \A g \in F : h <= g
    <3> HIDE DEF F
    <3> QED
      BY <2>1, LeastNumber
  <2> QED
    BY <2>2
<1>4. ASSUME NEW n \in S \ {f} PROVE Before(f, n)
  <2>1. /\ box[n].health \in Nat /\ box[n].used \in Nat /\ n \in Nat
        /\ box[f].health \in Nat /\ box[f].used \in Nat /\ f \in Nat
    BY <1>a
  <2>2. /\ box[n].health <= box[f].health
        /\ box[n].health = box[f].health => box[f].used <= box[n].used
        /\ box[n].health = box[f].health /\ box[n].used = box[f].used => f <= n
    BY <1>1, <1>2, <1>3
  <2> QED
    BY <2>1, <2>2 DEF Before
<1> QED
  BY <1>4 DEF First

Result == [allocated : Seq(Task), unallocated : SUBSET Nat,
           used : [Mailbox -> Nat]]

\* r is what is made of q when the n-th recipient gets mailbox m.
Given(q, r, batch, dryRun, n, m) ==
    /\ r.allocated = Append(q.allocated, [to |-> batch[n], from |-> m])
    /\ r.unallocated = q.unallocated
    /\ r.used = IF dryRun THEN q.used ELSE [q.used EXCEPT ![m] = @ + 1]

\* r is what is made of q when nothing fits the n-th recipient.
LeftOver(q, r, n) ==
    /\ r.allocated = q.allocated
    /\ r.unallocated = q.unallocated \cup {n}
    /\ r.used = q.used

\* A recipient is left over, exactly when no mailbox suits, or given one that
\* suits.
LEMMA GiveCases ==
    ASSUME BoxTypes, NEW batch \in Seq(Address), NEW n \in 1..Len(batch),
           NEW dryRun \in BOOLEAN, NEW q \in Result, NEW r,
           r = Give(batch, dryRun, q, n)
    PROVE  /\ r \in Result
           /\ \/ Suitable(batch[n], q.used) = {} /\ LeftOver(q, r, n)
              \/ \E m \in Suitable(batch[n], q.used) : Given(q, r, batch, dryRun, n, m)
<1> DEFINE fit == Suitable(batch[n], q.used)
<1>1. /\ q.allocated \in Seq(Task) /\ q.unallocated \in SUBSET Nat
      /\ q.used \in [Mailbox -> Nat]
      /\ q = [allocated |-> q.allocated, unallocated |-> q.unallocated,
              used |-> q.used]
  BY DEF Result
<1>2. batch[n] \in Address /\ n \in Nat
  OBVIOUS
<1>3. CASE fit = {}
  <2>1. r = [q EXCEPT !.unallocated = q.unallocated \cup {n}]
    BY <1>3 DEF Give
  <2>2. r = [allocated |-> q.allocated, unallocated |-> q.unallocated \cup {n},
             used |-> q.used]
    BY <1>1, <2>1
  <2> QED
    BY <1>1, <1>2, <1>3, <2>2 DEF Result, LeftOver
<1>4. CASE fit # {}
  <2> DEFINE m == First(fit)
             t == [to |-> batch[n], from |-> m]
             u == IF dryRun THEN q.used ELSE [q.used EXCEPT ![m] = @ + 1]
  <2>1. m \in fit /\ m \in Mailbox
    BY <1>4, FirstIn DEF Suitable, Available
  <2>2. r = [allocated |-> Append(q.allocated, t),
             unallocated |-> q.unallocated, used |-> u]
    <3> DEFINE counted == [q.used EXCEPT ![m] = @ + 1]
    <3>1. r = [q EXCEPT !.allocated = Append(@, t),
                        !.used = IF dryRun THEN @ ELSE counted]
      BY <1>4, Zenon DEF Give
    <3>2. u = IF dryRun THEN q.used ELSE counted
      OBVIOUS
    <3> HIDE DEF fit, m, t, u, counted
    <3> QED
      BY <1>1, <3>1, <3>2
  <2>3. t \in Task
    BY <1>2, <2>1 DEF Task
  <2>4. u \in [Mailbox -> Nat]
    BY <1>1, <2>1
  <2> HIDE DEF fit, m
  <2>5. Given(q, r, batch, dryRun, n, m)
    BY <1>1, <2>2 DEF Given
  <2>6. r \in Result
    <3>1. Append(q.allocated, t) \in Seq(Task)
      BY <1>1, <2>3
    <3> HIDE DEF t, u
    <3> QED
      BY <1>1, <2>2, <2>4, <3>1 DEF Result
  <2> QED
    BY <2>1, <2>5, <2>6 DEF fit
<1> QED
  BY <1>3, <1>4

-----------------------------------------------------------------------------
(* What a batch does, recipient by recipient.                              *)

\* How many of the tasks are mailbox m's.
Count(q, m) == Cardinality({i \in DOMAIN q : q[i].from = m})

LEMMA CountAppend ==
    ASSUME NEW q \in Seq(Task), NEW t \in Task, NEW m
    PROVE  /\ Count(q, m) \in Nat
           /\ Count(Append(q, t), m) = IF t.from = m THEN Count(q, m) + 1
                                                     ELSE Count(q, m)
<1> DEFINE A == {i \in DOMAIN q : q[i].from = m}
           r == Append(q, t)
           B == {i \in DOMAIN r : r[i].from = m}
           n == Len(q)
<1>1. n \in Nat /\ DOMAIN q = 1..n
  OBVIOUS
<1>2. DOMAIN r = 1..(n + 1) /\ r[n + 1] = t /\ \A i \in 1..n : r[i] = q[i]
  OBVIOUS
<1> HIDE DEF r, n
<1>3. IsFiniteSet(A) /\ n + 1 \notin A
  <2>1. IsFiniteSet(1..n)
    BY <1>1, FS_Interval
  <2>2. A \in SUBSET (1..n)
    BY <1>1
  <2>3. IsFiniteSet(A)
    <3> HIDE DEF A
    <3> QED
      BY <2>1, <2>2, FS_Subset
  <2> QED
    BY <1>1, <2>2, <2>3
<1>4. B = IF t.from = m THEN A \cup {n + 1} ELSE A
  BY <1>1, <1>2
<1> HIDE DEF A, B
<1>5. Cardinality(A) \in Nat /\ Cardinality(A \cup {n + 1}) = Cardinality(A) + 1
  BY <1>3, FS_AddElement, FS_CardinalityType
<1>6. Cardinality(B) = IF t.from = m THEN Cardinality(A) + 1 ELSE Cardinality(A)
  BY <1>4, <1>5
<1> QED
  BY <1>5, <1>6 DEF Count, A, B, r

\* After k recipients, of which a were given mailboxes and left left over, the
\* counters are u, and the mailboxes have sent the tasks in base before: the
\* counters count, the caps hold, and whoever is left over finds the mailboxes
\* that suit used up.
RealAfter(batch, base, a, left, u, k) ==
    /\ a \in Seq(Task) /\ left \in SUBSET (1..k) /\ u \in [Mailbox -> Nat]
    /\ Len(a) <= k
    /\ \A m \in Mailbox : /\ Count(base \o a, m) = u[m]
                          /\ u[m] <= DailyCap /\ u[m] <= HourlyCap
                          /\ box[m].used <= u[m]
    /\ \A j \in left : \A m \in Available :
          \/ MailboxDomain[m] = DomainPart(batch[j])
          \/ ~Free(u[m])
    /\ \A j \in 1..k : Suitable(batch[j], Start.used) = {} => j \in left

\* The counters agree with the tasks, and neither cap is exceeded.
Counted(base) ==
    \A m \in Mailbox : /\ Count(base, m) = box[m].used
                       /\ box[m].used <= DailyCap /\ box[m].used <= HourlyCap

LEMMA StartTypes ==
    ASSUME BoxTypes
    PROVE  /\ Start \in Result
           /\ \A m \in Mailbox : Start.used[m] = box[m].used /\ box[m].used \in Nat
<1>1. [m \in Mailbox |-> box[m].used] \in [Mailbox -> Nat]
  BY DEF BoxTypes, Box
<1> QED
  BY <1>1 DEF Start, Result, BoxTypes, Box

LEMMA RealStart ==
    ASSUME BoxTypes, NEW batch, NEW base \in Seq(Task), Counted(base)
    PROVE  RealAfter(batch, base, Start.allocated, Start.unallocated, Start.used, 0)
<1>1. /\ Start.allocated = <<>> /\ Start.unallocated = {}
      /\ Start.used \in [Mailbox -> Nat]
      /\ \A m \in Mailbox : Start.used[m] = box[m].used /\ box[m].used \in Nat
  BY StartTypes DEF Start, Result
<1>2. base \o <<>> = base /\ Len(<<>>) = 0 /\ <<>> \in Seq(Task) /\ 1..0 = {}
  OBVIOUS
<1>3. PICK u : u = Start.used
  OBVIOUS
<1>4. RealAfter(batch, base, <<>>, {}, u, 0)
  BY <1>1, <1>2, <1>3 DEF RealAfter, Counted
<1> QED
  BY <1>1, <1>3, <1>4

LEMMA RealLeftOver ==
    ASSUME NEW batch \in Seq(Address), NEW base \in Seq(Task), NEW k \in Nat,
           NEW a, NEW left, NEW u, RealAfter(batch, base, a, left, u, k),
           Suitable(batch[k + 1], u) = {}
    PROVE  RealAfter(batch, base, a, left \cup {k + 1}, u, k + 1)
<1>1. /\ a \in Seq(Task) /\ left \in SUBSET (1..k) /\ Len(a) <= k
      /\ u \in [Mailbox -> Nat]
  BY DEF RealAfter
<1>2. \A m \in Available : \/ MailboxDomain[m] = DomainPart(batch[k + 1])
                           \/ ~Free(u[m])
  BY DEF Suitable
<1>3. \A j \in 1..(k + 1) : j \in 1..k \/ j = k + 1
  OBVIOUS
<1>4. Len(a) <= k + 1 /\ left \cup {k + 1} \in SUBSET (1..(k + 1))
  BY <1>1
<1>5. ASSUME NEW j \in left \cup {k + 1}, NEW m \in Available
      PROVE  \/ MailboxDomain[m] = DomainPart(batch[j])
             \/ ~Free(u[m])
  BY <1>2, <1>5 DEF RealAfter
<1>6. ASSUME NEW j \in 1..(k + 1), Suitable(batch[j], Start.used) = {}
      PROVE  j \in left \cup {k + 1}
  BY <1>3, <1>6 DEF RealAfter
<1> QED
  BY <1>1, <1>4, <1>5, <1>6 DEF RealAfter

LEMMA RealGiven ==
    ASSUME BoxTypes, NEW batch \in Seq(Address), NEW base \in Seq(Task),
           NEW k \in Nat, NEW a, NEW left, NEW u,
           RealAfter(batch, base, a, left, u, k),
           NEW m \in Suitable(batch[k + 1], u), NEW t \in Task, t.from = m,
           NEW v, v = [u EXCEPT ![m] = @ + 1]
    PROVE  RealAfter(batch, base, Append(a, t), left, v, k + 1)
<1>1. /\ a \in Seq(Task) /\ left \in SUBSET (1..k) /\ Len(a) <= k
      /\ u \in [Mailbox -> Nat]
  BY DEF RealAfter
<1>2. /\ DailyCap \in Nat /\ HourlyCap \in Nat
      /\ \A n \in Mailbox : box[n].used \in Nat /\ u[n] \in Nat
      /\ Available \subseteq Mailbox
  BY <1>1, MailboxAssumption DEF BoxTypes, Box, Available
<1>3. m \in Mailbox /\ Free(u[m])
  BY <1>2 DEF Suitable
<1>4. \A n \in Mailbox : v[n] = (IF n = m THEN u[n] + 1 ELSE u[n]) /\ v[n] \in Nat
  BY <1>1, <1>2, <1>3
<1>5. v \in [Mailbox -> Nat]
  BY <1>1, <1>3
<1>6. Append(a, t) \in Seq(Task) /\ Len(Append(a, t)) <= k + 1
  BY <1>1
<1>7. ASSUME NEW n \in Mailbox
      PROVE  /\ Count(base \o Append(a, t), n) = v[n]
             /\ v[n] <= DailyCap /\ v[n] <= HourlyCap
             /\ box[n].used <= v[n]
  <2>1. base \o Append(a, t) = Append(base \o a, t)
    BY <1>1
  <2>2. PICK c \in Seq(Task) : c = base \o a
    <3>1. base \o a \in Seq(Task)
      BY <1>1
    <3> QED
      BY <3>1
  <2>3. Count(Append(c, t), n) = IF t.from = n THEN Count(c, n) + 1 ELSE Count(c, n)
    BY CountAppend
  <2>4. /\ Count(c, n) = u[n] /\ u[n] <= DailyCap /\ u[n] <= HourlyCap
        /\ box[n].used <= u[n]
    BY <2>2 DEF RealAfter
  <2>5. Count(base \o Append(a, t), n) = v[n]
    BY <1>4, <2>1, <2>2, <2>3, <2>4
  <2>6. n = m => u[n] < DailyCap /\ u[n] < HourlyCap
    BY <1>3 DEF Free
  <2>7. box[n].used \in Nat /\ u[n] \in Nat
    BY <1>2
  <2> QED
    BY <1>2, <1>4, <2>4, <2>5, <2>6, <2>7
<1>8. \A n \in Available : ~Free(u[n]) => ~Free(v[n])
  <2> SUFFICES ASSUME NEW n \in Available, Free(v[n]) PROVE Free(u[n])
    OBVIOUS
  <2>1. n \in Mailbox /\ u[n] \in Nat /\ (v[n] = u[n] + 1 \/ v[n] = u[n])
    BY <1>2, <1>4
  <2> QED
    BY <1>2, <2>1 DEF Free
<1>9. ASSUME NEW j \in left, NEW n \in Available
      PROVE  \/ MailboxDomain[n] = DomainPart(batch[j])
             \/ ~Free(v[n])
  BY <1>8 DEF RealAfter
<1>10. ASSUME NEW j \in 1..(k + 1), Suitable(batch[j], Start.used) = {}
       PROVE  j \in left
  <2>1. j \in 1..k \/ j = k + 1
    OBVIOUS
  <2>2. Start.used[m] = box[m].used /\ box[m].used <= u[m]
    BY <1>3, StartTypes DEF RealAfter
  <2>3. Free(Start.used[m])
    BY <1>2, <1>3, <2>2 DEF Free
  <2>4. m \in Suitable(batch[k + 1], Start.used)
    BY <2>3 DEF Suitable
  <2> QED
    BY <1>10, <2>1, <2>4 DEF RealAfter
<1>11. left \in SUBSET (1..(k + 1))
  BY <1>1
<1> QED
  BY <1>5, <1>6, <1>7, <1>9, <1>10, <1>11 DEF RealAfter

RealResult(batch, base, q, k) ==
    /\ q \in Result
    /\ RealAfter(batch, base, q.allocated, q.unallocated, q.used, k)

LEMMA RealStep ==
    ASSUME BoxTypes, NEW batch \in Seq(Address), NEW base \in Seq(Task),
           NEW k \in Nat, k + 1 <= Len(batch), NEW q, NEW r,
           r = Give(batch, FALSE, q, k + 1), RealResult(batch, base, q, k)
    PROVE  RealResult(batch, base, r, k + 1)
<1>1. k + 1 \in 1..Len(batch) /\ batch[k + 1] \in Address /\ q \in Result
  BY DEF RealResult
<1>2. /\ r \in Result
      /\ \/ Suitable(batch[k + 1], q.used) = {} /\ LeftOver(q, r, k + 1)
         \/ \E m \in Suitable(batch[k + 1], q.used) :
               Given(q, r, batch, FALSE, k + 1, m)
  BY <1>1, GiveCases
<1>3. PICK a, left, u : a = q.allocated /\ left = q.unallocated /\ u = q.used
  OBVIOUS
<1>4. RealAfter(batch, base, a, left, u, k)
  BY <1>3 DEF RealResult
<1>5. CASE Suitable(batch[k + 1], q.used) = {} /\ LeftOver(q, r, k + 1)
  <2>1. RealAfter(batch, base, a, left \cup {k + 1}, u, k + 1)
    BY <1>3, <1>4, <1>5, RealLeftOver
  <2> QED
    BY <1>2, <1>3, <1>5, <2>1 DEF RealResult, LeftOver
<1>6. ASSUME NEW m \in Suitable(batch[k + 1], q.used),
             Given(q, r, batch, FALSE, k + 1, m)
      PROVE  RealResult(batch, base, r, k + 1)
  <2>1. PICK t : t = [to |-> batch[k + 1], from |-> m]
    OBVIOUS
  <2>2. m \in Mailbox
    BY DEF Suitable, Available
  <2>3. t \in Task /\ t.from = m
    BY <1>1, <2>1, <2>2 DEF Task
  <2>4. PICK v : v = [u EXCEPT ![m] = @ + 1]
    OBVIOUS
  <2>5. r.allocated = Append(a, t) /\ r.unallocated = left /\ r.used = v
    BY <1>3, <1>6, <2>1, <2>4 DEF Given
  <2>6. m \in Suitable(batch[k + 1], u)
    BY <1>3
  <2>7. RealAfter(batch, base, Append(a, t), left, v, k + 1)
    BY <1>4, <2>3, <2>4, <2>6, RealGiven
  <2> QED
    BY <1>2, <2>5, <2>7 DEF RealResult
<1> QED
  BY <1>2, <1>5, <1>6

\* A whole batch.
LEMMA RealBatch ==
    ASSUME BoxTypes, NEW batch \in Seq(Address), NEW base \in Seq(Task),
           Counted(base)
    PROVE  RealResult(batch, base, Allocation(batch, FALSE), Len(batch))
<1>1. PICK r : /\ r[0] = Start
               /\ \A k \in 1..Len(batch) : r[k] = Give(batch, FALSE, r[k - 1], k)
               /\ Allocation(batch, FALSE) = r[Len(batch)]
  BY AllocationSteps
<1> DEFINE N == Len(batch)
           Bad == {k \in 0..N : ~RealResult(batch, base, r[k], k)}
<1>2. N \in Nat /\ Bad \in SUBSET Nat
  OBVIOUS
<1>3. Bad = {}
  <2> SUFFICES ASSUME Bad # {} PROVE FALSE
    OBVIOUS
  <2>1. PICK k \in Bad : \A j \in Bad : k <= j
    <3> HIDE DEF Bad
    <3> QED
      BY <1>2, LeastNumber
  <2>2. k \in 0..N /\ ~RealResult(batch, base, r[k], k)
    OBVIOUS
  <2>3. k # 0
    BY <1>1, <2>2, RealStart, StartTypes DEF RealResult
  <2>4. PICK i \in Nat : k = i + 1 /\ i + 1 <= Len(batch)
    <3>1. k - 1 \in Nat /\ k = (k - 1) + 1 /\ k <= Len(batch)
      BY <1>2, <2>2, <2>3
    <3> QED
      BY <3>1
  <2>5. RealResult(batch, base, r[i], i)
    <3>1. i \in 0..N /\ ~(k <= i)
      BY <1>2, <2>4
    <3> QED
      BY <2>1, <3>1
  <2>6. r[i + 1] = Give(batch, FALSE, r[i], i + 1)
    <3>1. k \in 1..Len(batch) /\ k - 1 = i
      BY <2>2, <2>4
    <3> QED
      BY <1>1, <2>4, <3>1
  <2> HIDE DEF Bad
  <2>7. PICK u, v : u = r[i] /\ v = r[i + 1]
    OBVIOUS
  <2>8. RealResult(batch, base, v, i + 1)
    BY <2>4, <2>5, <2>6, <2>7, RealStep
  <2> QED
    BY <2>2, <2>4, <2>7, <2>8
<1>4. N \in 0..N
  BY <1>2
<1> QED
  BY <1>1, <1>3, <1>4

\* A dry run counts nothing: whoever it leaves over is suited by no mailbox
\* from the start.
DryResult(batch, q, k) ==
    /\ q \in Result
    /\ q.used = Start.used
    /\ \A j \in q.unallocated : j \in 1..k /\ Suitable(batch[j], Start.used) = {}

LEMMA DryStep ==
    ASSUME BoxTypes, NEW batch \in Seq(Address), NEW k \in Nat,
           k + 1 <= Len(batch), NEW q, NEW r,
           r = Give(batch, TRUE, q, k + 1), DryResult(batch, q, k)
    PROVE  DryResult(batch, r, k + 1)
<1>1. k + 1 \in 1..Len(batch) /\ q \in Result
  BY DEF DryResult
<1>2. /\ r \in Result
      /\ \/ Suitable(batch[k + 1], q.used) = {} /\ LeftOver(q, r, k + 1)
         \/ \E m \in Suitable(batch[k + 1], q.used) :
               Given(q, r, batch, TRUE, k + 1, m)
  BY <1>1, GiveCases
<1>3. /\ r.used = q.used
      /\ \/ r.unallocated = q.unallocated
         \/ /\ r.unallocated = q.unallocated \cup {k + 1}
            /\ Suitable(batch[k + 1], q.used) = {}
  BY <1>2 DEF LeftOver, Given
<1>4. PICK left, right, u, v : /\ left = q.unallocated /\ right = r.unallocated
                               /\ u = q.used /\ v = Start.used
  OBVIOUS
<1>5. u = v /\ \A j \in left : j \in 1..k /\ Suitable(batch[j], v) = {}
  BY <1>4 DEF DryResult
<1>6. ASSUME NEW j \in right PROVE j \in 1..(k + 1) /\ Suitable(batch[j], v) = {}
  <2>1. right = left \/ (right = left \cup {k + 1} /\ Suitable(batch[k + 1], u) = {})
    BY <1>3, <1>4
  <2>2. CASE j \in left
    BY <1>5, <2>2
  <2>3. CASE j = k + 1 /\ Suitable(batch[k + 1], u) = {}
    BY <1>5, <2>3
  <2> QED
    BY <1>6, <2>1, <2>2, <2>3
<1> QED
  BY <1>2, <1>3, <1>4, <1>5, <1>6 DEF DryResult

LEMMA DryBatch ==
    ASSUME BoxTypes, NEW batch \in Seq(Address)
    PROVE  DryResult(batch, Allocation(batch, TRUE), Len(batch))
<1>1. PICK r : /\ r[0] = Start
               /\ \A k \in 1..Len(batch) : r[k] = Give(batch, TRUE, r[k - 1], k)
               /\ Allocation(batch, TRUE) = r[Len(batch)]
  BY AllocationSteps
<1> DEFINE N == Len(batch)
           Bad == {k \in 0..N : ~DryResult(batch, r[k], k)}
<1>2. N \in Nat /\ Bad \in SUBSET Nat
  OBVIOUS
<1>3. Bad = {}
  <2> SUFFICES ASSUME Bad # {} PROVE FALSE
    OBVIOUS
  <2>1. PICK k \in Bad : \A j \in Bad : k <= j
    <3> HIDE DEF Bad
    <3> QED
      BY <1>2, LeastNumber
  <2>2. k \in 0..N /\ ~DryResult(batch, r[k], k)
    OBVIOUS
  <2>3. k # 0
    <3>1. Start.unallocated = {}
      BY DEF Start
    <3>2. DryResult(batch, Start, 0)
      BY <3>1, StartTypes DEF DryResult
    <3> QED
      BY <1>1, <2>2, <3>2
  <2>4. PICK i \in Nat : k = i + 1 /\ i + 1 <= Len(batch)
    <3>1. k - 1 \in Nat /\ k = (k - 1) + 1 /\ k <= Len(batch)
      BY <1>2, <2>2, <2>3
    <3> QED
      BY <3>1
  <2>5. DryResult(batch, r[i], i)
    <3>1. i \in 0..N /\ ~(k <= i)
      BY <1>2, <2>4
    <3> QED
      BY <2>1, <3>1
  <2>6. r[i + 1] = Give(batch, TRUE, r[i], i + 1)
    <3>1. k \in 1..Len(batch) /\ k - 1 = i
      BY <2>2, <2>4
    <3> QED
      BY <1>1, <2>4, <3>1
  <2> HIDE DEF Bad
  <2>7. PICK u, v : u = r[i] /\ v = r[i + 1]
    OBVIOUS
  <2>8. DryResult(batch, v, i + 1)
    BY <2>4, <2>5, <2>6, <2>7, DryStep
  <2> QED
    BY <2>2, <2>4, <2>7, <2>8
<1>4. N \in 0..N
  BY <1>2
<1> QED
  BY <1>1, <1>3, <1>4

-----------------------------------------------------------------------------
(* The caps.  The counters bound what a mailbox is given only because they  *)
(* agree with the tasks made from it: that is the invariant.               *)

CapInv == TypeOK /\ Counted(tasks)

LEMMA CapInit == Init => CapInv
<1> SUFFICES ASSUME Init PROVE CapInv
  OBVIOUS
<1>1. box \in [Mailbox -> Box] /\ \A m \in Mailbox : box[m].used = 0
  BY DEF Init, BoxesInit, Box, Health
<1>2. tasks = <<>> /\ tasks \in Seq(Task) /\ Len(tasks) = 0
  BY DEF Init
<1>3. ASSUME NEW m PROVE Count(tasks, m) = 0
  <2>1. {i \in DOMAIN tasks : tasks[i].from = m} = {}
    BY <1>2
  <2> QED
    BY <2>1, FS_EmptySet DEF Count
<1>4. pauses \in [Scope -> Pause] /\ mails \in [1..MaxTasks -> 0..MaxMails]
  BY SendAssumption DEF Init, Pause
<1>5. 0 <= DailyCap /\ 0 <= HourlyCap /\ Len(tasks) <= MaxTasks
  BY <1>2, MailboxAssumption, SendAssumption
<1> QED
  BY <1>1, <1>2, <1>3, <1>4, <1>5 DEF Init, CapInv, TypeOK, Counted

\* A batch.
LEMMA CapAllocate ==
    ASSUME CapInv, NEW batch \in Batches, Allocate(batch)
    PROVE  CapInv'
<1>1. /\ BoxTypes /\ batch \in Seq(Address) /\ tasks \in Seq(Task)
      /\ Counted(tasks)
  BY SendAssumption DEF CapInv, TypeOK, BoxTypes
<1>2. RealResult(batch, tasks, Allocation(batch, FALSE), Len(batch))
  BY <1>1, RealBatch
<1>3. PICK q, a, u, left : /\ q = Allocation(batch, FALSE)
                           /\ a = q.allocated /\ u = q.used /\ left = q.unallocated
  OBVIOUS
<1>4. RealAfter(batch, tasks, a, left, u, Len(batch))
  BY <1>2, <1>3 DEF RealResult
<1>5. /\ box' = [m \in Mailbox |-> [box[m] EXCEPT !.used = u[m]]]
      /\ tasks' = tasks \o a
      /\ Len(tasks) + Len(a) <= MaxTasks
      /\ UNCHANGED <<entries, pauses, approved, mails, stopped, breached>>
  BY <1>3 DEF Allocate
<1>6. /\ a \in Seq(Task) /\ u \in [Mailbox -> Nat] /\ Len(a) <= Len(batch)
      /\ \A m \in Mailbox : /\ Count(tasks \o a, m) = u[m]
                            /\ u[m] <= DailyCap /\ u[m] <= HourlyCap
  BY <1>4 DEF RealAfter
<1>7. /\ tasks' \in Seq(Task) /\ Len(tasks') <= MaxTasks
      /\ DOMAIN tasks \subseteq DOMAIN tasks'
  <2>1. /\ Len(tasks) \in Nat /\ Len(a) \in Nat /\ Len(batch) \in Nat
        /\ MaxTasks \in Nat /\ Len(tasks \o a) = Len(tasks) + Len(a)
        /\ tasks \o a \in Seq(Task)
    BY <1>1, <1>6, SendAssumption
  <2>2. DOMAIN tasks = 1..Len(tasks) /\ DOMAIN (tasks \o a) = 1..Len(tasks \o a)
    BY <1>1, <2>1
  <2> QED
    BY <1>5, <1>6, <2>1, <2>2
<1>8. box' \in [Mailbox -> Box] /\ \A m \in Mailbox : box'[m].used = u[m]
  <2>1. \A m \in Mailbox : box[m] \in Box /\ u[m] \in Nat
    BY <1>1, <1>6 DEF BoxTypes
  <2>2. \A m \in Mailbox : /\ [box[m] EXCEPT !.used = u[m]] \in Box
                           /\ [box[m] EXCEPT !.used = u[m]].used = u[m]
    BY <2>1 DEF Box
  <2> QED
    BY <1>5, <2>2
<1>9. TypeOK'
  BY <1>5, <1>7, <1>8 DEF CapInv, TypeOK
<1>10. Counted(tasks)'
  BY <1>5, <1>6, <1>8 DEF Counted
<1> QED
  BY <1>9, <1>10 DEF CapInv

\* Everything else keeps the tasks and the counters.
LEMMA CapInductive == CapInv /\ [Next]_vars => CapInv'
<1> SUFFICES ASSUME CapInv, [Next]_vars PROVE CapInv'
  OBVIOUS
<1> USE DEF CapInv
<1>1. ASSUME UNCHANGED tasks, box' \in [Mailbox -> Box],
             \A m \in Mailbox : box'[m].used = box[m].used
      PROVE  Counted(tasks)'
  BY <1>1 DEF Counted, Count
<1>2. CASE UNCHANGED vars
  BY <1>1, <1>2 DEF vars, TypeOK, Counted
<1>3. ASSUME NEW batch \in Batches, Allocate(batch) PROVE CapInv'
  BY <1>3, CapAllocate
<1>4. ASSUME NEW m \in Mailbox, Operate(m) PROVE CapInv'
  <2>1. PICK b \in Box : box' = [box EXCEPT ![m] = b] /\ b.used = box[m].used
    <3>1. PICK c \in Box : c = box[m]
      BY DEF TypeOK
    <3>2. /\ \A st \in {"active", "paused"} : [c EXCEPT !.status = st] \in Box
          /\ \A st : [c EXCEPT !.status = st].used = c.used
          /\ \A h \in Health : [c EXCEPT !.health = h] \in Box
          /\ \A h : [c EXCEPT !.health = h].used = c.used
      BY DEF Box
    <3>3. CASE PauseMailbox(m)
      <4>1. box' = [box EXCEPT ![m] = [c EXCEPT !.status = "paused"]]
        BY <3>1, <3>3 DEF PauseMailbox
      <4> QED
        BY <3>1, <3>2, <4>1
    <3>4. CASE ResumeMailbox(m)
      <4>1. box' = [box EXCEPT ![m] = [c EXCEPT !.status = "active"]]
        BY <3>1, <3>4 DEF ResumeMailbox
      <4> QED
        BY <3>1, <3>2, <4>1
    <3>5. ASSUME NEW h \in Health, HealthChanges(m, h)
          PROVE  \E b \in Box : box' = [box EXCEPT ![m] = b] /\ b.used = box[m].used
      <4>1. box' = [box EXCEPT ![m] = [c EXCEPT !.health = h]]
        BY <3>1, <3>5 DEF HealthChanges
      <4> QED
        BY <3>1, <3>2, <4>1
    <3> QED
      BY <1>4, <3>3, <3>4, <3>5 DEF Operate
  <2>2. /\ box' \in [Mailbox -> Box]
        /\ \A n \in Mailbox : box'[n].used = box[n].used
    BY <2>1 DEF TypeOK
  <2>3. UNCHANGED <<entries, pauses, tasks, approved, mails, stopped, breached>>
    BY <1>4 DEF Operate
  <2> QED
    BY <1>1, <2>2, <2>3 DEF TypeOK
<1>5. ASSUME UNCHANGED <<tasks, box>>, TypeOK' PROVE CapInv'
  BY <1>1, <1>5 DEF TypeOK
<1>6. ASSUME NEW i \in DOMAIN tasks, Approve(i) PROVE CapInv'
  BY <1>5, <1>6 DEF Approve, TypeOK
<1>7. ASSUME NEW i \in DOMAIN tasks, Send(i) PROVE CapInv'
  <2>1. i \in 1..MaxTasks
    <3>1. i \in 1..Len(tasks) /\ Len(tasks) \in Nat /\ Len(tasks) <= MaxTasks
      BY DEF TypeOK
    <3> QED
      BY <3>1, SendAssumption
  <2>2. mails' \in [1..MaxTasks -> 0..MaxMails]
    <3>1. mails[i] \in 0..MaxMails /\ mails[i] < MaxMails
      BY <1>7, <2>1 DEF Send, TypeOK
    <3>2. mails[i] + 1 \in 0..MaxMails
      BY <3>1, SendAssumption
    <3> QED
      BY <1>7, <3>2 DEF Send, TypeOK
  <2> QED
    BY <1>5, <1>7, <2>2 DEF Send, TypeOK
<1>8. ASSUME NEW i \in DOMAIN tasks, tasks[i] \in Task
      PROVE  tasks[i].to[1] \in Person
  BY <1>8 DEF Task, Address
<1>9. \A named \in Named : MakeKey(named) \in Key
  BY DEF Named, MakeKey, Key, Address
<1>10. ASSUME NEW i \in DOMAIN tasks, NEW spelling \in Spelling,
              Refused(i, spelling)
       PROVE  CapInv'
  <2>1. tasks[i].to[1] \in Person
    BY <1>8 DEF TypeOK
  <2>2. <<"email", tasks[i].to[1]>> \in Key
    BY <2>1 DEF Key
  <2> QED
    BY <1>5, <1>10, <2>1, <2>2 DEF Refused, AddEntry, MakeKey, TypeOK
<1>11. ASSUME NEW named \in Admin, Suppress(named) PROVE CapInv'
  BY <1>5, <1>9, <1>11, SendAssumption DEF Suppress, AddEntry, TypeOK
<1>12. ASSUME NEW named \in Admin, Readmit(named) PROVE CapInv'
  BY <1>5, <1>12 DEF Readmit, RemoveEntry, TypeOK
<1>13. ASSUME Import PROVE CapInv'
  BY <1>5, <1>9, <1>13, SendAssumption DEF Import, BulkImport, TypeOK
<1>14. ASSUME NEW k \in Scope, FindBreach(k) PROVE CapInv'
  BY <1>5, <1>14 DEF FindBreach, Breach, PauseScope, Pause, TypeOK
<1>15. ASSUME NEW k \in Scope, OperatorActs(k) PROVE CapInv'
  BY <1>5, <1>15 DEF OperatorActs, PauseScope, ResumeScope, Pause, TypeOK
<1>16. ASSUME NEW k \in Scope, TimePasses(k) PROVE CapInv'
  BY <1>5, <1>16 DEF TimePasses, Lapse, Pause, TypeOK
<1>17. Watched \subseteq Scope
  BY SendAssumption
<1> QED
  BY <1>2, <1>3, <1>4, <1>6, <1>7, <1>10, <1>11, <1>12, <1>13, <1>14, <1>15,
     <1>16, <1>17 DEF Next

\* The values stay in their types: the tasks of every allocation are of the
\* batch's people and the pool's mailboxes.
THEOREM TypeCorrect == Spec => []TypeOK
<1>1. CapInv => TypeOK
  BY DEF CapInv
<1> QED
  BY <1>1, CapInit, CapInductive, PTL DEF Spec

\* No mailbox is ever given more recipients than either cap, for any pool,
\* caps and batches.
THEOREM CapsAlwaysHold == Spec => []CapsHold
<1>1. CapInv => CapsHold
  BY DEF CapInv, Counted, Count, CapsHold
<1> QED
  BY <1>1, CapInit, CapInductive, PTL DEF Spec

\* Whoever is left over finds the mailboxes that suit full, and a dry run
\* leaves over nobody that the real one serves.
THEOREM LeftOverFindFull == Spec => []LeftOverOnlyWhenFull
<1>1. CapInv => LeftOverOnlyWhenFull
  <2> SUFFICES ASSUME CapInv, NEW batch \in Batches
               PROVE  LET real == Allocation(batch, FALSE)
                          dry == Allocation(batch, TRUE)
                      IN  /\ \A n \in real.unallocated : \A m \in Available :
                                \/ MailboxDomain[m] = DomainPart(batch[n])
                                \/ ~Free(real.used[m])
                          /\ dry.unallocated \subseteq real.unallocated
    BY DEF LeftOverOnlyWhenFull
  <2>1. PICK real, dry : real = Allocation(batch, FALSE) /\ dry = Allocation(batch, TRUE)
    OBVIOUS
  <2>2. /\ BoxTypes /\ batch \in Seq(Address) /\ tasks \in Seq(Task)
        /\ Counted(tasks)
    BY SendAssumption DEF CapInv, TypeOK, BoxTypes
  <2>3. RealResult(batch, tasks, real, Len(batch)) /\ DryResult(batch, dry, Len(batch))
    BY <2>1, <2>2, RealBatch, DryBatch
  <2>4. \A n \in real.unallocated : \A m \in Available :
           \/ MailboxDomain[m] = DomainPart(batch[n])
           \/ ~Free(real.used[m])
    BY <2>3 DEF RealResult, RealAfter
  <2>5. dry.unallocated \subseteq real.unallocated
    BY <2>3 DEF RealResult, RealAfter, DryResult
  <2> QED
    BY <2>1, <2>4, <2>5
<1> QED
  BY <1>1, CapInit, CapInductive, PTL DEF Spec
=============================================================================
