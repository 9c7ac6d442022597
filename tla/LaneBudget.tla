------------------------------ MODULE LaneBudget ------------------------------
(***************************************************************************)
(* The budget gate of one lane and scope (src/services/lanes.py) as API     *)
(* requests and promoting workers use it, each in a database session of     *)
(* its own.                                                                *)
(*                                                                         *)
(* The table has no unique key on lane and scope.  A session reads the row  *)
(* without a lock, keeps it as an object that a second SELECT does not      *)
(* refresh, and its flush writes the columns it assigned, as absolute       *)
(* values, once it has the row lock.  Redis moves the item at once and      *)
(* knows nothing of the transaction.                                       *)
(***************************************************************************)
EXTENDS Integers, FiniteSets, FiniteSetsExt

CONSTANTS
    Session,      \* database sessions, one operation at a time each
    Seed,         \* the id of a row that is there from the start, or never
    Item,         \* payloads in the queue the lane promotes from
    Limits,       \* bound: the pairs <<daily, hourly>> that set_budget sets
    DefaultLimits,\* the defaults of the two columns
    Units,        \* bound: the counts that consume is called with
    HourLength,   \* 3600 seconds, in ticks of the clock
    DayLength,    \* a calendar day, in ticks
    MaxNow,       \* bound: the last tick
    MaxFailures,  \* bound: sessions that fail or die under way
    NoRow, NoItem

ASSUME LaneAssumption ==
    /\ Seed \notin Session /\ NoItem \notin Item
    /\ Limits \subseteq Nat \X Nat /\ DefaultLimits \in Limits
    /\ Units \subseteq Nat
    /\ HourLength \in Nat \ {0} /\ DayLength \in Nat \ {0}
    /\ MaxNow \in Nat /\ MaxFailures \in Nat

VARIABLES
    table,        \* table[r]: the committed lane_budgets row r of this lane
    txn,          \* txn[s]: what session s has read, computed and written
    place,        \* place[i]: the queue that holds payload i
    now,          \* the clock
    granted,      \* granted[t]: units handed out on the clock reading t
    failures      \* sessions that failed with an operation under way

vars == <<table, txn, place, now, granted, failures>>

Time == 0..MaxNow

RowId == Session \cup {Seed}

Budget ==
    [daily : Nat, hourly : Nat, today : Nat, hour : Nat,
     dayAt : Time, hourAt : Time, pause : BOOLEAN]

ASSUME NoRowAssumption == NoRow \notin Budget

Idle == [phase |-> "idle"]

\* "writing", "checking" and "spending" are before a flush, "written",
\* "checked" and "spent" after it; a promotion pops when it is checked and
\* pushes when it has spent.
Txn ==
    [phase : {"writing", "written", "checking", "checked", "popped",
              "spending", "spent", "pushed"},
     id : RowId, budget : Budget, dirty : SUBSET DOMAIN [daily |-> 0,
        hourly |-> 0, today |-> 0, hour |-> 0, dayAt |-> 0, hourAt |-> 0,
        pause |-> 0],
     locked : BOOLEAN, item : Item \cup {NoItem}, units : Nat, at : Time]

TypeOK ==
    /\ table \in [RowId -> Budget \cup {NoRow}]
    /\ txn \in [Session -> Txn \cup {Idle}]
    /\ place \in [Item -> {"from", "hand", "to", "lost"}]
    /\ now \in Time
    /\ granted \in [Time -> Nat]
    /\ failures \in 0..MaxFailures

\* The column defaults; the reset stamps are the database's now().
NewBudget(t) ==
    [daily |-> DefaultLimits[1], hourly |-> DefaultLimits[2],
     today |-> 0, hour |-> 0, dayAt |-> t, hourAt |-> t, pause |-> FALSE]

Init ==
    /\ \E b \in {NewBudget(0), NoRow} :
          table = [r \in RowId |-> IF r = Seed THEN b ELSE NoRow]
    /\ txn = [s \in Session |-> Idle]
    /\ place = [i \in Item |-> "from"]
    /\ now = 0
    /\ granted = [t \in Time |-> 0]
    /\ failures = 0

Day(t) == t \div DayLength

Changed(b, c) == {f \in DOMAIN b : b[f] # c[f]}

\* _maybe_reset: the day by its date, the hour by the time elapsed.
Reset(b, t) ==
    LET d == IF Day(b.dayAt) < Day(t)
               THEN [b EXCEPT !.today = 0, !.dayAt = t] ELSE b
    IN  IF t - d.hourAt >= HourLength
          THEN [d EXCEPT !.hour = 0, !.hourAt = t] ELSE d

Affordable(b, n) ==
    ~b.pause /\ b.today + n <= b.daily /\ b.hour + n <= b.hourly

Spend(b, n) == [b EXCEPT !.today = @ + n, !.hour = @ + n]

Present == {r \in RowId : table[r] # NoRow}

\* The row an operation of s works on: the one there is, or one it inserts.
RowOf(s) == IF Present = {} THEN s ELSE CHOOSE r \in Present : TRUE

Loaded(s) == IF Present = {} THEN NewBudget(now) ELSE table[RowOf(s)]

\* get_or_create_budget and the assignments that follow it.  With two rows
\* scalar_one_or_none raises and the operation leaves no trace.
Open(s, phase, b, dirty, n) ==
    /\ txn[s] = Idle
    /\ Cardinality(Present) <= 1
    /\ txn' = [txn EXCEPT ![s] =
          [phase |-> phase, id |-> RowOf(s), budget |-> b, dirty |-> dirty,
           locked |-> FALSE, item |-> NoItem, units |-> n, at |-> now]]
    /\ UNCHANGED <<table, place, now, granted, failures>>

-----------------------------------------------------------------------------
(* The operations of the API, up to their flush.                           *)

GetBudget(s) == Open(s, "writing", Loaded(s), {}, 0)

SetBudget(s, l) ==
    LET b == [Loaded(s) EXCEPT !.daily = l[1], !.hourly = l[2]]
    IN  Open(s, "writing", b, Changed(Loaded(s), b), 0)

SetPause(s, p) ==
    LET b == [Loaded(s) EXCEPT !.pause = p]
    IN  Open(s, "writing", b, Changed(Loaded(s), b), 0)

\* Mutant of Consume: the hour is not looked at.
ConsumeByDay(s, n) ==
    LET b == Reset(Loaded(s), now)
        c == Spend(b, n)
    IN  /\ ~b.pause /\ b.today + n <= b.daily
        /\ Open(s, "writing", c, Changed(Loaded(s), b) \cup Changed(b, c), n)

\* Mutant of Consume: the limits are compared with what was used before.
ConsumeLate(s, n) ==
    LET b == Reset(Loaded(s), now)
        c == Spend(b, n)
    IN  /\ ~b.pause /\ b.today <= b.daily /\ b.hour + n <= b.hourly
        /\ Open(s, "writing", c, Changed(Loaded(s), b) \cup Changed(b, c), n)

\* consume; BudgetExhausted is answered 429 and rolled back, no step.
Consume(s, n) ==
    LET b == Reset(Loaded(s), now)
        c == Spend(b, n)
    IN  /\ Affordable(b, n)
        /\ Open(s, "writing", c, Changed(Loaded(s), b) \cup Changed(b, c), n)

-----------------------------------------------------------------------------
(* try_promote: check, pop, consume, push.                                 *)

\* Mutant of CheckBudget: the pause is left to consume.
CheckBudgetUnpaused(s) ==
    LET b == Reset(Loaded(s), now)
        passes == b.today < b.daily /\ b.hour < b.hourly
    IN  Open(s, IF passes THEN "checking" ELSE "writing", b,
             Changed(Loaded(s), b), IF passes THEN 1 ELSE 0)

\* check_budget of a promotion.  One that is refused returns False, its
\* resets flushed, and the caller commits or not.
CheckBudget(s) ==
    LET b == IF Loaded(s).pause THEN Loaded(s) ELSE Reset(Loaded(s), now)
        passes == Affordable(b, 1)
    IN  Open(s, IF passes THEN "checking" ELSE "writing", b,
             Changed(Loaded(s), b), IF passes THEN 1 ELSE 0)

\* rpop.  An empty queue ends the promotion: the caller commits or not.
Pop(s, i) ==
    /\ txn[s].phase = "checked"
    /\ place[i] = "from"
    /\ place' = [place EXCEPT ![i] = "hand"]
    /\ txn' = [txn EXCEPT ![s].phase = "popped", ![s].item = i]
    /\ UNCHANGED <<table, now, granted, failures>>

PopEmpty(s) ==
    /\ txn[s].phase = "checked"
    /\ \A i \in Item : place[i] # "from"
    /\ txn' = [txn EXCEPT ![s].phase = "written", ![s].units = 0]
    /\ UNCHANGED <<table, place, now, granted, failures>>

\* The rows the second SELECT finds, the session's own insert included.
Found(s) == Present \cup {txn[s].id}

\* consume of a promotion: the same object, the clock read again.
SpendHeld(s) ==
    /\ txn[s].phase = "popped"
    /\ Cardinality(Found(s)) = 1
    /\ LET b == Reset(txn[s].budget, now)
           c == Spend(b, 1)
       IN /\ Affordable(b, 1)
          /\ txn' = [txn EXCEPT
               ![s].phase = "spending", ![s].budget = c, ![s].at = now,
               ![s].dirty = @ \cup Changed(txn[s].budget, b) \cup Changed(b, c)]
    /\ UNCHANGED <<table, place, now, granted, failures>>

\* consume of a promotion raises, two rows found or the budget exhausted:
\* the popped item is in no queue any more.
SpendRaises(s) ==
    /\ txn[s].phase = "popped"
    /\ \/ Cardinality(Found(s)) > 1
       \/ ~Affordable(Reset(txn[s].budget, now), 1)
    /\ place' = [place EXCEPT ![txn[s].item] = "lost"]
    /\ txn' = [txn EXCEPT ![s] = Idle]
    /\ UNCHANGED <<table, now, granted, failures>>

\* enqueue: lpush takes effect before the caller's commit.
Push(s) ==
    /\ txn[s].phase = "spent"
    /\ place' = [place EXCEPT ![txn[s].item] = "to"]
    /\ granted' = [granted EXCEPT ![txn[s].at] = @ + 1]
    /\ txn' = [txn EXCEPT ![s].phase = "pushed"]
    /\ UNCHANGED <<table, now, failures>>

-----------------------------------------------------------------------------
(* The session's flushes and the end of its transaction.                   *)

\* flush: an UPDATE of assigned columns waits for the row lock; without
\* any, nothing is sent.  Nobody else sees a row of the session's own.
Flush(s) ==
    /\ txn[s].phase \in {"writing", "checking", "spending"}
    /\ txn[s].dirty # {} =>
          \A o \in Session \ {s} : ~(txn[o] # Idle /\ txn[o].locked
                                     /\ txn[o].id = txn[s].id)
    /\ txn' = [txn EXCEPT
         ![s].phase = CASE @ = "writing" -> "written"
                        [] @ = "checking" -> "checked"
                        [] @ = "spending" -> "spent",
         ![s].locked = txn[s].dirty # {}]
    /\ UNCHANGED <<table, place, now, granted, failures>>

\* Mutant of Commit: the whole object is written, not the assigned columns.
CommitObject(s) ==
    /\ txn[s].phase \in {"written", "pushed"}
    /\ table' = [table EXCEPT ![txn[s].id] = txn[s].budget]
    /\ granted' = IF txn[s].phase = "written"
                    THEN [granted EXCEPT ![txn[s].at] = @ + txn[s].units]
                    ELSE granted
    /\ txn' = [txn EXCEPT ![s] = Idle]
    /\ UNCHANGED <<place, now, failures>>

\* The caller commits; a consume request is answered after that.
Commit(s) ==
    /\ txn[s].phase \in {"written", "pushed"}
    /\ table' = [table EXCEPT ![txn[s].id] =
         IF @ = NoRow
           THEN txn[s].budget
           ELSE [f \in DOMAIN @ |->
                   IF f \in txn[s].dirty THEN txn[s].budget[f] ELSE @[f]]]
    /\ granted' = IF txn[s].phase = "written"
                    THEN [granted EXCEPT ![txn[s].at] = @ + txn[s].units]
                    ELSE granted
    /\ txn' = [txn EXCEPT ![s] = Idle]
    /\ UNCHANGED <<place, now, failures>>

\* An error or a death under way: the database rolls back, Redis does not.
Rollback(s) ==
    /\ txn[s] # Idle
    /\ failures < MaxFailures
    /\ failures' = failures + 1
    /\ place' = [i \in Item |-> IF place[i] = "hand" /\ i = txn[s].item
                                  THEN "lost" ELSE place[i]]
    /\ txn' = [txn EXCEPT ![s] = Idle]
    /\ UNCHANGED <<table, now, granted>>

Tick ==
    /\ now < MaxNow
    /\ now' = now + 1
    /\ UNCHANGED <<table, txn, place, granted, failures>>

Next ==
    \/ Tick
    \/ \E s \in Session :
          \/ GetBudget(s)
          \/ \E l \in Limits : SetBudget(s, l)
          \/ \E p \in BOOLEAN : SetPause(s, p)
          \/ \E n \in Units : Consume(s, n)
          \/ CheckBudget(s)
          \/ \E i \in Item : Pop(s, i)
          \/ PopEmpty(s)
          \/ SpendHeld(s)
          \/ SpendRaises(s)
          \/ Push(s)
          \/ Flush(s)
          \/ Commit(s)
          \/ Rollback(s)

Spec == Init /\ [][Next]_vars

-----------------------------------------------------------------------------
GrantedIn(S) == MapThenSumSet(LAMBDA t : granted[t], S \cap Time)

\* One session at a time hands out no more on a calendar day than the greatest
\* daily limit the lane is ever given, but for promotions whose caller did not
\* commit: no reset, no change of limits and no row made on the way adds units.
DayWithinLimit ==
    \E l \in Limits : \A d \in {Day(t) : t \in Time} :
        GrantedIn({t \in Time : Day(t) = d}) <= l[1] + failures

\* The hour is counted from the first request after the last one ran out,
\* so an hour of the clock spans two countings at the most: one session at a
\* time hands out at most twice the hourly limit in it.
HourWithinTwice ==
    \E l \in Limits : \A t \in Time :
        GrantedIn(t..(t + HourLength - 1)) <= 2 * l[2] + failures

\* The limits and the pause an operator has committed survive the spending
\* that runs beside them: they change only by the commit of a session that
\* assigned that very column.
SettingsSurvive ==
    [][\A r \in RowId : \A f \in {"daily", "hourly", "pause"} :
         table[r] # NoRow /\ table'[r][f] # table[r][f] =>
           \E s \in Session : /\ txn[s] # Idle /\ txn'[s] = Idle
                              /\ f \in txn[s].dirty /\ txn[s].units = 0]_vars

\* Promotions lose an item only when their session fails: with the lane's
\* row there from the start, a budget that was checked before rpop is never
\* found exhausted by the consume after it, whatever other sessions have
\* spent, paused or reset in between.
LostOnlyByFailure ==
    Seed \in Present =>
        Cardinality({i \in Item : place[i] = "lost"}) <= failures
=============================================================================
