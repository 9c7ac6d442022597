-------------------------- MODULE LaneBudgetProofs --------------------------
(***************************************************************************)
(* Proofs about LaneBudget.                                                *)
(***************************************************************************)
EXTENDS LaneBudget, LeastElements, FiniteSetTheorems, TLAPS

-----------------------------------------------------------------------------
(* Sums.  MapThenSumSet is a recursive function over the subsets of a set;  *)
(* what it computes is shown by taking a least counterexample.             *)

Pick(S) == CHOOSE x \in S : TRUE

\* The sum of g over S.
Sum(g, S) == MapThenSumSet(LAMBDA t : g[t], S)

\* f is the function MapThenSumSet defines over the subsets of S.
Adds(f, g, S) ==
    f = [s \in SUBSET S |-> IF s = {} THEN 0 ELSE g[Pick(s)] + f[s \ {Pick(s)}]]

LEMMA SumIsAdds ==
    ASSUME NEW g, NEW S, NEW h, Adds(h, g, S)
    PROVE  \E f : Adds(f, g, S) /\ Sum(g, S) = f[S]
<1> DEFINE f == CHOOSE f : Adds(f, g, S)
<1>1. Adds(f, g, S)
  OBVIOUS
<1>2. Sum(g, S) = f[S]
  BY DEF Sum, MapThenSumSet, MapThenFoldSet, Adds, Pick
<1> QED
  BY <1>1, <1>2

\* Two such functions agree where both are defined.
LEMMA AddsAgree ==
    ASSUME NEW g, NEW A, NEW B, NEW f, NEW h, Adds(f, g, A), Adds(h, g, B),
           NEW S \in SUBSET (A \cap B), IsFiniteSet(S)
    PROVE  f[S] = h[S]
<1> DEFINE Bad == {R \in SUBSET S : f[R] # h[R]}
<1> SUFFICES ASSUME Bad # {} PROVE FALSE
  OBVIOUS
<1>1. PICK R \in Bad : \A Q \in SUBSET R : Q # R => Q \notin Bad
  <2>1. Bad \in SUBSET SUBSET S
    OBVIOUS
  <2> HIDE DEF Bad
  <2> QED
    BY <2>1, LeastSet
<1>2. R \in SUBSET S /\ f[R] # h[R]
  OBVIOUS
<1>3. /\ f[R] = IF R = {} THEN 0 ELSE g[Pick(R)] + f[R \ {Pick(R)}]
      /\ h[R] = IF R = {} THEN 0 ELSE g[Pick(R)] + h[R \ {Pick(R)}]
  BY <1>2 DEF Adds
<1>4. R # {} => Pick(R) \in R
  BY DEF Pick
<1>5. R # {} => f[R \ {Pick(R)}] = h[R \ {Pick(R)}]
  BY <1>1, <1>2, <1>4
<1> QED
  BY <1>2, <1>3, <1>5

\* There is such a function for each finite set.
LEMMA AddsExists ==
    ASSUME NEW g, NEW T, IsFiniteSet(T)
    PROVE  \E f : Adds(f, g, T)
<1> DEFINE Bad == {R \in SUBSET T : ~ \E f : Adds(f, g, R)}
<1> SUFFICES ASSUME Bad # {} PROVE FALSE
  OBVIOUS
<1>1. PICK S \in Bad : /\ IsFiniteSet(S)
                       /\ \A Q \in SUBSET S : Q # S => Q \notin Bad
  <2>1. Bad \in SUBSET SUBSET T
    OBVIOUS
  <2> HIDE DEF Bad
  <2> QED
    BY <2>1, LeastSet
<1>2. \A Q \in SUBSET S : Q # S => \E f : Adds(f, g, Q)
  BY <1>1
<1> DEFINE below == [Q \in SUBSET S |-> CHOOSE f : Adds(f, g, Q)]
           f == [s \in SUBSET S |-> IF s = {} THEN 0
                   ELSE g[Pick(s)] + below[s \ {Pick(s)}][s \ {Pick(s)}]]
<1>3. \A Q \in SUBSET S : Q # S => Adds(below[Q], g, Q)
  BY <1>2
<1>4. \A s \in SUBSET S : s # {} =>
        /\ Pick(s) \in s /\ s \ {Pick(s)} \in SUBSET S /\ s \ {Pick(s)} # S
        /\ IsFiniteSet(s \ {Pick(s)})
  <2> TAKE s \in SUBSET S
  <2>1. s # {} => Pick(s) \in s
    BY DEF Pick
  <2>2. s \ {Pick(s)} \in SUBSET S
    OBVIOUS
  <2>3. IsFiniteSet(s \ {Pick(s)})
    BY <1>1, <2>2, FS_Subset
  <2> QED
    BY <2>1, <2>2, <2>3
<1> HIDE DEF below
<1>5. ASSUME NEW Q \in SUBSET S, Q # S, IsFiniteSet(Q) PROVE f[Q] = below[Q][Q]
  <2>1. below[Q][Q] = IF Q = {} THEN 0 ELSE g[Pick(Q)] + below[Q][Q \ {Pick(Q)}]
    <3>1. Adds(below[Q], g, Q) /\ Q \in SUBSET Q
      BY <1>3, <1>5
    <3> QED
      BY <3>1 DEF Adds
  <2>2. ASSUME Q # {}
        PROVE  below[Q][Q \ {Pick(Q)}] = below[Q \ {Pick(Q)}][Q \ {Pick(Q)}]
    <3> DEFINE R == Q \ {Pick(Q)}
    <3>1. /\ Adds(below[Q], g, Q) /\ Adds(below[R], g, R) /\ IsFiniteSet(R)
          /\ R \in SUBSET (Q \cap R)
      BY <1>3, <1>4, <1>5, <2>2
    <3> HIDE DEF R
    <3>2. below[Q][R] = below[R][R]
      BY <3>1, AddsAgree
    <3> QED
      BY <3>2 DEF R
  <2>3. f[Q] = IF Q = {} THEN 0
               ELSE g[Pick(Q)] + below[Q \ {Pick(Q)}][Q \ {Pick(Q)}]
    OBVIOUS
  <2> HIDE DEF f
  <2> QED
    BY <2>1, <2>2, <2>3
<1>6. \A s \in SUBSET S : s # {} => f[s \ {Pick(s)}] = below[s \ {Pick(s)}][s \ {Pick(s)}]
  <2> HIDE DEF f
  <2> QED
    BY <1>4, <1>5
<1>7. \A s \in SUBSET S :
        f[s] = IF s = {} THEN 0 ELSE g[Pick(s)] + f[s \ {Pick(s)}]
  <2> TAKE s \in SUBSET S
  <2>1. f[s] = IF s = {} THEN 0
               ELSE g[Pick(s)] + below[s \ {Pick(s)}][s \ {Pick(s)}]
    OBVIOUS
  <2> HIDE DEF f
  <2> QED
    BY <1>6, <2>1
<1>8. Adds(f, g, S)
  <2>1. f = [s \in SUBSET S |-> f[s]]
    OBVIOUS
  <2> HIDE DEF f
  <2> QED
    BY <1>7, <2>1 DEF Adds
<1> QED
  BY <1>8

\* The sum of nothing is 0; otherwise it is one number and the sum of the rest.
LEMMA SumStep ==
    ASSUME NEW g, NEW S, IsFiniteSet(S)
    PROVE  /\ S = {} => Sum(g, S) = 0
           /\ S # {} => /\ Pick(S) \in S
                        /\ Sum(g, S) = g[Pick(S)] + Sum(g, S \ {Pick(S)})
<1>1. PICK f : Adds(f, g, S) /\ Sum(g, S) = f[S]
  BY AddsExists, SumIsAdds
<1>2. f[S] = IF S = {} THEN 0 ELSE g[Pick(S)] + f[S \ {Pick(S)}]
  BY <1>1 DEF Adds
<1>3. S # {} => Pick(S) \in S
  BY DEF Pick
<1> DEFINE R == S \ {Pick(S)}
<1>4. IsFiniteSet(R) /\ R \in SUBSET S
  BY FS_RemoveElement
<1> HIDE DEF R
<1>5. PICK h : Adds(h, g, R) /\ Sum(g, R) = h[R]
  BY <1>4, AddsExists, SumIsAdds
<1>6. f[R] = h[R]
  BY <1>1, <1>4, <1>5, AddsAgree
<1> QED
  BY <1>1, <1>2, <1>3, <1>5, <1>6 DEF R

LEMMA SumIsNat ==
    ASSUME NEW T, NEW g \in [T -> Nat], NEW S \in SUBSET T, IsFiniteSet(S)
    PROVE  Sum(g, S) \in Nat
<1> DEFINE Bad == {R \in SUBSET S : Sum(g, R) \notin Nat}
<1> SUFFICES ASSUME Bad # {} PROVE FALSE
  OBVIOUS
<1>1. Bad \in SUBSET SUBSET S
  OBVIOUS
<1>2. PICK R \in Bad : /\ IsFiniteSet(R)
                       /\ \A Q \in SUBSET R : Q # R => Q \notin Bad
  <2> HIDE DEF Bad
  <2> QED
    BY <1>1, LeastSet
<1>3. R \in SUBSET S /\ Sum(g, R) \notin Nat
  OBVIOUS
<1>4. R = {} => Sum(g, R) = 0
  BY <1>2, SumStep
<1>5. R # {} => /\ Pick(R) \in R
                /\ Sum(g, R) = g[Pick(R)] + Sum(g, R \ {Pick(R)})
  BY <1>2, SumStep
<1>6. R # {} => g[Pick(R)] \in Nat /\ Sum(g, R \ {Pick(R)}) \in Nat
  BY <1>2, <1>3, <1>5
<1> QED
  BY <1>3, <1>4, <1>5, <1>6

\* Any element may be taken out first.
LEMMA SumTakeOut ==
    ASSUME NEW T, NEW g \in [T -> Nat], NEW S \in SUBSET T, IsFiniteSet(S),
           NEW x \in S
    PROVE  Sum(g, S) = g[x] + Sum(g, S \ {x})
<1> DEFINE Bad == {R \in SUBSET S : \E y \in R : Sum(g, R) # g[y] + Sum(g, R \ {y})}
<1> SUFFICES ASSUME Bad # {} PROVE FALSE
  OBVIOUS
<1>1. Bad \in SUBSET SUBSET S
  OBVIOUS
<1>2. PICK R \in Bad : /\ IsFiniteSet(R)
                       /\ \A Q \in SUBSET R : Q # R => Q \notin Bad
  <2> HIDE DEF Bad
  <2> QED
    BY <1>1, LeastSet
<1>3. \A Q \in SUBSET R : Q # R =>
        \A y \in Q : Sum(g, Q) = g[y] + Sum(g, Q \ {y})
  BY <1>2
<1>4. PICK y \in R : Sum(g, R) # g[y] + Sum(g, R \ {y})
  OBVIOUS
<1> DEFINE z == Pick(R)
<1>5. z \in R /\ Sum(g, R) = g[z] + Sum(g, R \ {z})
  BY <1>2, <1>4, SumStep
<1> HIDE DEF z, Bad
<1>6. z # y
  BY <1>4, <1>5
<1>7. /\ Sum(g, R \ {z}) = g[y] + Sum(g, (R \ {z}) \ {y})
      /\ Sum(g, R \ {y}) = g[z] + Sum(g, (R \ {y}) \ {z})
  <2>1. /\ R \ {z} \in SUBSET R /\ R \ {z} # R /\ y \in R \ {z}
        /\ R \ {y} \in SUBSET R /\ R \ {y} # R /\ z \in R \ {y}
    BY <1>5, <1>6
  <2> QED
    BY <1>3, <2>1
<1>8. Sum(g, (R \ {z}) \ {y}) = Sum(g, (R \ {y}) \ {z})
  <2>1. (R \ {z}) \ {y} = (R \ {y}) \ {z}
    OBVIOUS
  <2> QED
    BY <2>1, Zenon
<1>9. g[y] \in Nat /\ g[z] \in Nat /\ Sum(g, (R \ {y}) \ {z}) \in Nat
  <2>1. R \in SUBSET S
    BY <1>1
  <2>2. IsFiniteSet((R \ {y}) \ {z}) /\ (R \ {y}) \ {z} \in SUBSET T
    BY <1>2, <2>1, FS_Subset
  <2> QED
    BY <1>5, <2>1, <2>2, SumIsNat
<1> QED
  BY <1>4, <1>5, <1>7, <1>8, <1>9

\* The sum depends on the numbers that are added and on no others.
LEMMA SumSame ==
    ASSUME NEW g, NEW h, NEW S, IsFiniteSet(S), \A t \in S : g[t] = h[t]
    PROVE  Sum(g, S) = Sum(h, S)
<1> DEFINE Bad == {R \in SUBSET S : Sum(g, R) # Sum(h, R)}
<1> SUFFICES ASSUME Bad # {} PROVE FALSE
  OBVIOUS
<1>1. Bad \in SUBSET SUBSET S
  OBVIOUS
<1>2. PICK R \in Bad : /\ IsFiniteSet(R)
                       /\ \A Q \in SUBSET R : Q # R => Q \notin Bad
  <2> HIDE DEF Bad
  <2> QED
    BY <1>1, LeastSet
<1>3. R \in SUBSET S /\ Sum(g, R) # Sum(h, R)
  OBVIOUS
<1>4. R = {} => Sum(g, R) = 0 /\ Sum(h, R) = 0
  BY <1>2, SumStep
<1>5. R # {} => /\ Pick(R) \in R
                /\ Sum(g, R) = g[Pick(R)] + Sum(g, R \ {Pick(R)})
                /\ Sum(h, R) = h[Pick(R)] + Sum(h, R \ {Pick(R)})
  BY <1>2, SumStep
<1>6. R # {} => Sum(g, R \ {Pick(R)}) = Sum(h, R \ {Pick(R)})
  BY <1>2, <1>3, <1>5
<1> QED
  BY <1>3, <1>4, <1>5, <1>6

\* Numbers that are all 0 add up to 0.
LEMMA SumOfNone ==
    ASSUME NEW g, NEW S, IsFiniteSet(S), \A t \in S : g[t] = 0
    PROVE  Sum(g, S) = 0
<1> DEFINE Bad == {R \in SUBSET S : Sum(g, R) # 0}
<1> SUFFICES ASSUME Bad # {} PROVE FALSE
  OBVIOUS
<1>1. Bad \in SUBSET SUBSET S
  OBVIOUS
<1>2. PICK R \in Bad : /\ IsFiniteSet(R)
                       /\ \A Q \in SUBSET R : Q # R => Q \notin Bad
  <2> HIDE DEF Bad
  <2> QED
    BY <1>1, LeastSet
<1>3. R \in SUBSET S /\ Sum(g, R) # 0
  OBVIOUS
<1>4. R = {} => Sum(g, R) = 0
  BY <1>2, SumStep
<1>5. R # {} => /\ Pick(R) \in R
                /\ Sum(g, R) = g[Pick(R)] + Sum(g, R \ {Pick(R)})
  BY <1>2, SumStep
<1>6. R # {} => Sum(g, R \ {Pick(R)}) = 0
  BY <1>2, <1>3, <1>5
<1> QED
  BY <1>3, <1>4, <1>5, <1>6

\* h is g with n units more at x.
Grown(T, g, h, x, n) ==
    /\ h \in [T -> Nat] /\ h[x] = g[x] + n
    /\ \A t \in T : t # x => h[t] = g[t]

LEMMA GrowsAt ==
    ASSUME NEW T, NEW g \in [T -> Nat], NEW x \in T, NEW n \in Nat
    PROVE  Grown(T, g, [g EXCEPT ![x] = @ + n], x, n)
<1> DEFINE h == [g EXCEPT ![x] = @ + n]
<1>1. /\ h \in [T -> Nat] /\ h[x] = g[x] + n
      /\ \A t \in T : t # x => h[t] = g[t]
  OBVIOUS
<1> HIDE DEF h
<1>2. Grown(T, g, h, x, n)
  BY <1>1 DEF Grown
<1> QED
  BY <1>2 DEF h

\* A number that grows by n makes each sum it is part of grow by n.
LEMMA SumGrows ==
    ASSUME NEW T, NEW g \in [T -> Nat], NEW S \in SUBSET T, IsFiniteSet(S),
           NEW x \in T, NEW n \in Nat, NEW h, Grown(T, g, h, x, n)
    PROVE  Sum(h, S) = Sum(g, S) + (IF x \in S THEN n ELSE 0)
<1>1. /\ h \in [T -> Nat] /\ h[x] = g[x] + n
      /\ \A t \in T : t # x => h[t] = g[t]
  BY DEF Grown
<1>2. CASE x \in S
  <2>1. IsFiniteSet(S \ {x}) /\ S \ {x} \in SUBSET T
    BY FS_Subset
  <2>2. Sum(h, S \ {x}) = Sum(g, S \ {x})
    BY <1>1, <2>1, SumSame
  <2>3. /\ Sum(h, S) = h[x] + Sum(h, S \ {x})
        /\ Sum(g, S) = g[x] + Sum(g, S \ {x})
    BY <1>1, <1>2, SumTakeOut
  <2>4. g[x] \in Nat /\ Sum(g, S \ {x}) \in Nat
    BY <2>1, SumIsNat
  <2> QED
    BY <1>1, <1>2, <2>2, <2>3, <2>4
<1>3. CASE x \notin S
  <2>1. Sum(h, S) = Sum(g, S)
    BY <1>1, <1>3, SumSame
  <2>2. Sum(g, S) \in Nat
    BY SumIsNat
  <2> QED
    BY <1>3, <2>1, <2>2
<1> QED
  BY <1>2, <1>3

\* A part of a set sums to no more than the set.
LEMMA SumOfPart ==
    ASSUME NEW T, NEW g \in [T -> Nat], NEW S \in SUBSET T, IsFiniteSet(S),
           NEW P \in SUBSET S
    PROVE  Sum(g, P) <= Sum(g, S)
<1> DEFINE Bad == {R \in SUBSET S : \E Q \in SUBSET R : ~(Sum(g, Q) <= Sum(g, R))}
<1> SUFFICES ASSUME Bad # {} PROVE FALSE
  OBVIOUS
<1>1. Bad \in SUBSET SUBSET S
  OBVIOUS
<1>2. PICK R \in Bad : /\ IsFiniteSet(R)
                       /\ \A O \in SUBSET R : O # R => O \notin Bad
  <2> HIDE DEF Bad
  <2> QED
    BY <1>1, LeastSet
<1>3. \A O \in SUBSET R : O # R => \A Q \in SUBSET O : Sum(g, Q) <= Sum(g, O)
  BY <1>2
<1>4. PICK Q \in SUBSET R : ~(Sum(g, Q) <= Sum(g, R))
  OBVIOUS
<1>5. R \in SUBSET T
  OBVIOUS
<1> HIDE DEF Bad
<1>6. Sum(g, R) \in Nat
  BY <1>2, <1>5, SumIsNat
<1>7. PICK x \in R : x \notin Q
  <2>1. Q # R
    BY <1>4, <1>6
  <2> QED
    BY <2>1
<1>8. Sum(g, R) = g[x] + Sum(g, R \ {x}) /\ g[x] \in Nat
  BY <1>2, <1>5, SumTakeOut
<1>9. R \ {x} \in SUBSET R /\ R \ {x} # R /\ Q \in SUBSET (R \ {x})
  BY <1>7
<1>10. Sum(g, Q) <= Sum(g, R \ {x})
  BY <1>3, <1>9
<1>11. Sum(g, Q) \in Nat /\ Sum(g, R \ {x}) \in Nat
  <2>1. IsFiniteSet(Q) /\ IsFiniteSet(R \ {x})
    BY <1>2, <1>9, FS_Subset
  <2> QED
    BY <1>5, <1>9, <2>1, SumIsNat
<1> QED
  BY <1>4, <1>8, <1>10, <1>11

-----------------------------------------------------------------------------
(* Budgets and the objects of sessions, as records.                        *)

Settings == {"daily", "hourly", "pause"}

Counters == {"today", "hour", "dayAt", "hourAt"}

Column == Settings \cup Counters

LEMMA BudgetFields ==
    ASSUME NEW b \in Budget
    PROVE  /\ b.daily \in Nat /\ b.hourly \in Nat /\ b.pause \in BOOLEAN
           /\ b.today \in Nat /\ b.hour \in Nat
           /\ b.dayAt \in Time /\ b.hourAt \in Time
           /\ DOMAIN b = Column
  BY DEF Budget, Column, Settings, Counters

LEMMA NewBudgetType ==
    ASSUME NEW t \in Time PROVE NewBudget(t) \in Budget
  BY LaneAssumption DEF NewBudget, Budget

\* _maybe_reset touches the counters only, and only to empty them.
LEMMA ResetFields ==
    ASSUME NEW b \in Budget, NEW t \in Time
    PROVE  LET c == Reset(b, t) IN
           /\ c \in Budget
           /\ c.daily = b.daily /\ c.hourly = b.hourly /\ c.pause = b.pause
           /\ IF Day(b.dayAt) < Day(t) THEN c.today = 0 /\ c.dayAt = t
                                       ELSE c.today = b.today /\ c.dayAt = b.dayAt
           /\ IF t - b.hourAt >= HourLength
                THEN c.hour = 0 /\ c.hourAt = t
                ELSE c.hour = b.hour /\ c.hourAt = b.hourAt
<1> DEFINE d == IF Day(b.dayAt) < Day(t) THEN [b EXCEPT !.today = 0, !.dayAt = t]
                                         ELSE b
<1>1. d \in Budget
  BY DEF Budget
<1>2. /\ d.daily = b.daily /\ d.hourly = b.hourly /\ d.pause = b.pause
      /\ d.hour = b.hour /\ d.hourAt = b.hourAt
      /\ IF Day(b.dayAt) < Day(t) THEN d.today = 0 /\ d.dayAt = t
                                  ELSE d.today = b.today /\ d.dayAt = b.dayAt
  BY DEF Budget
<1>3. Reset(b, t) = IF t - d.hourAt >= HourLength
                      THEN [d EXCEPT !.hour = 0, !.hourAt = t] ELSE d
  BY DEF Reset
<1> HIDE DEF d
<1>4. [d EXCEPT !.hour = 0, !.hourAt = t] \in Budget
  BY <1>1 DEF Budget
<1>5. Reset(b, t) \in Budget
  BY <1>1, <1>3, <1>4
<1> QED
  BY <1>1, <1>2, <1>3, <1>5 DEF Budget

LEMMA SpendFields ==
    ASSUME NEW b \in Budget, NEW n \in Nat
    PROVE  LET c == Spend(b, n) IN
           /\ c \in Budget
           /\ c.daily = b.daily /\ c.hourly = b.hourly /\ c.pause = b.pause
           /\ c.today = b.today + n /\ c.hour = b.hour + n
           /\ c.dayAt = b.dayAt /\ c.hourAt = b.hourAt
<1>1. Spend(b, n) = [b EXCEPT !.today = b.today + n, !.hour = b.hour + n]
  BY DEF Spend, Budget
<1>2. b.today + n \in Nat /\ b.hour + n \in Nat
  BY DEF Budget
<1>3. Spend(b, n) \in Budget
  BY <1>1, <1>2 DEF Budget
<1> QED
  BY <1>1, <1>3 DEF Budget

\* What an UPDATE of the columns D leaves of row b and object c.
Merge(b, c, D) == [f \in DOMAIN b |-> IF f \in D THEN c[f] ELSE b[f]]

LEMMA MergeFields ==
    ASSUME NEW b \in Budget, NEW c \in Budget, NEW D
    PROVE  /\ Merge(b, c, D) \in Budget
           /\ \A f \in Column : Merge(b, c, D)[f] = IF f \in D THEN c[f] ELSE b[f]
<1> DEFINE m == Merge(b, c, D)
<1>1. m = [f \in Column |-> IF f \in D THEN c[f] ELSE b[f]]
  BY BudgetFields DEF Merge
<1>2. \A f \in Column : m[f] = IF f \in D THEN c[f] ELSE b[f]
  BY <1>1
<1>3. m = [daily |-> m["daily"], hourly |-> m["hourly"], today |-> m["today"],
           hour |-> m["hour"], dayAt |-> m["dayAt"], hourAt |-> m["hourAt"],
           pause |-> m["pause"]]
  BY <1>1 DEF Column, Settings, Counters
<1> HIDE DEF m
<1>4. /\ m["daily"] \in Nat /\ m["hourly"] \in Nat /\ m["today"] \in Nat
      /\ m["hour"] \in Nat /\ m["dayAt"] \in Time /\ m["hourAt"] \in Time
  BY <1>2, BudgetFields DEF Column, Settings, Counters
<1>5. m["pause"] \in BOOLEAN
  BY <1>2, BudgetFields DEF Column, Settings, Counters
<1> QED
  BY <1>2, <1>3, <1>4, <1>5 DEF Budget, m

\* Two budgets with the same columns are one.
LEMMA BudgetsEqual ==
    ASSUME NEW b \in Budget, NEW c \in Budget, \A f \in Column : b[f] = c[f]
    PROVE  b = c
  BY DEF Budget, Column, Settings, Counters

\* A column that differs is among those that changed, and none but counters
\* change in _maybe_reset and consume.
LEMMA ChangedColumns ==
    ASSUME NEW b \in Budget, NEW c \in Budget
    PROVE  /\ Changed(b, c) \subseteq Column
           /\ \A f \in Column : f \in Changed(b, c) <=> b[f] # c[f]
  BY BudgetFields DEF Changed

Phases == {"writing", "written", "checking", "checked", "popped",
           "spending", "spent", "pushed"}

Shape ==
    [phase : Phases, id : RowId, budget : Budget, dirty : SUBSET Column,
     locked : BOOLEAN, item : Item \cup {NoItem}, units : Nat, at : Time]

LEMMA TxnShape == Txn = Shape
<1>1. DOMAIN [daily |-> 0, hourly |-> 0, today |-> 0, hour |-> 0, dayAt |-> 0,
              hourAt |-> 0, pause |-> 0] = Column
  BY DEF Column, Settings, Counters
<1> QED
  BY <1>1 DEF Txn, Shape, Phases

LEMMA TxnFields ==
    ASSUME NEW x \in Txn
    PROVE  /\ x # Idle /\ x.phase \in Phases /\ x.id \in RowId
           /\ x.budget \in Budget /\ x.dirty \subseteq Column
           /\ x.locked \in BOOLEAN /\ x.item \in Item \cup {NoItem}
           /\ x.units \in Nat /\ x.at \in Time
<1>1. x \in Shape
  BY TxnShape
<1>2. x.phase \in Phases
  BY <1>1 DEF Shape
<1>3. x # Idle
  BY <1>2 DEF Idle, Phases
<1> QED
  BY <1>1, <1>3 DEF Shape

-----------------------------------------------------------------------------
(* What an operation does to the object of its session.                    *)

\* The operations that read the row and make the object.
Begins(s) ==
    \/ GetBudget(s)
    \/ \E l \in Limits : SetBudget(s, l)
    \/ \E p \in BOOLEAN : SetPause(s, p)
    \/ \E n \in Units : Consume(s, n)
    \/ CheckBudget(s)

\* The steps of a promotion between its check and its end, and the flushes.
Continues(s) ==
    \/ \E i \in Item : Pop(s, i)
    \/ PopEmpty(s)
    \/ SpendHeld(s)
    \/ Push(s)
    \/ Flush(s)

SameCounters(b, c) == \A f \in Counters : b[f] = c[f]

\* A column that is not assigned is the one that was read.
Unassigned(x, b) == \A f \in Column \ x.dirty : x.budget[f] = b[f]

\* The object x of an operation that has read b at the time t: settings are
\* assigned, or counters, never both.
Began(x, b, t) ==
    /\ x.at = t /\ x.item = NoItem /\ Unassigned(x, b)
    /\ \/ /\ x.phase = "writing" /\ x.units = 0 /\ SameCounters(x.budget, b)
          /\ \/ x.budget.daily = b.daily /\ x.budget.hourly = b.hourly
             \/ \E l \in Limits : x.budget.daily = l[1] /\ x.budget.hourly = l[2]
       \/ /\ x.budget = Reset(b, t) /\ x.dirty \cap Settings = {}
          /\ \/ x.phase = "writing" /\ x.units = 0
             \/ x.phase = "checking" /\ x.units = 1 /\ Affordable(x.budget, 1)
       \/ /\ x.phase = "writing" /\ x.dirty \cap Settings = {}
          /\ Affordable(Reset(b, t), x.units)
          /\ x.budget = Spend(Reset(b, t), x.units)

Flushes == {<<"writing", "written">>, <<"checking", "checked">>,
            <<"spending", "spent">>}

\* What becomes of the object y at the time t.
Continued(y, x, t) ==
    /\ x.id = y.id
    /\ \/ /\ x.budget = y.budget /\ x.dirty = y.dirty /\ x.at = y.at
          /\ \/ y.phase = "checked" /\ x.phase = "popped" /\ x.units = y.units
             \/ y.phase = "checked" /\ x.phase = "written" /\ x.units = 0
             \/ y.phase = "spent" /\ x.phase = "pushed" /\ x.units = y.units
             \/ <<y.phase, x.phase>> \in Flushes /\ x.units = y.units
       \/ /\ y.phase = "popped" /\ x.phase = "spending"
          /\ x.units = y.units /\ x.at = t
          /\ Affordable(Reset(y.budget, t), 1)
          /\ x.budget = Spend(Reset(y.budget, t), 1)
          /\ x.dirty \cap Settings = y.dirty \cap Settings
          /\ Unassigned(x, y.budget) /\ y.dirty \subseteq x.dirty

LEMMA OpenStep ==
    ASSUME TypeOK, NEW s \in Session, NEW p \in Phases, NEW b \in Budget,
           NEW D \in SUBSET Column, NEW n \in Nat, Open(s, p, b, D, n)
    PROVE  /\ txn[s] = Idle
           /\ UNCHANGED <<table, place, now, granted, failures>>
           /\ \E x \in Txn :
                /\ txn' = [txn EXCEPT ![s] = x]
                /\ x.phase = p /\ x.id = RowOf(s) /\ x.budget = b /\ x.dirty = D
                /\ x.item = NoItem /\ x.units = n /\ x.at = now
<1> DEFINE x == [phase |-> p, id |-> RowOf(s), budget |-> b, dirty |-> D,
                 locked |-> FALSE, item |-> NoItem, units |-> n, at |-> now]
<1>1. RowOf(s) \in RowId
  BY DEF RowOf, Present, RowId
<1>2. x \in Txn
  BY <1>1, TxnShape DEF Shape, TypeOK
<1>3. /\ txn[s] = Idle /\ txn' = [txn EXCEPT ![s] = x]
      /\ UNCHANGED <<table, place, now, granted, failures>>
  BY DEF Open
<1>4. /\ x.phase = p /\ x.id = RowOf(s) /\ x.budget = b /\ x.dirty = D
      /\ x.item = NoItem /\ x.units = n /\ x.at = now
  OBVIOUS
<1> HIDE DEF x
<1> QED
  BY <1>2, <1>3, <1>4

LEMMA LoadedType ==
    ASSUME TypeOK, NEW s \in Session PROVE Loaded(s) \in Budget
<1>1. Present # {} => RowOf(s) \in Present
  BY DEF RowOf
<1> QED
  BY <1>1, NewBudgetType DEF Loaded, Present, TypeOK

\* The columns a change assigns, and the ones _maybe_reset and consume do.
LEMMA AssignedColumns ==
    ASSUME NEW b \in Budget, NEW c \in Budget, NEW d \in Budget
    PROVE  /\ Changed(b, c) \cup Changed(c, d) \subseteq Column
           /\ \A f \in Column \ (Changed(b, c) \cup Changed(c, d)) : b[f] = d[f]
           /\ (\A f \in Settings : b[f] = c[f] /\ c[f] = d[f]) =>
                 (Changed(b, c) \cup Changed(c, d)) \cap Settings = {}
<1>1. Settings \subseteq Column
  BY DEF Column
<1> QED
  BY <1>1, ChangedColumns

LEMMA SettingsKept ==
    ASSUME NEW b \in Budget, NEW t \in Time, NEW n \in Nat
    PROVE  /\ \A f \in Settings : b[f] = Reset(b, t)[f]
           /\ \A f \in Settings : Reset(b, t)[f] = Spend(Reset(b, t), n)[f]
<1>1. Reset(b, t) \in Budget
  BY ResetFields
<1> QED
  BY <1>1, ResetFields, SpendFields DEF Settings

LEMMA BeginStep ==
    ASSUME TypeOK, NEW s \in Session, Begins(s)
    PROVE  /\ txn[s] = Idle
           /\ UNCHANGED <<table, place, now, granted, failures>>
           /\ \E x \in Txn : /\ txn' = [txn EXCEPT ![s] = x]
                             /\ x.id = RowOf(s)
                             /\ Began(x, Loaded(s), now)
<1> DEFINE a == Loaded(s)
           r == Reset(a, now)
<1>1. a \in Budget /\ now \in Time
  BY LoadedType DEF TypeOK
<1>2. r \in Budget
  BY <1>1, ResetFields
<1>3. Changed(a, r) \subseteq Column /\ Changed(a, r) \cap Settings = {}
      /\ \A f \in Column \ Changed(a, r) : r[f] = a[f]
  <2>1. Settings \subseteq Column
    BY DEF Column
  <2> QED
    BY <1>1, <1>2, <2>1, ChangedColumns, SettingsKept, LaneAssumption
<1>4. {"writing", "checking"} \subseteq Phases
  BY DEF Phases
<1> HIDE DEF a, r
<1>5. ASSUME NEW x \in Txn, x.at = now, x.item = NoItem, x.phase = "writing", x.units = 0,
             Unassigned(x, a), SameCounters(x.budget, a),
             \/ x.budget.daily = a.daily /\ x.budget.hourly = a.hourly
             \/ \E l \in Limits : x.budget.daily = l[1] /\ x.budget.hourly = l[2]
      PROVE  Began(x, a, now)
  BY <1>5 DEF Began
<1>6. CASE GetBudget(s)
  <2>1. Open(s, "writing", a, {}, 0)
    BY <1>6 DEF GetBudget, a
  <2>2. /\ txn[s] = Idle /\ UNCHANGED <<table, place, now, granted, failures>>
        /\ \E x \in Txn :
             /\ txn' = [txn EXCEPT ![s] = x]
             /\ x.phase = "writing" /\ x.id = RowOf(s) /\ x.budget = a /\ x.dirty = {}
             /\ x.item = NoItem /\ x.units = 0 /\ x.at = now
    BY <1>1, <1>4, <2>1, OpenStep
  <2> QED
    BY <1>5, <2>2 DEF Unassigned, SameCounters, a
<1>7. ASSUME NEW l \in Limits, SetBudget(s, l)
      PROVE  /\ txn[s] = Idle
             /\ UNCHANGED <<table, place, now, granted, failures>>
             /\ \E x \in Txn : /\ txn' = [txn EXCEPT ![s] = x]
                               /\ x.id = RowOf(s) /\ Began(x, a, now)
  <2> DEFINE b == [a EXCEPT !.daily = l[1], !.hourly = l[2]]
  <2>1. l[1] \in Nat /\ l[2] \in Nat
    BY LaneAssumption
  <2>2. b \in Budget
    BY <1>1, <2>1 DEF Budget
  <2>3. b.daily = l[1] /\ b.hourly = l[2] /\ SameCounters(b, a)
    BY <1>1, <2>1 DEF Budget, SameCounters, Counters
  <2>4. Open(s, "writing", b, Changed(a, b), 0)
    BY <1>7 DEF SetBudget, a
  <2> HIDE DEF b
  <2>5. /\ Changed(a, b) \subseteq Column
        /\ \A f \in Column \ Changed(a, b) : b[f] = a[f]
    BY <1>1, <2>2, ChangedColumns
  <2>6. /\ txn[s] = Idle /\ UNCHANGED <<table, place, now, granted, failures>>
        /\ \E x \in Txn :
             /\ txn' = [txn EXCEPT ![s] = x]
             /\ x.phase = "writing" /\ x.id = RowOf(s) /\ x.budget = b
             /\ x.dirty = Changed(a, b)
             /\ x.item = NoItem /\ x.units = 0 /\ x.at = now
    BY <1>4, <2>2, <2>4, <2>5, OpenStep
  <2> QED
    BY <1>5, <2>3, <2>5, <2>6 DEF Unassigned
<1>8. ASSUME NEW p \in BOOLEAN, SetPause(s, p)
      PROVE  /\ txn[s] = Idle
             /\ UNCHANGED <<table, place, now, granted, failures>>
             /\ \E x \in Txn : /\ txn' = [txn EXCEPT ![s] = x]
                               /\ x.id = RowOf(s) /\ Began(x, a, now)
  <2> DEFINE b == [a EXCEPT !.pause = p]
  <2>1. b \in Budget
    BY <1>1 DEF Budget
  <2>2. b.daily = a.daily /\ b.hourly = a.hourly /\ SameCounters(b, a)
    BY <1>1 DEF Budget, SameCounters, Counters
  <2>3. Open(s, "writing", b, Changed(a, b), 0)
    BY <1>8 DEF SetPause, a
  <2> HIDE DEF b
  <2>4. /\ Changed(a, b) \subseteq Column
        /\ \A f \in Column \ Changed(a, b) : b[f] = a[f]
    BY <1>1, <2>1, ChangedColumns
  <2>5. /\ txn[s] = Idle /\ UNCHANGED <<table, place, now, granted, failures>>
        /\ \E x \in Txn :
             /\ txn' = [txn EXCEPT ![s] = x]
             /\ x.phase = "writing" /\ x.id = RowOf(s) /\ x.budget = b
             /\ x.dirty = Changed(a, b)
             /\ x.item = NoItem /\ x.units = 0 /\ x.at = now
    BY <1>4, <2>1, <2>3, <2>4, OpenStep
  <2> QED
    BY <1>5, <2>2, <2>4, <2>5 DEF Unassigned
<1>9. ASSUME NEW n \in Units, Consume(s, n)
      PROVE  /\ txn[s] = Idle
             /\ UNCHANGED <<table, place, now, granted, failures>>
             /\ \E x \in Txn : /\ txn' = [txn EXCEPT ![s] = x]
                               /\ x.id = RowOf(s) /\ Began(x, a, now)
  <2> DEFINE c == Spend(r, n)
             D == Changed(a, r) \cup Changed(r, c)
  <2>1. n \in Nat /\ c \in Budget
    BY <1>2, LaneAssumption, SpendFields
  <2>2. Affordable(r, n) /\ Open(s, "writing", c, D, n)
    BY <1>9 DEF Consume, a, r
  <2>3. /\ D \subseteq Column /\ D \cap Settings = {}
        /\ \A f \in Column \ D : c[f] = a[f]
    BY <1>1, <1>2, <2>1, AssignedColumns, SettingsKept DEF r
  <2>4. /\ txn[s] = Idle /\ UNCHANGED <<table, place, now, granted, failures>>
        /\ \E x \in Txn :
             /\ txn' = [txn EXCEPT ![s] = x]
             /\ x.phase = "writing" /\ x.id = RowOf(s) /\ x.budget = c /\ x.dirty = D
             /\ x.item = NoItem /\ x.units = n /\ x.at = now
    BY <1>4, <2>1, <2>2, <2>3, OpenStep
  <2> HIDE DEF D
  <2> QED
    BY <2>2, <2>3, <2>4 DEF Began, Unassigned, r
<1>10. CASE CheckBudget(s)
  <2>1. CASE a.pause
    <3>1. ~Affordable(a, 1)
      BY <2>1 DEF Affordable
    <3>2. Changed(a, a) = {}
      BY DEF Changed
    <3>3. Open(s, "writing", a, {}, 0)
      BY <1>10, <2>1, <3>1, <3>2 DEF CheckBudget, a
    <3>4. /\ txn[s] = Idle /\ UNCHANGED <<table, place, now, granted, failures>>
          /\ \E x \in Txn :
               /\ txn' = [txn EXCEPT ![s] = x]
               /\ x.phase = "writing" /\ x.id = RowOf(s) /\ x.budget = a /\ x.dirty = {}
               /\ x.item = NoItem /\ x.units = 0 /\ x.at = now
      BY <1>1, <1>4, <3>3, OpenStep
    <3> QED
      BY <1>5, <3>4 DEF Unassigned, SameCounters, a
  <2>2. CASE ~a.pause
    <3> DEFINE p == IF Affordable(r, 1) THEN "checking" ELSE "writing"
               n == IF Affordable(r, 1) THEN 1 ELSE 0
    <3>1. Open(s, p, r, Changed(a, r), n)
      BY <1>10, <2>2 DEF CheckBudget, a, r
    <3>2. p \in Phases /\ n \in Nat
      BY <1>4
    <3>3. \/ p = "writing" /\ n = 0
          \/ p = "checking" /\ n = 1 /\ Affordable(r, 1)
      OBVIOUS
    <3> HIDE DEF p, n
    <3>4. /\ txn[s] = Idle /\ UNCHANGED <<table, place, now, granted, failures>>
          /\ \E x \in Txn :
               /\ txn' = [txn EXCEPT ![s] = x]
               /\ x.phase = p /\ x.id = RowOf(s) /\ x.budget = r
               /\ x.dirty = Changed(a, r)
               /\ x.item = NoItem /\ x.units = n /\ x.at = now
      BY <1>2, <1>3, <3>1, <3>2, OpenStep
    <3> QED
      BY <1>3, <3>3, <3>4 DEF Began, Unassigned, a, r
  <2> QED
    BY <2>1, <2>2
<1> QED
  BY <1>6, <1>7, <1>8, <1>9, <1>10 DEF Begins, a

LEMMA ContinueStep ==
    ASSUME TypeOK, NEW s \in Session, Continues(s)
    PROVE  /\ txn[s] \in Txn
           /\ UNCHANGED <<table, now, failures>>
           /\ \E x \in Txn : /\ txn' = [txn EXCEPT ![s] = x]
                             /\ Continued(txn[s], x, now)
<1>1. txn[s] \in Txn
  <2>1. txn[s].phase # "idle"
    BY DEF Continues, Pop, PopEmpty, SpendHeld, Push, Flush
  <2> QED
    BY <2>1 DEF TypeOK, Idle
<1>2. PICK y \in Txn : y = txn[s]
  BY <1>1
<1>3. /\ y.phase \in Phases /\ y.budget \in Budget /\ y.dirty \subseteq Column
      /\ y.item \in Item \cup {NoItem} /\ y.units \in Nat /\ y.at \in Time
      /\ y.locked \in BOOLEAN
  BY TxnFields
<1>4. now \in Time /\ txn \in [Session -> Txn \cup {Idle}]
  BY DEF TypeOK
<1>5. Phases = {"writing", "written", "checking", "checked", "popped",
                "spending", "spent", "pushed"}
  BY DEF Phases
<1>6. ASSUME NEW i \in Item, Pop(s, i)
      PROVE  /\ UNCHANGED <<table, now, failures>>
             /\ \E x \in Txn : txn' = [txn EXCEPT ![s] = x] /\ Continued(y, x, now)
  <2> DEFINE x == [y EXCEPT !.phase = "popped", !.item = i]
  <2>1. /\ x \in Txn /\ x.phase = "popped" /\ x.budget = y.budget
        /\ x.dirty = y.dirty /\ x.at = y.at /\ x.units = y.units /\ x.id = y.id
    BY <1>3, <1>5, TxnShape DEF Shape
  <2>2. /\ txn' = [txn EXCEPT ![s] = x] /\ y.phase = "checked"
        /\ UNCHANGED <<table, now, failures>>
    BY <1>2, <1>4, <1>6 DEF Pop
  <2> HIDE DEF x
  <2> QED
    BY <2>1, <2>2 DEF Continued
<1>7. CASE PopEmpty(s)
  <2> DEFINE x == [y EXCEPT !.phase = "written", !.units = 0]
  <2>1. /\ x \in Txn /\ x.phase = "written" /\ x.budget = y.budget
        /\ x.dirty = y.dirty /\ x.at = y.at /\ x.units = 0 /\ x.id = y.id
    BY <1>3, <1>5, TxnShape DEF Shape
  <2>2. /\ txn' = [txn EXCEPT ![s] = x] /\ y.phase = "checked"
        /\ UNCHANGED <<table, now, failures>>
    BY <1>2, <1>4, <1>7 DEF PopEmpty
  <2> HIDE DEF x
  <2>3. Continued(y, x, now)
    BY <2>1, <2>2 DEF Continued
  <2> QED
    BY <1>1, <1>2, <2>1, <2>2, <2>3
<1>8. CASE SpendHeld(s)
  <2> DEFINE b == Reset(y.budget, now)
             c == Spend(b, 1)
             D == Changed(y.budget, b) \cup Changed(b, c)
             x == [y EXCEPT !.phase = "spending", !.budget = c, !.at = now,
                            !.dirty = y.dirty \cup D]
  <2>1. b \in Budget /\ c \in Budget
    BY <1>3, <1>4, ResetFields, SpendFields
  <2>2. /\ D \subseteq Column /\ D \cap Settings = {}
        /\ \A f \in Column \ D : c[f] = y.budget[f]
    <3>1. (\A f \in Settings : y.budget[f] = b[f] /\ b[f] = c[f])
      BY <1>3, <1>4, SettingsKept
    <3> QED
      BY <1>3, <2>1, <3>1, AssignedColumns
  <2>3. /\ Affordable(b, 1) /\ y.phase = "popped"
        /\ txn' = [txn EXCEPT ![s] = x]
        /\ UNCHANGED <<table, now, failures>>
    BY <1>2, <1>4, <1>8, TxnShape DEF SpendHeld, Shape
  <2> HIDE DEF D, c, b
  <2>4. /\ x \in Txn /\ x.phase = "spending" /\ x.budget = c
        /\ x.dirty = y.dirty \cup D /\ x.at = now /\ x.units = y.units /\ x.id = y.id
    BY <1>3, <1>4, <1>5, <2>1, <2>2, TxnShape DEF Shape
  <2> HIDE DEF x
  <2>5. Continued(y, x, now)
    BY <2>2, <2>3, <2>4 DEF Continued, Unassigned, b, c
  <2> QED
    BY <1>1, <1>2, <2>3, <2>4, <2>5
<1>9. CASE Push(s)
  <2> DEFINE x == [y EXCEPT !.phase = "pushed"]
  <2>1. /\ x \in Txn /\ x.phase = "pushed" /\ x.budget = y.budget
        /\ x.dirty = y.dirty /\ x.at = y.at /\ x.units = y.units /\ x.id = y.id
    BY <1>3, <1>5, TxnShape DEF Shape
  <2>2. /\ txn' = [txn EXCEPT ![s] = x] /\ y.phase = "spent"
        /\ UNCHANGED <<table, now, failures>>
    BY <1>2, <1>4, <1>9 DEF Push
  <2> HIDE DEF x
  <2>3. Continued(y, x, now)
    BY <2>1, <2>2 DEF Continued
  <2> QED
    BY <1>1, <1>2, <2>1, <2>2, <2>3
<1>10. CASE Flush(s)
  <2> DEFINE p == CASE y.phase = "writing" -> "written"
                    [] y.phase = "checking" -> "checked"
                    [] y.phase = "spending" -> "spent"
             k == y.dirty # {}
             x == [y EXCEPT !.phase = p, !.locked = k]
  <2>1. /\ UNCHANGED <<table, now, failures>>
        /\ txn' = [txn EXCEPT ![s] = x]
        /\ y.phase \in {"writing", "checking", "spending"}
    BY <1>2, <1>4, <1>10, TxnShape DEF Flush, Shape
  <2>2. <<y.phase, p>> \in Flushes /\ p \in Phases
    BY <1>5, <2>1 DEF Flushes
  <2>3. k \in BOOLEAN
    OBVIOUS
  <2> HIDE DEF p, k
  <2>4. /\ x \in Txn /\ x.phase = p /\ x.budget = y.budget
        /\ x.dirty = y.dirty /\ x.at = y.at /\ x.units = y.units /\ x.id = y.id
    BY <1>3, <2>2, <2>3, TxnShape DEF Shape
  <2> HIDE DEF x
  <2>5. Continued(y, x, now)
    BY <2>2, <2>4 DEF Continued
  <2> QED
    BY <1>1, <1>2, <2>1, <2>4, <2>5
<1> QED
  BY <1>1, <1>2, <1>6, <1>7, <1>8, <1>9, <1>10 DEF Continues

LEMMA CommitStep ==
    ASSUME TypeOK, NEW s \in Session, Commit(s)
    PROVE  /\ txn[s] \in Txn /\ txn[s].phase \in {"written", "pushed"}
           /\ txn' = [txn EXCEPT ![s] = Idle]
           /\ table' = [table EXCEPT ![txn[s].id] =
                IF table[txn[s].id] = NoRow THEN txn[s].budget
                ELSE Merge(table[txn[s].id], txn[s].budget, txn[s].dirty)]
           /\ table'[txn[s].id] \in Budget
           /\ granted' = IF txn[s].phase = "written"
                           THEN [granted EXCEPT ![txn[s].at] = @ + txn[s].units]
                           ELSE granted
           /\ UNCHANGED <<place, now, failures>>
<1>1. txn[s] \in Txn
  BY DEF Commit, TypeOK, Idle
<1>2. PICK y \in Txn : y = txn[s]
  BY <1>1
<1>3. y.id \in RowId /\ y.budget \in Budget
  BY TxnFields
<1> DEFINE row == IF table[y.id] = NoRow THEN y.budget
                  ELSE Merge(table[y.id], y.budget, y.dirty)
<1>4. row \in Budget
  <2>1. table[y.id] # NoRow => table[y.id] \in Budget
    BY <1>3 DEF TypeOK
  <2> QED
    BY <1>3, <2>1, MergeFields
<1>5. table' = [table EXCEPT ![y.id] = row]
  BY <1>2 DEF Commit, Merge
<1> HIDE DEF row
<1>6. table'[y.id] = row
  BY <1>3, <1>5 DEF TypeOK
<1> QED
  BY <1>1, <1>2, <1>4, <1>5, <1>6 DEF Commit, row

-----------------------------------------------------------------------------
(* The invariant for any number of sessions.                               *)

\* An object with settings assigned hands out nothing.
Clean(x) ==
    x.dirty \cap Settings # {} => x.units = 0 /\ x.phase \in {"writing", "written"}

\* What was checked can still be paid from the object.
Solvent(x) ==
    x.phase \in {"checking", "checked", "popped"} => Affordable(x.budget, 1)

ObjectsSound ==
    \A s \in Session : txn[s] # Idle => Clean(txn[s]) /\ Solvent(txn[s])

\* A row that is there from the start stays the only one.
SeedRow ==
    /\ Seed \in Present =>
         /\ Present = {Seed}
         /\ \A s \in Session : txn[s] # Idle => txn[s].id = Seed
    /\ Seed \notin Present =>
         \A s \in Session : txn[s] # Idle => txn[s].id # Seed

LostItems == {i \in Item : place[i] = "lost"}

Losses == IsFiniteSet(LostItems) /\ LostOnlyByFailure

Inv == TypeOK /\ ObjectsSound /\ SeedRow /\ Losses

LEMMA BeganSound ==
    ASSUME NEW x, NEW b, NEW t, Began(x, b, t) PROVE Clean(x) /\ Solvent(x)
  BY DEF Began, Clean, Solvent

LEMMA ContinuedSound ==
    ASSUME NEW x, NEW y, NEW t, Continued(y, x, t), Clean(y), Solvent(y)
    PROVE  Clean(x) /\ Solvent(x)
  BY DEF Continued, Clean, Solvent, Flushes

LEMMA InvInit == Init => Inv
<1> SUFFICES ASSUME Init PROVE Inv
  OBVIOUS
<1>1. 0 \in Time /\ NewBudget(0) \in Budget
  BY LaneAssumption, NewBudgetType DEF Time
<1>2. TypeOK
  <2>1. table \in [RowId -> Budget \cup {NoRow}]
    BY <1>1 DEF Init
  <2> QED
    BY <1>1, <2>1, LaneAssumption DEF Init, TypeOK
<1>3. LostItems = {}
  BY DEF Init, LostItems
<1>4. Losses
  BY <1>3, FS_EmptySet DEF Losses, LostOnlyByFailure, LostItems, Init
<1>5. Present \subseteq {Seed}
  BY DEF Init, Present
<1> QED
  BY <1>2, <1>4, <1>5 DEF Init, Inv, ObjectsSound, SeedRow

\* A step that leaves the table and what was lost alone.
LEMMA ObjectKeepsInv ==
    ASSUME Inv, TypeOK', NEW s \in Session, NEW x \in Txn \cup {Idle},
           txn' = [txn EXCEPT ![s] = x],
           x # Idle => /\ Clean(x) /\ Solvent(x)
                       /\ \/ txn[s] # Idle /\ x.id = txn[s].id
                          \/ x.id = RowOf(s),
           UNCHANGED <<table, failures>>, LostItems' \subseteq LostItems
    PROVE  Inv'
<1>1. \A u \in Session : txn'[u] = IF u = s THEN x ELSE txn[u]
  BY DEF Inv, TypeOK
<1>2. ObjectsSound'
  BY <1>1 DEF Inv, ObjectsSound
<1>3. Present' = Present
  BY DEF Present
<1>4. SeedRow'
  <2>1. Seed \in Present => RowOf(s) = Seed
    BY DEF Inv, SeedRow, RowOf
  <2>2. Seed \notin Present => RowOf(s) # Seed
    BY LaneAssumption DEF RowOf
  <2> QED
    BY <1>1, <1>3, <2>1, <2>2 DEF Inv, SeedRow
<1>5. Losses'
  <2>1. IsFiniteSet(LostItems) /\ LostItems' \in SUBSET LostItems
    BY DEF Inv, Losses
  <2>2. /\ IsFiniteSet(LostItems')
        /\ Cardinality(LostItems') <= Cardinality(LostItems)
    BY <2>1, FS_Subset
  <2>3. Cardinality(LostItems) \in Nat /\ Cardinality(LostItems') \in Nat
    BY <2>1, <2>2, FS_CardinalityType
  <2>4. failures' = failures /\ failures \in Nat
    BY LaneAssumption DEF Inv, TypeOK
  <2> QED
    BY <1>3, <2>2, <2>3, <2>4 DEF Inv, Losses, LostOnlyByFailure, LostItems
<1> QED
  BY <1>2, <1>4, <1>5 DEF Inv

LEMMA BeginKeepsInv ==
    ASSUME Inv, NEW s \in Session, Begins(s) PROVE Inv'
<1>1. PICK x \in Txn : /\ txn' = [txn EXCEPT ![s] = x]
                       /\ x.id = RowOf(s)
                       /\ Began(x, Loaded(s), now)
  BY BeginStep DEF Inv
<1>2. UNCHANGED <<table, place, now, granted, failures>>
  BY BeginStep DEF Inv
<1>3. TypeOK'
  BY <1>1, <1>2 DEF Inv, TypeOK
<1>4. Clean(x) /\ Solvent(x)
  BY <1>1, BeganSound
<1>5. LostItems' = LostItems
  BY <1>2 DEF LostItems
<1> QED
  BY <1>1, <1>2, <1>3, <1>4, <1>5, ObjectKeepsInv

LEMMA ContinueKeepsInv ==
    ASSUME Inv, NEW s \in Session, Continues(s) PROVE Inv'
<1>1. PICK x \in Txn : /\ txn' = [txn EXCEPT ![s] = x]
                       /\ Continued(txn[s], x, now)
  BY ContinueStep DEF Inv
<1>2. txn[s] \in Txn /\ txn[s] # Idle /\ UNCHANGED <<table, now, failures>>
  BY ContinueStep, TxnFields DEF Inv
<1>3. Clean(x) /\ Solvent(x)
  BY <1>1, <1>2, ContinuedSound DEF Inv, ObjectsSound
<1>4. /\ place' \in [Item -> {"from", "hand", "to", "lost"}]
      /\ LostItems' \subseteq LostItems
      /\ granted' \in [Time -> Nat]
  <2>1. CASE \E i \in Item : Pop(s, i)
    BY <2>1 DEF Pop, Inv, TypeOK, LostItems
  <2>2. CASE PopEmpty(s) \/ SpendHeld(s) \/ Flush(s)
    BY <2>2 DEF PopEmpty, SpendHeld, Flush, Inv, TypeOK, LostItems
  <2>3. CASE Push(s)
    <3>1. /\ place' = [place EXCEPT ![txn[s].item] = "to"]
          /\ granted' = [granted EXCEPT ![txn[s].at] = @ + 1]
      BY <2>3 DEF Push
    <3>2. txn[s].at \in Time
      BY <1>2, TxnFields
    <3>3. granted' \in [Time -> Nat]
      BY <3>1, <3>2 DEF Inv, TypeOK
    <3>4. /\ place' \in [Item -> {"from", "hand", "to", "lost"}]
          /\ LostItems' \subseteq LostItems
      BY <3>1 DEF Inv, TypeOK, LostItems
    <3> QED
      BY <3>3, <3>4
  <2> QED
    BY <2>1, <2>2, <2>3 DEF Continues
<1>5. TypeOK'
  BY <1>1, <1>2, <1>4 DEF Inv, TypeOK
<1> QED
  BY <1>1, <1>2, <1>3, <1>4, <1>5, ObjectKeepsInv DEF Continued

LEMMA CommitKeepsInv ==
    ASSUME Inv, NEW s \in Session, Commit(s) PROVE Inv'
<1>1. PICK y \in Txn : y = txn[s]
  BY CommitStep DEF Inv
<1>2. y # Idle /\ y.id \in RowId /\ y.units \in Nat /\ y.at \in Time
  BY TxnFields
<1>3. PICK b \in Budget : table' = [table EXCEPT ![y.id] = b]
  BY <1>1, <1>2, CommitStep DEF Inv, TypeOK
<1>4. /\ txn' = [txn EXCEPT ![s] = Idle] /\ UNCHANGED <<place, now, failures>>
      /\ granted' = IF y.phase = "written"
                      THEN [granted EXCEPT ![y.at] = @ + y.units] ELSE granted
  BY <1>1, CommitStep DEF Inv
<1>5. TypeOK'
  BY <1>2, <1>3, <1>4 DEF Inv, TypeOK
<1>6. Present' = Present \cup {y.id}
  BY <1>2, <1>3, NoRowAssumption DEF Inv, TypeOK, Present
<1>7. \A u \in Session : txn'[u] = IF u = s THEN Idle ELSE txn[u]
  BY <1>4 DEF Inv, TypeOK
<1>8. ObjectsSound'
  BY <1>7 DEF Inv, ObjectsSound
<1>9. SeedRow' /\ (Seed \in Present' => Seed \in Present)
  <2>1. (Seed \in Present => y.id = Seed) /\ (Seed \notin Present => y.id # Seed)
    BY <1>1, <1>2 DEF Inv, SeedRow
  <2> QED
    BY <1>6, <1>7, <2>1 DEF Inv, SeedRow
<1>10. Losses'
  BY <1>4, <1>9 DEF Inv, Losses, LostOnlyByFailure, LostItems
<1> QED
  BY <1>5, <1>8, <1>9, <1>10 DEF Inv

\* With the seed row there, an object that was checked is not found exhausted.
LEMMA NoRaise ==
    ASSUME Inv, Seed \in Present, NEW s \in Session, SpendRaises(s) PROVE FALSE
<1>1. txn[s] \in Txn /\ txn[s].phase = "popped"
  BY DEF SpendRaises, Inv, TypeOK, Idle
<1>2. PICK y \in Txn : y = txn[s]
  BY <1>1
<1>3. y # Idle /\ y.budget \in Budget
  BY TxnFields
<1>4. Found(s) = {Seed} /\ Affordable(y.budget, 1)
  BY <1>1, <1>2, <1>3 DEF Inv, SeedRow, ObjectsSound, Solvent, Found
<1>5. Cardinality(Found(s)) = 1
  BY <1>4, FS_Singleton
<1>6. Affordable(Reset(y.budget, now), 1)
  <2> DEFINE c == Reset(y.budget, now)
  <2>1. /\ c.daily = y.budget.daily /\ c.hourly = y.budget.hourly
        /\ c.pause = y.budget.pause
        /\ c.today = 0 \/ c.today = y.budget.today
        /\ c.hour = 0 \/ c.hour = y.budget.hour
    BY <1>3, ResetFields DEF Inv, TypeOK
  <2>2. /\ y.budget.daily \in Nat /\ y.budget.hourly \in Nat
        /\ y.budget.today \in Nat /\ y.budget.hour \in Nat
    BY <1>3, BudgetFields
  <2> HIDE DEF c
  <2> QED
    BY <1>4, <2>1, <2>2 DEF Affordable, c
<1> QED
  BY <1>2, <1>5, <1>6 DEF SpendRaises

LEMMA RaiseKeepsInv ==
    ASSUME Inv, NEW s \in Session, SpendRaises(s) PROVE Inv'
<1>1. Seed \notin Present
  BY NoRaise
<1>2. /\ place' = [place EXCEPT ![txn[s].item] = "lost"]
      /\ txn' = [txn EXCEPT ![s] = Idle]
      /\ UNCHANGED <<table, now, granted, failures>>
  BY DEF SpendRaises
<1>3. TypeOK'
  BY <1>2 DEF Inv, TypeOK
<1>4. \A u \in Session : txn'[u] = IF u = s THEN Idle ELSE txn[u]
  BY <1>2 DEF Inv, TypeOK
<1>5. Present' = Present
  BY <1>2 DEF Present
<1>6. SeedRow' /\ ObjectsSound'
  BY <1>4, <1>5 DEF Inv, SeedRow, ObjectsSound
<1>7. IsFiniteSet(LostItems')
  <2>1. IsFiniteSet(LostItems \cup {txn[s].item})
    BY FS_AddElement DEF Inv, Losses
  <2>2. LostItems' \in SUBSET (LostItems \cup {txn[s].item})
    BY <1>2 DEF LostItems, Inv, TypeOK
  <2> QED
    BY <2>1, <2>2, FS_Subset
<1> QED
  BY <1>1, <1>3, <1>5, <1>6, <1>7 DEF Inv, Losses, LostOnlyByFailure

LEMMA RollbackKeepsInv ==
    ASSUME Inv, NEW s \in Session, Rollback(s) PROVE Inv'
<1>1. /\ place' = [i \in Item |-> IF place[i] = "hand" /\ i = txn[s].item
                                    THEN "lost" ELSE place[i]]
      /\ txn' = [txn EXCEPT ![s] = Idle]
      /\ failures' = failures + 1 /\ failures < MaxFailures
      /\ UNCHANGED <<table, now, granted>>
  BY DEF Rollback
<1>2. TypeOK'
  BY <1>1, LaneAssumption DEF Inv, TypeOK
<1>3. \A u \in Session : txn'[u] = IF u = s THEN Idle ELSE txn[u]
  BY <1>1 DEF Inv, TypeOK
<1>4. Present' = Present
  BY <1>1 DEF Present
<1>5. SeedRow' /\ ObjectsSound'
  BY <1>3, <1>4 DEF Inv, SeedRow, ObjectsSound
<1>6. Losses'
  <2> DEFINE more == LostItems \cup {txn[s].item}
  <2>1. IsFiniteSet(LostItems)
    BY DEF Inv, Losses
  <2>2. /\ IsFiniteSet(more)
        /\ Cardinality(more) = IF txn[s].item \in LostItems THEN Cardinality(LostItems)
                               ELSE Cardinality(LostItems) + 1
    BY <2>1, FS_AddElement
  <2>3. LostItems' \in SUBSET more
    BY <1>1 DEF LostItems, Inv, TypeOK
  <2> HIDE DEF more
  <2>4. /\ IsFiniteSet(LostItems')
        /\ Cardinality(LostItems') <= Cardinality(more)
    BY <2>2, <2>3, FS_Subset
  <2>5. /\ Cardinality(LostItems) \in Nat /\ Cardinality(LostItems') \in Nat
        /\ Cardinality(more) \in Nat
    BY <2>1, <2>2, <2>4, FS_CardinalityType
  <2>6. failures \in Nat
    BY LaneAssumption DEF Inv, TypeOK
  <2> QED
    BY <1>1, <1>4, <2>2, <2>4, <2>5, <2>6
       DEF Inv, Losses, LostOnlyByFailure, LostItems
<1> QED
  BY <1>2, <1>5, <1>6 DEF Inv

\* The steps of Next by what they do to an object.
LEMMA NextCases ==
    ASSUME Next
    PROVE  \/ Tick
           \/ \E s \in Session : \/ Begins(s) \/ Continues(s) \/ SpendRaises(s)
                                 \/ Commit(s) \/ Rollback(s)
  BY DEF Next, Begins, Continues

LEMMA InvInductive == Inv /\ [Next]_vars => Inv'
<1> SUFFICES ASSUME Inv, [Next]_vars PROVE Inv'
  OBVIOUS
<1>1. CASE UNCHANGED vars \/ Tick
  <2>1. /\ UNCHANGED <<table, txn, place, granted, failures>>
        /\ now' = now \/ (now < MaxNow /\ now' = now + 1)
    BY <1>1 DEF vars, Tick
  <2>2. now' \in Time
    BY <2>1, LaneAssumption DEF Inv, TypeOK, Time
  <2> QED
    BY <2>1, <2>2 DEF Inv, TypeOK, ObjectsSound, SeedRow, Losses, LostOnlyByFailure,
                      LostItems, Present
<1>2. CASE \E s \in Session : \/ Begins(s) \/ Continues(s) \/ SpendRaises(s)
                              \/ Commit(s) \/ Rollback(s)
  BY <1>2, BeginKeepsInv, ContinueKeepsInv, RaiseKeepsInv, CommitKeepsInv,
     RollbackKeepsInv
<1> QED
  BY <1>1, <1>2, NextCases

LEMMA InvAlways == Spec => []Inv
  BY InvInit, InvInductive, PTL DEF Spec

\* The variables keep their types, for any number of sessions.
THEOREM TypeCorrect == Spec => []TypeOK
<1>1. Inv => TypeOK
  BY DEF Inv
<1> QED
  BY <1>1, InvAlways, PTL

\* With the lane's row there from the start, promotions lose an item only
\* when their session fails, for any number of sessions and items.
THEOREM OnlyFailuresLose == Spec => []LostOnlyByFailure
<1>1. Inv => LostOnlyByFailure
  BY DEF Inv, Losses
<1> QED
  BY <1>1, InvAlways, PTL

\* Limits and pauses change only by the commit of a session that assigned
\* them and spends nothing.
THEOREM SettingsOnlyByOperators == Spec => SettingsSurvive
<1> DEFINE A == \A r \in RowId : \A f \in {"daily", "hourly", "pause"} :
                  table[r] # NoRow /\ table'[r][f] # table[r][f] =>
                    \E s \in Session : /\ txn[s] # Idle /\ txn'[s] = Idle
                                       /\ f \in txn[s].dirty /\ txn[s].units = 0
<1>1. ASSUME Inv, [Next]_vars PROVE A
  <2> SUFFICES ASSUME NEW r \in RowId, NEW f \in {"daily", "hourly", "pause"},
                      table[r] # NoRow, table'[r][f] # table[r][f]
               PROVE  \E s \in Session : /\ txn[s] # Idle /\ txn'[s] = Idle
                                         /\ f \in txn[s].dirty /\ txn[s].units = 0
    OBVIOUS
  <2>1. PICK s \in Session : Commit(s)
    <3>1. table' # table
      OBVIOUS
    <3>2. ~(UNCHANGED vars \/ Tick)
      BY <3>1 DEF vars, Tick
    <3>3. \A s \in Session : ~(SpendRaises(s) \/ Rollback(s))
      BY <3>1 DEF SpendRaises, Rollback
    <3>4. \A s \in Session : ~(Begins(s) \/ Continues(s))
      BY <1>1, <3>1, BeginStep, ContinueStep DEF Inv
    <3> QED
      BY <1>1, <3>2, <3>3, <3>4, NextCases
  <2>2. PICK y \in Txn : y = txn[s]
    BY <1>1, <2>1, CommitStep DEF Inv
  <2>3. y # Idle /\ y.id \in RowId /\ y.budget \in Budget
    BY TxnFields
  <2>4. /\ txn'[s] = Idle
        /\ table' = [table EXCEPT ![y.id] =
             IF table[y.id] = NoRow THEN y.budget
             ELSE Merge(table[y.id], y.budget, y.dirty)]
    BY <1>1, <2>1, <2>2, CommitStep DEF Inv, TypeOK
  <2>5. r = y.id /\ table[r] \in Budget
    BY <1>1, <2>3, <2>4 DEF Inv, TypeOK
  <2>6. f \in y.dirty
    <3>1. table'[r] = Merge(table[r], y.budget, y.dirty)
      BY <1>1, <2>3, <2>4, <2>5 DEF Inv, TypeOK
    <3>2. f \in Column
      BY DEF Column, Settings
    <3> QED
      BY <2>3, <2>5, <3>1, <3>2, MergeFields
  <2>7. y.units = 0
    BY <1>1, <2>2, <2>3, <2>6 DEF Inv, ObjectsSound, Clean, Settings
  <2> QED
    BY <2>2, <2>3, <2>4, <2>6, <2>7
<1>2. Inv /\ [Next]_vars => [A]_vars
  BY <1>1
<1> HIDE DEF A
<1>3. Spec => [][A]_vars
  BY <1>2, InvAlways, PTL DEF Spec
<1> QED
  BY <1>3 DEF SettingsSurvive, A

-----------------------------------------------------------------------------
(* One session at a time.  What has been handed out is compared with what  *)
(* the row and the object count; the hour needs the counting before too.   *)

\* The ticks of a day, those from u on, and the hour of the clock from u on.
OnDay(d) == {t \in Time : Day(t) = d}

From(u) == {t \in Time : t >= u}

Hour(u) == (u..(u + HourLength - 1)) \cap Time

\* The counters of b account for what g hands out and for n units more, but
\* for F units; l and m are the greatest limits the lane is ever given.
Fits(g, F, t, b, n, l, m) ==
    /\ b.dayAt <= t /\ b.hourAt <= t
    /\ b.daily <= l /\ b.today <= l /\ b.hourly <= m /\ b.hour <= m
    /\ Sum(g, OnDay(Day(b.dayAt))) + n <= b.today + F
    /\ \A d \in Nat : d > Day(b.dayAt) => Sum(g, OnDay(d)) <= F
    /\ \A u \in Time :
         /\ u >= b.hourAt => Sum(g, From(u)) + n <= b.hour + F
         /\ u >= b.hourAt + HourLength => Sum(g, From(u)) <= F
         /\ u >= b.hourAt - HourLength => Sum(g, From(u)) + n <= m + b.hour + F

\* Only F units are handed out at all.
Unspent(g, F) ==
    /\ \A d \in Nat : Sum(g, OnDay(d)) <= F
    /\ \A u \in Time : Sum(g, From(u)) <= F

\* What g hands out on a day and in an hour.
Within(g, F, l, m) ==
    /\ \A d \in Nat : Sum(g, OnDay(d)) <= l + F
    /\ \A u \in Time : Sum(g, Hour(u)) <= 2 * m + F

\* The units an object has spent that are not handed out yet.
Pending(x) ==
    IF x.phase \in {"writing", "written"} THEN x.units
    ELSE IF x.phase \in {"spending", "spent"} THEN 1 ELSE 0

\* They were spent on the day and in the hour that the object counts.
Dated(x) ==
    Pending(x) > 0 => /\ Day(x.at) = Day(x.budget.dayAt)
                      /\ x.budget.hourAt <= x.at
                      /\ x.at < x.budget.hourAt + HourLength

Rows(tb) == {r \in RowId : tb[r] # NoRow}

\* What may be handed out and not counted in the row: a unit of each session
\* that failed, and the one a promotion has pushed and not committed.
Uncounted(y, F) == IF y.phase = "pushed" THEN F + 1 ELSE F

\* The table tb has one row at the most, which the object y was read from,
\* and they account for what g hands out.
Books(y, tb, g, F, t, l, m) ==
    /\ DefaultLimits[1] <= l /\ DefaultLimits[2] <= m
    /\ \A r, q \in Rows(tb) : r = q
    /\ Within(g, F, l, m)
    /\ \A r \in Rows(tb) : Fits(g, Uncounted(y, F), t, tb[r], 0, l, m)
    /\ Rows(tb) = {} => Unspent(g, Uncounted(y, F))
    /\ y # Idle => /\ \A r \in Rows(tb) : r = y.id /\ Unassigned(y, tb[r])
                   /\ Fits(g, F, t, y.budget, Pending(y), l, m)
                   /\ Dated(y)

SerialInv(s) ==
    /\ Inv
    /\ \E l, m \in Limits :
          Books(txn[s], table, granted, failures, now, l[1], m[2])

LEMMA DayOrder ==
    ASSUME NEW a \in Nat, NEW b \in Nat
    PROVE  /\ Day(a) \in Nat
           /\ a <= b => Day(a) <= Day(b)
  BY LaneAssumption DEF Day

LEMMA TimeFinite == IsFiniteSet(Time) /\ Time \subseteq Nat
  BY LaneAssumption, FS_Interval DEF Time

LEMMA SumsAreNat ==
    ASSUME NEW g \in [Time -> Nat], NEW k
    PROVE  Sum(g, OnDay(k)) \in Nat /\ Sum(g, From(k)) \in Nat /\ Sum(g, Hour(k)) \in Nat
<1>1. OnDay(k) \in SUBSET Time /\ From(k) \in SUBSET Time /\ Hour(k) \in SUBSET Time
  BY DEF OnDay, From, Hour
<1>2. \A S \in SUBSET Time : IsFiniteSet(S)
  BY TimeFinite, FS_Subset
<1>3. \A S \in SUBSET Time : Sum(g, S) \in Nat
  BY <1>2, SumIsNat
<1> QED
  BY <1>1, <1>3

\* How a grant changes the sums over a day, an hour and the ticks from one on.
LEMMA GrantedSums ==
    ASSUME NEW g \in [Time -> Nat], NEW at \in Time, NEW n \in Nat, NEW h,
           Grown(Time, g, h, at, n)
    PROVE  \A k : /\ Sum(h, OnDay(k)) = Sum(g, OnDay(k)) + (IF Day(at) = k THEN n ELSE 0)
                  /\ Sum(h, From(k)) = Sum(g, From(k)) + (IF at >= k THEN n ELSE 0)
                  /\ Sum(h, Hour(k)) = Sum(g, Hour(k)) + (IF at \in Hour(k) THEN n ELSE 0)
<1>1. ASSUME NEW S \in SUBSET Time
      PROVE  Sum(h, S) = Sum(g, S) + (IF at \in S THEN n ELSE 0)
  <2>1. IsFiniteSet(S)
    BY TimeFinite, FS_Subset
  <2> QED
    BY <2>1, SumGrows
<1>2. \A k : /\ OnDay(k) \in SUBSET Time /\ (at \in OnDay(k) <=> Day(at) = k)
             /\ From(k) \in SUBSET Time /\ (at \in From(k) <=> at >= k)
             /\ Hour(k) \in SUBSET Time
  BY DEF OnDay, From, Hour
<1> QED
  BY <1>1, <1>2

LEMMA HourAfterItsStart ==
    ASSUME NEW g \in [Time -> Nat], NEW u \in Time
    PROVE  Sum(g, Hour(u)) <= Sum(g, From(u))
<1>1. Hour(u) \in SUBSET From(u)
  BY TimeFinite DEF Hour, From
<1>2. IsFiniteSet(From(u)) /\ From(u) \in SUBSET Time
  BY TimeFinite, FS_Subset DEF From
<1> QED
  BY <1>1, <1>2, SumOfPart

LEMMA FitsNew ==
    ASSUME NEW g \in [Time -> Nat], NEW F \in Nat, NEW t \in Time,
           NEW l \in Nat, NEW m \in Nat,
           DefaultLimits[1] <= l, DefaultLimits[2] <= m, Unspent(g, F)
    PROVE  Fits(g, F, t, NewBudget(t), 0, l, m)
<1> DEFINE b == NewBudget(t)
<1>1. /\ b.dayAt = t /\ b.hourAt = t /\ b.today = 0 /\ b.hour = 0
      /\ b.daily <= l /\ b.hourly <= m
  BY DEF NewBudget
<1>2. t \in Nat /\ Day(t) \in Nat
  BY TimeFinite, DayOrder
<1>3. /\ \A d \in Nat : Sum(g, OnDay(d)) \in Nat /\ Sum(g, OnDay(d)) <= F
      /\ \A u \in Time : Sum(g, From(u)) \in Nat /\ Sum(g, From(u)) <= F
  BY SumsAreNat DEF Unspent
<1> HIDE DEF b
<1> QED
  BY <1>1, <1>2, <1>3 DEF Fits, b

\* _maybe_reset opens a new day and a new hour in which nothing is handed
\* out yet, but for the F units.
LEMMA FitsReset ==
    ASSUME NEW g \in [Time -> Nat], NEW F \in Nat, NEW t \in Time,
           NEW l \in Nat, NEW m \in Nat, NEW b \in Budget,
           Fits(g, F, t, b, 0, l, m)
    PROVE  LET c == Reset(b, t) IN
           /\ Fits(g, F, t, c, 0, l, m)
           /\ Day(c.dayAt) = Day(t) /\ c.hourAt <= t /\ t < c.hourAt + HourLength
<1> DEFINE c == Reset(b, t)
<1>1. /\ c \in Budget /\ c.daily = b.daily /\ c.hourly = b.hourly
      /\ IF Day(b.dayAt) < Day(t) THEN c.today = 0 /\ c.dayAt = t
                                  ELSE c.today = b.today /\ c.dayAt = b.dayAt
      /\ IF t - b.hourAt >= HourLength
           THEN c.hour = 0 /\ c.hourAt = t
           ELSE c.hour = b.hour /\ c.hourAt = b.hourAt
  BY ResetFields
<1> HIDE DEF c
<1>2. /\ t \in Nat /\ b.dayAt \in Nat /\ b.hourAt \in Nat
      /\ b.daily \in Nat /\ b.hourly \in Nat /\ b.today \in Nat /\ b.hour \in Nat
      /\ HourLength \in Nat /\ HourLength > 0
  <2>1. \A u \in Time : u \in Nat
    BY TimeFinite
  <2> QED
    BY <2>1, BudgetFields, LaneAssumption
<1>3. b.dayAt <= t /\ b.hourAt <= t /\ b.daily <= l /\ b.today <= l
      /\ b.hourly <= m /\ b.hour <= m
  BY DEF Fits
<1>4. Day(b.dayAt) <= Day(t) /\ Day(t) \in Nat /\ Day(b.dayAt) \in Nat
  BY <1>2, <1>3, DayOrder
<1>5. /\ \A d \in Nat : Sum(g, OnDay(d)) \in Nat
      /\ \A u \in Time : Sum(g, From(u)) \in Nat
  BY SumsAreNat
<1>6. Day(c.dayAt) = Day(t) /\ c.hourAt <= t /\ t < c.hourAt + HourLength
  BY <1>1, <1>2, <1>3, <1>4
<1>7. /\ Sum(g, OnDay(Day(c.dayAt))) + 0 <= c.today + F
      /\ \A d \in Nat : d > Day(c.dayAt) => Sum(g, OnDay(d)) <= F
  <2>1. CASE Day(b.dayAt) < Day(t)
    <3>1. c.today = 0
      BY <1>1, <2>1
    <3>2. Sum(g, OnDay(Day(t))) <= F
      BY <1>4, <2>1 DEF Fits
    <3>3. \A d \in Nat : d > Day(t) => Sum(g, OnDay(d)) <= F
      BY <1>4, <2>1 DEF Fits
    <3> QED
      BY <1>4, <1>5, <1>6, <3>1, <3>2, <3>3
  <2>2. CASE ~(Day(b.dayAt) < Day(t))
    <3>1. c.today = b.today /\ c.dayAt = b.dayAt
      BY <1>1, <2>2
    <3> QED
      BY <3>1 DEF Fits
  <2> QED
    BY <2>1, <2>2
<1>8. \A u \in Time :
        /\ u >= c.hourAt => Sum(g, From(u)) + 0 <= c.hour + F
        /\ u >= c.hourAt + HourLength => Sum(g, From(u)) <= F
        /\ u >= c.hourAt - HourLength => Sum(g, From(u)) + 0 <= m + c.hour + F
  <2>1. CASE t - b.hourAt >= HourLength
    <3>1. c.hour = 0 /\ c.hourAt = t
      BY <1>1, <2>1
    <3> TAKE u \in Time
    <3>2. u \in Nat /\ Sum(g, From(u)) \in Nat
      BY <1>5, TimeFinite
    <3>3. u >= t => Sum(g, From(u)) <= F
      BY <1>2, <2>1, <3>2 DEF Fits
    <3>4. u >= t - HourLength => Sum(g, From(u)) <= m + F
      <4>1. u >= t - HourLength => u >= b.hourAt
        BY <1>2, <2>1, <3>2
      <4>2. u >= b.hourAt => Sum(g, From(u)) + 0 <= b.hour + F
        BY DEF Fits
      <4> QED
        BY <1>2, <1>3, <3>2, <4>1, <4>2
    <3> QED
      BY <1>2, <3>1, <3>2, <3>3, <3>4
  <2>2. CASE ~(t - b.hourAt >= HourLength)
    <3>1. c.hour = b.hour /\ c.hourAt = b.hourAt
      BY <1>1, <2>2
    <3> QED
      BY <3>1 DEF Fits
  <2> QED
    BY <2>1, <2>2
<1>9. c.dayAt <= t /\ c.hourAt <= t /\ c.daily <= l /\ c.today <= l
      /\ c.hourly <= m /\ c.hour <= m
  BY <1>1, <1>2, <1>3
<1> QED
  BY <1>6, <1>7, <1>8, <1>9 DEF Fits, c

\* Units are counted before they are handed out.
LEMMA FitsSpend ==
    ASSUME NEW g \in [Time -> Nat], NEW F \in Nat, NEW t \in Time,
           NEW l \in Nat, NEW m \in Nat, NEW b \in Budget, NEW n \in Nat,
           Fits(g, F, t, b, 0, l, m), Affordable(b, n)
    PROVE  Fits(g, F, t, Spend(b, n), n, l, m)
<1> DEFINE c == Spend(b, n)
<1>1. /\ c.daily = b.daily /\ c.hourly = b.hourly
      /\ c.today = b.today + n /\ c.hour = b.hour + n
      /\ c.dayAt = b.dayAt /\ c.hourAt = b.hourAt
  BY SpendFields
<1>2. /\ b.dayAt \in Nat /\ b.hourAt \in Nat
      /\ b.daily \in Nat /\ b.hourly \in Nat /\ b.today \in Nat /\ b.hour \in Nat
      /\ Day(b.dayAt) \in Nat
  BY BudgetFields, TimeFinite, DayOrder
<1>3. b.today + n <= b.daily /\ b.hour + n <= b.hourly
  BY DEF Affordable
<1>4. /\ \A d \in Nat : Sum(g, OnDay(d)) \in Nat
      /\ \A u \in Time : Sum(g, From(u)) \in Nat
  BY SumsAreNat
<1> HIDE DEF c
<1> QED
  BY <1>1, <1>2, <1>3, <1>4 DEF Fits, c

\* The counters stay, the limits and the bounds move.
LEMMA FitsLoosely ==
    ASSUME NEW g \in [Time -> Nat], NEW F \in Nat, NEW G \in Nat, F <= G,
           NEW t \in Nat, NEW u \in Nat, t <= u,
           NEW l \in Nat, NEW m \in Nat, NEW k \in Nat, NEW j \in Nat, l <= k, m <= j,
           NEW b \in Budget, NEW c \in Budget, SameCounters(c, b),
           c.daily <= k, c.hourly <= j, NEW n \in Nat,
           Fits(g, F, t, b, n, l, m)
    PROVE  Fits(g, G, u, c, n, k, j)
<1>1. /\ b.dayAt \in Nat /\ b.hourAt \in Nat /\ b.today \in Nat /\ b.hour \in Nat
      /\ Day(b.dayAt) \in Nat
  BY BudgetFields, TimeFinite, DayOrder
<1>2. c.dayAt = b.dayAt /\ c.hourAt = b.hourAt /\ c.today = b.today /\ c.hour = b.hour
  BY DEF SameCounters, Counters
<1>3. /\ \A d \in Nat : Sum(g, OnDay(d)) \in Nat
      /\ \A v \in Time : Sum(g, From(v)) \in Nat
  BY SumsAreNat
<1> QED
  BY <1>1, <1>2, <1>3 DEF Fits

\* n units are handed out that were counted at the time they were spent.
LEMMA FitsGrant ==
    ASSUME NEW g \in [Time -> Nat], NEW F \in Nat, NEW t \in Nat,
           NEW l \in Nat, NEW m \in Nat, NEW b \in Budget, NEW n \in Nat,
           NEW at \in Time, NEW h, Grown(Time, g, h, at, n),
           Fits(g, F, t, b, n, l, m), Within(g, F, l, m),
           n > 0 => /\ Day(at) = Day(b.dayAt) /\ b.hourAt <= at
                    /\ at < b.hourAt + HourLength
    PROVE  Fits(h, F, t, b, 0, l, m) /\ Within(h, F, l, m)
<1>s. \A k : /\ Sum(h, OnDay(k)) = Sum(g, OnDay(k)) + (IF Day(at) = k THEN n ELSE 0)
              /\ Sum(h, From(k)) = Sum(g, From(k)) + (IF at >= k THEN n ELSE 0)
              /\ Sum(h, Hour(k)) = Sum(g, Hour(k)) + (IF at \in Hour(k) THEN n ELSE 0)
  BY GrantedSums
<1>n. \A k : /\ Sum(g, OnDay(k)) \in Nat
              /\ Sum(g, From(k)) \in Nat /\ Sum(g, Hour(k)) \in Nat
  BY SumsAreNat
<1>2. \A d \in Nat :
        /\ Sum(g, OnDay(d)) \in Nat
        /\ Sum(h, OnDay(d)) = Sum(g, OnDay(d)) + (IF Day(at) = d THEN n ELSE 0)
  BY <1>s, <1>n
<1>3. \A u \in Time :
        /\ Sum(g, From(u)) \in Nat /\ Sum(g, Hour(u)) \in Nat
        /\ Sum(h, From(u)) = Sum(g, From(u)) + (IF at >= u THEN n ELSE 0)
        /\ Sum(h, Hour(u)) = Sum(g, Hour(u)) + (IF at \in Hour(u) THEN n ELSE 0)
  BY <1>s, <1>n
<1>4. /\ b.dayAt \in Nat /\ b.hourAt \in Nat /\ b.today \in Nat /\ b.hour \in Nat
      /\ Day(b.dayAt) \in Nat /\ at \in Nat /\ HourLength \in Nat
  BY BudgetFields, TimeFinite, DayOrder, LaneAssumption
<1>5. Fits(h, F, t, b, 0, l, m)
  <2>1. /\ Sum(h, OnDay(Day(b.dayAt))) + 0 <= b.today + F
        /\ \A d \in Nat : d > Day(b.dayAt) => Sum(h, OnDay(d)) <= F
    BY <1>2, <1>4 DEF Fits
  <2>2. ASSUME NEW u \in Time
        PROVE  /\ u >= b.hourAt => Sum(h, From(u)) + 0 <= b.hour + F
               /\ u >= b.hourAt + HourLength => Sum(h, From(u)) <= F
               /\ u >= b.hourAt - HourLength => Sum(h, From(u)) + 0 <= m + b.hour + F
    <3>1. u \in Nat
      BY TimeFinite
    <3> QED
      BY <1>3, <1>4, <3>1 DEF Fits
  <2> QED
    BY <2>1, <2>2 DEF Fits
<1>6. Within(h, F, l, m)
  <2>1. ASSUME NEW d \in Nat PROVE Sum(h, OnDay(d)) <= l + F
    <3>1. Sum(g, OnDay(d)) <= l + F
      BY DEF Within
    <3>2. b.today <= l /\ Sum(g, OnDay(Day(b.dayAt))) + n <= b.today + F
      BY DEF Fits
    <3> QED
      BY <1>2, <1>4, <3>1, <3>2
  <2>2. ASSUME NEW u \in Time PROVE Sum(h, Hour(u)) <= 2 * m + F
    <3>1. Sum(g, Hour(u)) <= 2 * m + F /\ u \in Nat
      BY TimeFinite DEF Within
    <3>2. CASE at \in Hour(u) /\ n > 0
      <4>1. u >= b.hourAt - HourLength
        BY <1>4, <3>1, <3>2 DEF Hour
      <4>2. b.hour <= m /\ Sum(g, From(u)) + n <= m + b.hour + F
        BY <4>1 DEF Fits
      <4>3. Sum(g, Hour(u)) <= Sum(g, From(u))
        BY HourAfterItsStart
      <4> QED
        BY <1>3, <1>4, <3>2, <4>2, <4>3
    <3>3. CASE ~(at \in Hour(u) /\ n > 0)
      BY <1>3, <3>1, <3>3
    <3> QED
      BY <3>2, <3>3
  <2> QED
    BY <2>1, <2>2 DEF Within
<1> QED
  BY <1>5, <1>6

\* One unit handed out that the counters do not show is one more of the F.
LEMMA FitsUncounted ==
    ASSUME NEW g \in [Time -> Nat], NEW F \in Nat, NEW t \in Nat,
           NEW l \in Nat, NEW m \in Nat, NEW at \in Time,
           NEW h, Grown(Time, g, h, at, 1)
    PROVE  /\ Unspent(g, F) => Unspent(h, F + 1)
           /\ \A b \in Budget : Fits(g, F, t, b, 0, l, m) => Fits(h, F + 1, t, b, 0, l, m)
<1>0. h \in [Time -> Nat]
  BY DEF Grown
<1>s. \A k : /\ Sum(h, OnDay(k)) = Sum(g, OnDay(k)) + (IF Day(at) = k THEN 1 ELSE 0)
              /\ Sum(h, From(k)) = Sum(g, From(k)) + (IF at >= k THEN 1 ELSE 0)
  BY GrantedSums
<1>n. \A k : /\ Sum(g, OnDay(k)) \in Nat /\ Sum(g, From(k)) \in Nat
              /\ Sum(h, OnDay(k)) \in Nat /\ Sum(h, From(k)) \in Nat
  BY <1>0, SumsAreNat
<1>1. /\ \A d \in Nat : /\ Sum(g, OnDay(d)) \in Nat /\ Sum(h, OnDay(d)) \in Nat
                        /\ Sum(h, OnDay(d)) <= Sum(g, OnDay(d)) + 1
      /\ \A u \in Time : /\ Sum(g, From(u)) \in Nat /\ Sum(h, From(u)) \in Nat
                         /\ Sum(h, From(u)) <= Sum(g, From(u)) + 1
  BY <1>s, <1>n
<1>2. \A b \in Budget : /\ b.today \in Nat /\ b.hour \in Nat
                        /\ Day(b.dayAt) \in Nat
  BY BudgetFields, TimeFinite, DayOrder
<1>3. Unspent(g, F) => Unspent(h, F + 1)
  BY <1>1 DEF Unspent
<1>4. ASSUME NEW b \in Budget, Fits(g, F, t, b, 0, l, m)
      PROVE  Fits(h, F + 1, t, b, 0, l, m)
  BY <1>1, <1>2, <1>4 DEF Fits
<1> QED
  BY <1>3, <1>4

LEMMA LimitNumbers ==
    /\ \A l \in Limits : l[1] \in Nat /\ l[2] \in Nat
    /\ DefaultLimits[1] \in Nat /\ DefaultLimits[2] \in Nat
  BY LaneAssumption

\* Books stay in order as time passes, limits are raised, and when the object
\* is given up by a session that fails.
LEMMA BooksLoosely ==
    ASSUME NEW tb \in [RowId -> Budget \cup {NoRow}], NEW g \in [Time -> Nat],
           NEW y \in Txn \cup {Idle}, NEW x \in {y, Idle},
           NEW F \in Nat, NEW G \in Nat, F <= G, NEW t \in Nat, NEW u \in Nat, t <= u,
           NEW l \in Nat, NEW m \in Nat, NEW k \in Nat, NEW j \in Nat, l <= k, m <= j,
           Uncounted(y, F) <= Uncounted(x, G), Books(y, tb, g, F, t, l, m)
    PROVE  Books(x, tb, g, G, u, k, j)
<1>1. Uncounted(y, F) \in Nat /\ Uncounted(x, G) \in Nat
  BY DEF Uncounted
<1>2. DefaultLimits[1] <= k /\ DefaultLimits[2] <= j
  BY LimitNumbers DEF Books
<1>3. Within(g, G, k, j)
  <2>1. /\ \A d \in Nat : Sum(g, OnDay(d)) \in Nat
        /\ \A v \in Time : Sum(g, Hour(v)) \in Nat
    BY SumsAreNat
  <2>2. Within(g, F, l, m)
    BY DEF Books
  <2> QED
    BY <2>1, <2>2 DEF Within
<1>4. ASSUME NEW b \in Budget, NEW E \in Nat, NEW H \in Nat, E <= H, NEW n \in Nat,
             Fits(g, E, t, b, n, l, m)
      PROVE  Fits(g, H, u, b, n, k, j)
  <2>1. SameCounters(b, b)
    BY DEF SameCounters
  <2>2. b.daily <= k /\ b.hourly <= j
    BY <1>4, BudgetFields DEF Fits
  <2> QED
    BY <1>4, <2>1, <2>2, FitsLoosely
<1>5. \A r \in Rows(tb) : Fits(g, Uncounted(x, G), u, tb[r], 0, k, j)
  <2> TAKE r \in Rows(tb)
  <2>1. tb[r] \in Budget
    BY DEF Rows
  <2>2. Fits(g, Uncounted(y, F), t, tb[r], 0, l, m)
    BY DEF Books
  <2> QED
    BY <1>1, <1>4, <2>1, <2>2
<1>6. Rows(tb) = {} => Unspent(g, Uncounted(x, G))
  <2>1. /\ \A d \in Nat : Sum(g, OnDay(d)) \in Nat
        /\ \A v \in Time : Sum(g, From(v)) \in Nat
    BY SumsAreNat
  <2>2. Rows(tb) = {} => Unspent(g, Uncounted(y, F))
    BY DEF Books
  <2> QED
    BY <1>1, <2>1, <2>2 DEF Unspent
<1>7. ASSUME x # Idle
      PROVE  /\ \A r \in Rows(tb) : r = x.id /\ Unassigned(x, tb[r])
             /\ Fits(g, G, u, x.budget, Pending(x), k, j)
             /\ Dated(x)
  <2>1. x = y /\ y # Idle /\ y \in Txn
    BY <1>7
  <2>2. y.budget \in Budget /\ Pending(y) \in Nat
    BY <2>1, TxnFields DEF Pending
  <2>3. Fits(g, F, t, y.budget, Pending(y), l, m)
    BY <2>1 DEF Books
  <2>4. Fits(g, G, u, y.budget, Pending(y), k, j)
    BY <1>4, <2>2, <2>3
  <2> QED
    BY <2>1, <2>4 DEF Books
<1>8. \A r, q \in Rows(tb) : r = q
  BY DEF Books
<1> QED
  BY <1>2, <1>3, <1>5, <1>6, <1>7, <1>8 DEF Books

\* An operation begins with a row that was accounted for, or with a new one.
LEMMA BooksBegin ==
    ASSUME NEW tb \in [RowId -> Budget \cup {NoRow}], NEW g \in [Time -> Nat],
           NEW F \in Nat, NEW t \in Time, NEW l \in Limits, NEW m \in Limits,
           Books(Idle, tb, g, F, t, l[1], m[2]),
           NEW x \in Txn, NEW b \in Budget, Began(x, b, t),
           \/ Rows(tb) = {} /\ b = NewBudget(t)
           \/ x.id \in Rows(tb) /\ b = tb[x.id]
    PROVE  \E k, j \in Limits : Books(x, tb, g, F, t, k[1], j[2])
<1>1. l[1] \in Nat /\ m[2] \in Nat /\ t \in Nat
  BY LimitNumbers, TimeFinite
<1>2. Uncounted(Idle, F) = F
  BY DEF Uncounted, Idle
<1>3. Fits(g, F, t, b, 0, l[1], m[2])
  <2>1. CASE Rows(tb) = {} /\ b = NewBudget(t)
    <3>1. Unspent(g, F) /\ DefaultLimits[1] <= l[1] /\ DefaultLimits[2] <= m[2]
      BY <1>2, <2>1 DEF Books
    <3> QED
      BY <1>1, <2>1, <3>1, FitsNew
  <2>2. CASE x.id \in Rows(tb) /\ b = tb[x.id]
    BY <1>2, <2>2 DEF Books
  <2> QED
    BY <2>1, <2>2
<1>4. \A r \in Rows(tb) : r = x.id /\ Unassigned(x, tb[r])
  BY DEF Books, Began
<1>5. Uncounted(x, F) = F
  BY DEF Began, Uncounted
<1>6. x.budget \in Budget /\ x.units \in Nat
  BY TxnFields
<1>7. ASSUME NEW k \in Limits, NEW j \in Limits, l[1] <= k[1], m[2] <= j[2],
             Fits(g, F, t, x.budget, Pending(x), k[1], j[2]), Dated(x)
      PROVE  Books(x, tb, g, F, t, k[1], j[2])
  <2>1. Books(Idle, tb, g, F, t, k[1], j[2])
    <3>1. PICK L \in Nat, M \in Nat, K \in Nat, J \in Nat :
                 L = l[1] /\ M = m[2] /\ K = k[1] /\ J = j[2]
      BY <1>1, LimitNumbers
    <3>2. L <= K /\ M <= J /\ Books(Idle, tb, g, F, t, L, M)
      BY <1>7, <3>1
    <3>3. PICK y \in Txn \cup {Idle} : y = Idle
      OBVIOUS
    <3>4. PICK G \in Nat, u \in Nat : G = F /\ F <= G /\ u = t /\ t <= u
      BY <1>1
    <3>5. y \in {y, Idle} /\ Uncounted(y, F) <= Uncounted(y, G)
      BY <1>2, <3>3, <3>4
    <3>6. Books(y, tb, g, G, u, K, J)
      BY <1>1, <3>2, <3>3, <3>4, <3>5, BooksLoosely
    <3> QED
      BY <3>1, <3>3, <3>4, <3>6
  <2> QED
    BY <1>2, <1>4, <1>5, <1>7, <2>1 DEF Books
<1>8. CASE /\ x.phase = "writing" /\ x.units = 0 /\ SameCounters(x.budget, b)
           /\ \/ x.budget.daily = b.daily /\ x.budget.hourly = b.hourly
              \/ \E e \in Limits : x.budget.daily = e[1] /\ x.budget.hourly = e[2]
  <2>1. Pending(x) = 0 /\ Dated(x)
    BY <1>8 DEF Pending, Dated
  <2>2. b.daily <= l[1] /\ b.hourly <= m[2]
    BY <1>3 DEF Fits
  <2>3. PICK k \in Limits, j \in Limits :
               /\ l[1] <= k[1] /\ m[2] <= j[2]
               /\ x.budget.daily <= k[1] /\ x.budget.hourly <= j[2]
    <3>1. CASE x.budget.daily = b.daily /\ x.budget.hourly = b.hourly
      BY <1>1, <2>2, <3>1
    <3>2. ASSUME NEW e \in Limits, x.budget.daily = e[1], x.budget.hourly = e[2]
          PROVE  \E k, j \in Limits :
                    /\ l[1] <= k[1] /\ m[2] <= j[2]
                    /\ x.budget.daily <= k[1] /\ x.budget.hourly <= j[2]
      <4>1. e[1] \in Nat /\ e[2] \in Nat
        BY LimitNumbers
      <4>2. \E k \in Limits : l[1] <= k[1] /\ e[1] <= k[1]
        BY <1>1, <4>1
      <4>3. \E j \in Limits : m[2] <= j[2] /\ e[2] <= j[2]
        BY <1>1, <4>1
      <4> QED
        BY <3>2, <4>2, <4>3
    <3> QED
      BY <1>8, <3>1, <3>2
  <2>4. Fits(g, F, t, x.budget, 0, k[1], j[2])
    <3>1. PICK L \in Nat, M \in Nat, K \in Nat, J \in Nat :
                 L = l[1] /\ M = m[2] /\ K = k[1] /\ J = j[2]
      BY <1>1, LimitNumbers
    <3>2. PICK G \in Nat, u \in Nat : G = F /\ F <= G /\ u = t /\ t <= u
      BY <1>1
    <3>3. Fits(g, F, t, b, 0, L, M) /\ L <= K /\ M <= J
      BY <1>3, <2>3, <3>1
    <3>4. x.budget.daily <= K /\ x.budget.hourly <= J /\ SameCounters(x.budget, b)
      BY <1>8, <2>3, <3>1
    <3>5. Fits(g, G, u, x.budget, 0, K, J)
      BY <1>1, <1>6, <3>2, <3>3, <3>4, FitsLoosely
    <3> QED
      BY <3>1, <3>2, <3>5
  <2> QED
    BY <1>7, <2>1, <2>3, <2>4
<1>9. CASE /\ x.budget = Reset(b, t)
           /\ \/ x.phase = "writing" /\ x.units = 0
              \/ x.phase = "checking" /\ x.units = 1 /\ Affordable(x.budget, 1)
  <2>1. Pending(x) = 0 /\ Dated(x)
    BY <1>9 DEF Pending, Dated
  <2>2. Fits(g, F, t, x.budget, 0, l[1], m[2])
    BY <1>1, <1>3, <1>9, FitsReset
  <2> QED
    BY <1>1, <1>7, <2>1, <2>2
<1>10. CASE /\ x.phase = "writing" /\ Affordable(Reset(b, t), x.units)
            /\ x.budget = Spend(Reset(b, t), x.units)
  <2> DEFINE c == Reset(b, t)
  <2>1. Fits(g, F, t, c, 0, l[1], m[2]) /\ c \in Budget
    BY <1>1, <1>3, FitsReset, ResetFields
  <2>2. Day(c.dayAt) = Day(t) /\ c.hourAt <= t /\ t < c.hourAt + HourLength
    BY <1>1, <1>3, FitsReset
  <2>3. Fits(g, F, t, x.budget, x.units, l[1], m[2])
    BY <1>1, <1>6, <1>10, <2>1, FitsSpend
  <2>0. x.budget = Spend(c, x.units)
    BY <1>10
  <2>5. x.at = t
    BY DEF Began
  <2> HIDE DEF c
  <2>4. x.budget.dayAt = c.dayAt /\ x.budget.hourAt = c.hourAt
    <3>1. Spend(c, x.units).dayAt = c.dayAt /\ Spend(c, x.units).hourAt = c.hourAt
      BY <1>6, <2>1, SpendFields
    <3> QED
      BY <2>0, <3>1
  <2>6. Pending(x) = x.units /\ Dated(x)
    BY <1>10, <2>2, <2>4, <2>5 DEF Pending, Dated
  <2> QED
    BY <1>1, <1>7, <2>3, <2>6
<1> QED
  BY <1>8, <1>9, <1>10 DEF Began

\* What a push hands out.
PushedBy(y, g) == IF y.phase = "spent" THEN [g EXCEPT ![y.at] = @ + 1] ELSE g

\* A promotion counts its unit, hands it out, and has it uncounted in the row
\* until its commit.
LEMMA BooksContinue ==
    ASSUME NEW tb \in [RowId -> Budget \cup {NoRow}], NEW g \in [Time -> Nat],
           NEW F \in Nat, NEW t \in Time, NEW l \in Nat, NEW m \in Nat,
           NEW y \in Txn, NEW x \in Txn,
           Books(y, tb, g, F, t, l, m), Continued(y, x, t),
           y.phase = "spent" => x.phase \in {"pushed"}
    PROVE  Books(x, tb, PushedBy(y, g), F, t, l, m)
<1>1. /\ y # Idle /\ x # Idle /\ y.budget \in Budget /\ y.at \in Time /\ y.units \in Nat
      /\ x.budget \in Budget /\ x.units \in Nat /\ t \in Nat
  BY TxnFields, TimeFinite
<1>2. /\ \A r \in Rows(tb) : r = y.id /\ Unassigned(y, tb[r])
      /\ Fits(g, F, t, y.budget, Pending(y), l, m) /\ Dated(y)
      /\ Within(g, F, l, m)
  BY <1>1 DEF Books
<1>3. CASE /\ x.budget = y.budget /\ x.dirty = y.dirty /\ x.at = y.at
           /\ y.phase \notin {"spent", "popped"}
  <2>1. /\ PushedBy(y, g) = g
        /\ Uncounted(y, F) = Uncounted(x, F)
    BY <1>3 DEF Continued, Flushes, PushedBy, Uncounted
  <2>2. Pending(x) = Pending(y)
    BY <1>3 DEF Continued, Flushes, Pending
  <2>3. Dated(x) /\ \A r \in Rows(tb) : r = x.id /\ Unassigned(x, tb[r])
    BY <1>2, <1>3, <2>2 DEF Dated, Unassigned, Continued
  <2> QED
    BY <1>1, <1>2, <1>3, <2>1, <2>2, <2>3 DEF Books
<1>4. CASE y.phase = "spent"
  <2>1. /\ x.phase = "pushed" /\ x.budget = y.budget /\ x.dirty = y.dirty
        /\ x.id = y.id
    BY <1>4 DEF Continued, Flushes
  <2>2. Pending(y) = 1 /\ Pending(x) = 0 /\ Dated(x)
    BY <1>4, <2>1 DEF Pending, Dated
  <2>3. PICK at \in Time, n \in Nat : at = y.at /\ n = 1
    BY <1>1
  <2> DEFINE h == [g EXCEPT ![at] = @ + n]
  <2>a. Grown(Time, g, h, at, n) /\ Grown(Time, g, h, at, 1)
    BY <2>3, GrowsAt
  <2>b. PushedBy(y, g) = h
    BY <1>4, <2>3 DEF PushedBy
  <2> HIDE DEF h
  <2>c. /\ Fits(g, F, t, x.budget, n, l, m)
        /\ n > 0 => /\ Day(at) = Day(x.budget.dayAt) /\ x.budget.hourAt <= at
                    /\ at < x.budget.hourAt + HourLength
    BY <1>2, <2>1, <2>2, <2>3 DEF Dated
  <2>d. Fits(h, F, t, x.budget, 0, l, m) /\ Within(h, F, l, m)
    BY <1>1, <1>2, <2>a, <2>c, FitsGrant
  <2>4. /\ Unspent(g, F) => Unspent(h, F + 1)
        /\ \A b \in Budget : Fits(g, F, t, b, 0, l, m) => Fits(h, F + 1, t, b, 0, l, m)
    BY <1>1, <2>a, FitsUncounted
  <2>6. Uncounted(y, F) = F /\ Uncounted(x, F) = F + 1
    BY <1>4, <2>1 DEF Uncounted
  <2>7. \A r \in Rows(tb) : tb[r] \in Budget
    BY DEF Rows
  <2>8. \A r \in Rows(tb) : Fits(h, F + 1, t, tb[r], 0, l, m)
    BY <2>4, <2>6, <2>7 DEF Books
  <2>9. Rows(tb) = {} => Unspent(h, F + 1)
    BY <2>4, <2>6 DEF Books
  <2>10. \A r \in Rows(tb) : r = x.id /\ Unassigned(x, tb[r])
    BY <1>2, <2>1 DEF Unassigned
  <2> QED
    BY <2>2, <2>d, <2>b, <2>6, <2>8, <2>9, <2>10 DEF Books
<1>5. CASE /\ y.phase = "popped" /\ x.phase = "spending" /\ x.at = t
           /\ Affordable(Reset(y.budget, t), 1)
           /\ x.budget = Spend(Reset(y.budget, t), 1)
           /\ Unassigned(x, y.budget) /\ y.dirty \subseteq x.dirty
  <2> DEFINE c == Reset(y.budget, t)
  <2>1. Pending(y) = 0 /\ Pending(x) = 1
    BY <1>5 DEF Pending
  <2>2. /\ c \in Budget
        /\ Fits(g, F, t, c, 0, l, m)
        /\ Day(c.dayAt) = Day(t) /\ c.hourAt <= t /\ t < c.hourAt + HourLength
    BY <1>1, <1>2, <2>1, FitsReset, ResetFields
  <2>3. x.budget = Spend(c, 1) /\ Affordable(c, 1)
    BY <1>5
  <2> HIDE DEF c
  <2>4. Fits(g, F, t, x.budget, 1, l, m)
    BY <2>2, <2>3, FitsSpend
  <2>5. Dated(x)
    <3>1. Spend(c, 1).dayAt = c.dayAt /\ Spend(c, 1).hourAt = c.hourAt
      BY <2>2, SpendFields
    <3> QED
      BY <1>5, <2>2, <2>3, <3>1 DEF Dated
  <2>6. Uncounted(y, F) = F /\ Uncounted(x, F) = F /\ PushedBy(y, g) = g
    BY <1>5 DEF Uncounted, PushedBy
  <2>7. x.id = y.id
    BY DEF Continued
  <2>8. \A r \in Rows(tb) : r = x.id /\ Unassigned(x, tb[r])
    BY <1>2, <1>5, <2>7 DEF Unassigned
  <2> QED
    BY <2>1, <2>4, <2>5, <2>6, <2>8 DEF Books
<1> QED
  BY <1>3, <1>4, <1>5 DEF Continued, Flushes

\* What an operation hands out when it is answered.
AnsweredBy(y, g) ==
    IF y.phase = "written" THEN [g EXCEPT ![y.at] = @ + y.units] ELSE g

\* A commit writes the object, its units handed out, as the only row.
LEMMA BooksCommit ==
    ASSUME NEW tb \in [RowId -> Budget \cup {NoRow}], NEW g \in [Time -> Nat],
           NEW F \in Nat, NEW t \in Time, NEW l \in Nat, NEW m \in Nat,
           NEW y \in Txn, y.phase \in {"written", "pushed"},
           Books(y, tb, g, F, t, l, m),
           NEW row \in Budget,
           row = IF tb[y.id] = NoRow THEN y.budget ELSE Merge(tb[y.id], y.budget, y.dirty)
    PROVE  Books(Idle, [tb EXCEPT ![y.id] = row], AnsweredBy(y, g), F, t, l, m)
<1> DEFINE h == AnsweredBy(y, g)
<1>1. /\ y # Idle /\ y.budget \in Budget /\ y.at \in Time /\ y.units \in Nat
      /\ y.id \in RowId /\ t \in Nat
  BY TxnFields, TimeFinite
<1>2. /\ \A r \in Rows(tb) : r = y.id /\ Unassigned(y, tb[r])
      /\ Fits(g, F, t, y.budget, Pending(y), l, m) /\ Dated(y)
      /\ Within(g, F, l, m)
  BY <1>1 DEF Books
<1>3. row = y.budget
  <2>1. CASE tb[y.id] = NoRow
    BY <2>1
  <2>2. CASE tb[y.id] # NoRow
    <3>1. tb[y.id] \in Budget /\ Unassigned(y, tb[y.id])
      BY <1>1, <1>2, <2>2 DEF Rows
    <3>2. row = Merge(tb[y.id], y.budget, y.dirty)
      BY <2>2
    <3>3. \A f \in Column : row[f] = y.budget[f]
      BY <1>1, <3>1, <3>2, MergeFields DEF Unassigned
    <3> QED
      BY <1>1, <3>3, BudgetsEqual
  <2> QED
    BY <2>1, <2>2
<1>4. Fits(h, F, t, y.budget, 0, l, m) /\ Within(h, F, l, m)
  <2>1. CASE y.phase = "written"
    <3>1. Pending(y) = y.units
      BY <2>1 DEF Pending
    <3>2. PICK at \in Time, n \in Nat : at = y.at /\ n = y.units
      BY <1>1
    <3>4. Grown(Time, g, h, at, n)
      BY <1>1, <2>1, <3>2, GrowsAt DEF AnsweredBy
    <3>3. /\ Fits(g, F, t, y.budget, n, l, m)
          /\ n > 0 => /\ Day(at) = Day(y.budget.dayAt) /\ y.budget.hourAt <= at
                      /\ at < y.budget.hourAt + HourLength
      BY <1>2, <3>1, <3>2 DEF Dated
    <3> HIDE DEF h
    <3> QED
      BY <1>1, <1>2, <3>3, <3>4, FitsGrant
  <2>2. CASE y.phase = "pushed"
    BY <1>2, <2>2 DEF Pending, AnsweredBy
  <2> QED
    BY <2>1, <2>2
<1> DEFINE tc == [tb EXCEPT ![y.id] = row]
<1>5. Rows(tc) = {y.id} /\ tc[y.id] = y.budget
  BY <1>1, <1>2, <1>3, NoRowAssumption DEF Rows
<1>6. Uncounted(Idle, F) = F
  BY DEF Uncounted, Idle
<1>7. DefaultLimits[1] <= l /\ DefaultLimits[2] <= m
  BY DEF Books
<1> HIDE DEF tc, h
<1>8. \A r \in Rows(tc) : Fits(h, F, t, tc[r], 0, l, m)
  BY <1>4, <1>5
<1> QED
  BY <1>4, <1>5, <1>6, <1>7, <1>8 DEF Books, tc, h

LEMMA SerialInit ==
    ASSUME NEW s \in Session, Init PROVE SerialInv(s)
<1>1. /\ granted \in [Time -> Nat] /\ \A t \in Time : granted[t] = 0
      /\ failures = 0 /\ now = 0 /\ txn[s] = Idle
      /\ \A r \in RowId : table[r] = (IF r = Seed THEN table[Seed] ELSE NoRow)
      /\ table[Seed] \in {NewBudget(0), NoRow} /\ Seed \in RowId
  BY DEF Init, RowId
<1>2. ASSUME NEW S \in SUBSET Time PROVE Sum(granted, S) = 0
  <2>1. IsFiniteSet(S)
    BY TimeFinite, FS_Subset
  <2> QED
    BY <1>1, <2>1, SumOfNone
<1>3. /\ \A k : Sum(granted, OnDay(k)) = 0 /\ Sum(granted, From(k)) = 0
                /\ Sum(granted, Hour(k)) = 0
  <2>1. \A k : /\ OnDay(k) \in SUBSET Time /\ From(k) \in SUBSET Time
               /\ Hour(k) \in SUBSET Time
    BY DEF OnDay, From, Hour
  <2> QED
    BY <1>2, <2>1
<1>4. PICK l \in Limits, m \in Limits : l = DefaultLimits /\ m = DefaultLimits
  BY LaneAssumption
<1>5. l[1] \in Nat /\ m[2] \in Nat /\ 0 \in Time
  BY LimitNumbers, LaneAssumption DEF Time
<1>6. Unspent(granted, 0) /\ Within(granted, 0, l[1], m[2])
  BY <1>3, <1>5 DEF Unspent, Within
<1>7. Fits(granted, 0, 0, NewBudget(0), 0, l[1], m[2])
  BY <1>1, <1>4, <1>5, <1>6, FitsNew
<1>8. Uncounted(Idle, 0) = 0
  BY DEF Uncounted, Idle
<1>9. \A r \in Rows(table) : r = Seed /\ table[r] = NewBudget(0)
  BY <1>1 DEF Rows
<1>10. Books(txn[s], table, granted, failures, now, l[1], m[2])
  BY <1>1, <1>4, <1>5, <1>6, <1>7, <1>8, <1>9 DEF Books
<1> QED
  BY <1>10, InvInit DEF SerialInv

\* What a step other than a push hands out.
LEMMA ContinueGrants ==
    ASSUME TypeOK, NEW s \in Session, Continues(s)
    PROVE  /\ granted' = PushedBy(txn[s], granted)
           /\ txn[s].phase = "spent" => txn'[s].phase \in {"pushed"}
<1>1. txn[s] \in Txn
  BY ContinueStep
<1>2. CASE Push(s)
  <2>1. PICK x \in Txn : txn' = [txn EXCEPT ![s] = x] /\ Continued(txn[s], x, now)
    BY ContinueStep
  <2>2. txn'[s] = x
    BY <2>1 DEF TypeOK
  <2>3. txn[s].phase = "spent" /\ granted' = [granted EXCEPT ![txn[s].at] = @ + 1]
    BY <1>2 DEF Push
  <2>4. x.phase = "pushed"
    BY <2>1, <2>3 DEF Continued, Flushes
  <2> QED
    BY <2>2, <2>3, <2>4 DEF PushedBy
<1>3. CASE ~Push(s)
  <2>1. granted' = granted /\ txn[s].phase # "spent"
    BY <1>3 DEF Continues, Pop, PopEmpty, SpendHeld, Flush
  <2> QED
    BY <2>1 DEF PushedBy
<1> QED
  BY <1>2, <1>3

LEMMA SerialInductive ==
    ASSUME NEW s \in Session, Session = {s}, SerialInv(s), [Next]_vars
    PROVE  SerialInv(s)'
<1>1. Inv /\ Inv' /\ TypeOK
  BY InvInductive DEF SerialInv, Inv
<1>2. /\ table \in [RowId -> Budget \cup {NoRow}] /\ granted \in [Time -> Nat]
      /\ failures \in Nat /\ now \in Time /\ now \in Nat
      /\ txn \in [Session -> Txn \cup {Idle}] /\ txn[s] \in Txn \cup {Idle}
  BY <1>1, LaneAssumption, TimeFinite DEF TypeOK
<1>3. Rows(table) = Present
  BY DEF Rows, Present
<1>4. PICK l \in Limits, m \in Limits :
             Books(txn[s], table, granted, failures, now, l[1], m[2])
  BY DEF SerialInv
<1>5. PICK L \in Nat, M \in Nat : L = l[1] /\ M = m[2]
  BY LimitNumbers
<1>6. Books(txn[s], table, granted, failures, now, L, M)
  BY <1>4, <1>5
<1>7. SUFFICES \E k, j \in Limits :
                  Books(txn'[s], table', granted', failures', now', k[1], j[2])
  BY <1>1 DEF SerialInv
<1>8. SUFFICES ASSUME ~ Books(txn'[s], table', granted', failures', now', L, M)
               PROVE  \E k, j \in Limits :
                         Books(txn'[s], table', granted', failures', now', k[1], j[2])
  BY <1>5
<1>9. CASE UNCHANGED vars \/ Tick
  <2>1. /\ UNCHANGED <<table, txn, granted, failures>>
        /\ now' \in Nat /\ now <= now'
    BY <1>2, <1>9 DEF vars, Tick
  <2>2. PICK y \in Txn \cup {Idle}, F \in Nat, G \in Nat, u \in Nat :
               /\ y = txn[s] /\ F = failures /\ G = failures /\ F <= G
               /\ u = now' /\ now <= u
    BY <1>2, <2>1
  <2>3. Uncounted(y, F) <= Uncounted(y, G) /\ y \in {y, Idle} /\ L <= L /\ M <= M
    BY <2>2 DEF Uncounted
  <2>4. Books(y, table, granted, G, u, L, M)
    BY <1>2, <1>6, <2>2, <2>3, BooksLoosely
  <2> QED
    BY <1>8, <2>1, <2>2, <2>4
<1>10. CASE SpendRaises(s) \/ Rollback(s)
  <2>1. /\ txn' = [txn EXCEPT ![s] = Idle] /\ UNCHANGED <<table, granted, now>>
        /\ \/ failures' = failures /\ txn[s].phase = "popped"
           \/ failures' = failures + 1
    BY <1>10 DEF SpendRaises, Rollback
  <2>2. txn'[s] = Idle
    BY <1>2, <2>1
  <2>3. PICK y \in Txn \cup {Idle}, x \in {txn[s], Idle}, F \in Nat, G \in Nat, u \in Nat :
               /\ y = txn[s] /\ F = failures /\ G = failures' /\ F <= G
               /\ u = now /\ now <= u /\ x = Idle
    BY <1>2, <2>1
  <2>4. /\ x \in {y, Idle} /\ Uncounted(y, F) <= Uncounted(x, G)
        /\ L <= L /\ M <= M
    BY <2>1, <2>3 DEF Uncounted, Idle
  <2>5. Books(x, table, granted, G, u, L, M)
    BY <1>2, <1>6, <2>3, <2>4, BooksLoosely
  <2> QED
    BY <1>8, <2>1, <2>2, <2>3, <2>5
<1>11. CASE Begins(s)
  <2>1. /\ txn[s] = Idle /\ UNCHANGED <<table, place, now, granted, failures>>
        /\ \E x \in Txn : /\ txn' = [txn EXCEPT ![s] = x] /\ x.id = RowOf(s)
                          /\ Began(x, Loaded(s), now)
    BY <1>1, <1>11, BeginStep
  <2>2. PICK x \in Txn : /\ txn' = [txn EXCEPT ![s] = x] /\ x.id = RowOf(s)
                         /\ Began(x, Loaded(s), now)
    BY <2>1
  <2>3. txn'[s] = x
    BY <1>2, <2>2
  <2>4. Loaded(s) \in Budget
    BY <1>1, LoadedType
  <2>5. \/ Rows(table) = {} /\ Loaded(s) = NewBudget(now)
        \/ x.id \in Rows(table) /\ Loaded(s) = table[x.id]
    BY <1>3, <2>2 DEF Loaded, RowOf
  <2>6. Books(Idle, table, granted, failures, now, l[1], m[2])
    BY <1>4, <2>1
  <2>7. \E k, j \in Limits : Books(x, table, granted, failures, now, k[1], j[2])
    BY <1>2, <2>2, <2>4, <2>5, <2>6, BooksBegin
  <2> QED
    BY <2>1, <2>3, <2>7
<1>12. CASE Continues(s)
  <2>1. /\ txn[s] \in Txn /\ UNCHANGED <<table, now, failures>>
        /\ \E x \in Txn : txn' = [txn EXCEPT ![s] = x] /\ Continued(txn[s], x, now)
    BY <1>1, <1>12, ContinueStep
  <2>2. PICK x \in Txn : txn' = [txn EXCEPT ![s] = x] /\ Continued(txn[s], x, now)
    BY <2>1
  <2>3. txn'[s] = x
    BY <1>2, <2>2
  <2>4. /\ granted' = PushedBy(txn[s], granted)
        /\ txn[s].phase = "spent" => x.phase \in {"pushed"}
    BY <1>1, <1>12, <2>3, ContinueGrants
  <2>5. Books(x, table, PushedBy(txn[s], granted), failures, now, L, M)
    BY <1>2, <1>6, <2>1, <2>2, <2>4, BooksContinue
  <2> QED
    BY <1>8, <2>1, <2>3, <2>4, <2>5
<1>13. CASE Commit(s)
  <2>1. PICK y \in Txn : y = txn[s]
    BY <1>1, <1>13, CommitStep
  <2>2. PICK row \in Budget :
          row = IF table[y.id] = NoRow THEN y.budget
                ELSE Merge(table[y.id], y.budget, y.dirty)
    <3>1. y.id \in RowId
      BY TxnFields
    <3>2. table'[y.id] \in Budget
      BY <1>1, <1>13, <2>1, CommitStep
    <3>3. table'[y.id] = IF table[y.id] = NoRow THEN y.budget
                         ELSE Merge(table[y.id], y.budget, y.dirty)
      BY <1>1, <1>2, <1>13, <2>1, <3>1, CommitStep
    <3> QED
      BY <3>2, <3>3
  <2>3. /\ table' = [table EXCEPT ![y.id] = row]
        /\ y.phase \in {"written", "pushed"}
        /\ txn' = [txn EXCEPT ![s] = Idle]
        /\ granted' = AnsweredBy(y, granted)
        /\ UNCHANGED <<place, now, failures>>
    BY <1>1, <1>13, <2>1, <2>2, CommitStep DEF AnsweredBy
  <2>4. txn'[s] = Idle
    BY <1>2, <2>3
  <2>6. Books(Idle, [table EXCEPT ![y.id] = row], AnsweredBy(y, granted), failures,
              now, L, M)
    BY <1>2, <1>6, <2>1, <2>2, <2>3, BooksCommit
  <2> QED
    BY <1>8, <2>3, <2>4, <2>6
<1> QED
  BY <1>9, <1>10, <1>11, <1>12, <1>13, NextCases

LEMMA SerialAlways ==
    ASSUME NEW CONSTANT s \in Session, Session = {s}
    PROVE  Spec => []SerialInv(s)
<1>1. Init => SerialInv(s)
  BY SerialInit
<1>2. SerialInv(s) /\ [Next]_vars => SerialInv(s)'
  BY SerialInductive
<1> QED
  BY <1>1, <1>2, PTL DEF Spec

\* The sum over a set of ticks as the model writes it.
LEMMA GrantedIsSum ==
    ASSUME NEW S \in SUBSET Time PROVE GrantedIn(S) = Sum(granted, S)
<1>1. S \cap Time = S
  OBVIOUS
<1> QED
  BY <1>1 DEF GrantedIn, Sum

\* One session at a time hands out no more on a day than the greatest
\* daily limit the lane is ever given and a unit for each session that failed.
THEOREM OneSessionKeepsDays ==
    ASSUME NEW CONSTANT s \in Session, Session = {s}
    PROVE  Spec => []DayWithinLimit
<1>1. SerialInv(s) => DayWithinLimit
  <2> SUFFICES ASSUME SerialInv(s) PROVE DayWithinLimit
    OBVIOUS
  <2>1. PICK l \in Limits, m \in Limits : Within(granted, failures, l[1], m[2])
    BY DEF SerialInv, Books
  <2>2. ASSUME NEW t \in Time
        PROVE  GrantedIn({v \in Time : Day(v) = Day(t)}) <= l[1] + failures
    <3>1. OnDay(Day(t)) \in SUBSET Time /\ Day(t) \in Nat
      BY DayOrder, TimeFinite DEF OnDay
    <3>2. GrantedIn(OnDay(Day(t))) = Sum(granted, OnDay(Day(t)))
      BY <3>1, GrantedIsSum
    <3>3. Sum(granted, OnDay(Day(t))) <= l[1] + failures
      BY <2>1, <3>1 DEF Within
    <3> QED
      BY <3>2, <3>3 DEF OnDay
  <2> QED
    BY <2>2 DEF DayWithinLimit
<1> QED
  BY <1>1, SerialAlways, PTL

\* One session at a time hands out in any hour at most twice the greatest
\* hourly limit the lane is ever given, and a unit for each session that failed.
THEOREM OneSessionKeepsHours ==
    ASSUME NEW CONSTANT s \in Session, Session = {s}
    PROVE  Spec => []HourWithinTwice
<1>1. SerialInv(s) => HourWithinTwice
  <2> SUFFICES ASSUME SerialInv(s) PROVE HourWithinTwice
    OBVIOUS
  <2>1. PICK l \in Limits, m \in Limits : Within(granted, failures, l[1], m[2])
    BY DEF SerialInv, Books
  <2>2. ASSUME NEW t \in Time
        PROVE  GrantedIn(t..(t + HourLength - 1)) <= 2 * m[2] + failures
    <3>1. /\ Hour(t) \in SUBSET Time /\ Hour(t) \cap Time = Hour(t)
          /\ Hour(t) = (t..(t + HourLength - 1)) \cap Time
      BY DEF Hour
    <3>2. GrantedIn(t..(t + HourLength - 1)) = Sum(granted, Hour(t))
      BY <3>1 DEF GrantedIn, Sum
    <3>3. Sum(granted, Hour(t)) <= 2 * m[2] + failures
      BY <2>1 DEF Within
    <3> QED
      BY <3>2, <3>3
  <2> QED
    BY <2>2 DEF HourWithinTwice
<1> QED
  BY <1>1, SerialAlways, PTL
=============================================================================
