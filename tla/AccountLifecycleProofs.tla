----------------------- MODULE AccountLifecycleProofs -----------------------
(***************************************************************************)
(* Proofs about AccountLifecycle, for any accounts, sessions, keys and     *)
(* bound.                                                                   *)
(***************************************************************************)
EXTENDS AccountLifecycle, TLAPS

\* The table maps states to sets of states.
LEMMA TableType == VALID_TRANSITIONS \in [AccountState -> SUBSET AccountState]
  BY DEF VALID_TRANSITIONS, AccountState

LEMMA DefaultType == DefaultState \in AccountState
  BY DEF DefaultState, AccountState

LEMMA TypeInit == Init => TypeOK
  BY DefaultType DEF Init, TypeOK, Row, Idle

LEMMA TypeInductive == TypeOK /\ [Next]_vars => TypeOK'
<1> SUFFICES ASSUME TypeOK, [Next]_vars PROVE TypeOK'
  OBVIOUS
<1>1. CASE UNCHANGED vars
  BY <1>1 DEF TypeOK, vars
<1>2. ASSUME NEW s \in Session, NEW a \in Account, NEW t \in AccountState,
             NEW k \in Key \cup {NoKey}, Begin(s, a, t, k)
      PROVE  TypeOK'
  BY <1>2 DEF Begin, TypeOK, Row, OpenTxn, Idle
<1>3. ASSUME NEW s \in Session, UpdateRow(s) \/ InsertAudit(s)
      PROVE  TypeOK'
  <2>1. txn[s] \in OpenTxn
    BY <1>3 DEF UpdateRow, InsertAudit, TypeOK, Idle
  <2>2. PICK p \in {"updated", "flushed"} :
          txn' = [txn EXCEPT ![s] = [txn[s] EXCEPT !.phase = p]]
    BY <1>3 DEF UpdateRow, InsertAudit
  <2>3. [txn[s] EXCEPT !.phase = p] \in OpenTxn
    BY <2>1, <2>2 DEF OpenTxn
  <2>4. UNCHANGED <<row, audit>>
    BY <1>3 DEF UpdateRow, InsertAudit
  <2> QED
    BY <2>2, <2>3, <2>4 DEF TypeOK
<1>4. ASSUME NEW s \in Session, DuplicateKey(s) \/ Rollback(s)
      PROVE  TypeOK'
  BY <1>4 DEF DuplicateKey, Rollback, TypeOK
<1>5. ASSUME NEW s \in Session, Commit(s)
      PROVE  TypeOK'
  <2>1. txn[s] \in OpenTxn
    BY <1>5 DEF Commit, TypeOK, Idle
  <2> QED
    BY <1>5, <2>1 DEF Commit, TypeOK, OpenTxn, Row, AuditEvent
<1> QED
  BY <1>1, <1>2, <1>3, <1>4, <1>5 DEF Next

\* The variables keep their types, under every interleaving of the sessions.
THEOREM TypeCorrect == Spec => []TypeOK
  BY TypeInit, TypeInductive, PTL DEF Spec

-----------------------------------------------------------------------------
(* Legality of the audited steps.  The property alone is not inductive: an *)
(* open transaction carries the state it read, which may no longer be the  *)
(* row's, so the invariant remembers that the account was in it once.      *)

\* Account a has been in state x, by the log.
Reached(a, x) ==
    \/ x = DefaultState
    \/ \E j \in DOMAIN audit : audit[j].account = a /\ audit[j].new = x

RowsReached == \A a \in Account : Reached(a, row[a].state)

TxnsLegal ==
    \A s \in Session : txn[s] # Idle =>
        /\ Reached(txn[s].account, txn[s].old)
        /\ CanTransition(txn[s].old, txn[s].target)

LegalInv == TypeOK /\ RowsReached /\ TxnsLegal /\ AuditedStepsAreLegal

\* The log only grows, so what was reached stays reached.
LEMMA ReachedGrows ==
    ASSUME TypeOK, NEW e \in AuditEvent, audit' = Append(audit, e)
    PROVE  /\ \A a, x : Reached(a, x) => Reached(a, x)'
           /\ Reached(e.account, e.new)'
           /\ DOMAIN audit' = 1..(Len(audit) + 1)
           /\ \A i \in 1..Len(audit) : audit'[i] = audit[i]
           /\ audit'[Len(audit) + 1] = e
<1>1. audit \in Seq(AuditEvent)
  BY DEF TypeOK
<1>2. /\ Len(audit) \in Nat
      /\ DOMAIN audit = 1..Len(audit)
      /\ DOMAIN audit' = 1..(Len(audit) + 1)
      /\ \A i \in 1..Len(audit) : audit'[i] = audit[i]
      /\ audit'[Len(audit) + 1] = e
  BY <1>1
<1>3. \A a, x : Reached(a, x) => Reached(a, x)'
  BY <1>2 DEF Reached
<1>4. Reached(e.account, e.new)'
  BY <1>2 DEF Reached
<1> QED
  BY <1>2, <1>3, <1>4

\* What the steps that are not commits do to the rows and the log: nothing.
LEMMA OnlyCommitWrites ==
    ASSUME [Next]_vars
    PROVE  \/ \E s \in Session : Commit(s)
           \/ UNCHANGED <<row, audit>>
  BY DEF Next, vars, Begin, UpdateRow, InsertAudit, DuplicateKey, Rollback

\* A step keeps a session's transaction, opens it, ends it, or moves it on.
LEMMA TxnStep ==
    ASSUME TypeOK, [Next]_vars, NEW s \in Session, txn'[s] # Idle
    PROVE  \/ txn'[s] = txn[s]
           \/ /\ txn[s] # Idle
              /\ \/ txn'[s] = [txn[s] EXCEPT !.phase = "updated"]
                 \/ txn'[s] = [txn[s] EXCEPT !.phase = "flushed"]
           \/ /\ UNCHANGED <<row, audit>>
              /\ \E a \in Account, t \in AccountState, k \in Key \cup {NoKey} :
                   /\ CanTransition(row[a].state, t)
                   /\ txn'[s] = [phase |-> "assigned", account |-> a,
                                 old |-> row[a].state, target |-> t,
                                 version |-> row[a].version + 1, key |-> k]
<1> DEFINE Opened ==
      \E a \in Account, t \in AccountState, k \in Key \cup {NoKey} :
        /\ CanTransition(row[a].state, t)
        /\ txn'[s] = [phase |-> "assigned", account |-> a,
                      old |-> row[a].state, target |-> t,
                      version |-> row[a].version + 1, key |-> k]
<1>1. CASE UNCHANGED vars
  BY <1>1 DEF vars
<1>2. ASSUME NEW o \in Session,
             \E a \in Account, t \in AccountState, k \in Key \cup {NoKey} :
               Begin(o, a, t, k)
      PROVE  txn'[s] = txn[s] \/ (UNCHANGED <<row, audit>> /\ Opened)
  BY <1>2 DEF Begin, TypeOK
<1>3. ASSUME NEW o \in Session, UpdateRow(o)
      PROVE  \/ txn'[s] = txn[s]
             \/ txn[s] # Idle /\ txn'[s] = [txn[s] EXCEPT !.phase = "updated"]
  BY <1>3 DEF UpdateRow, TypeOK, Idle
<1>4. ASSUME NEW o \in Session, InsertAudit(o)
      PROVE  \/ txn'[s] = txn[s]
             \/ txn[s] # Idle /\ txn'[s] = [txn[s] EXCEPT !.phase = "flushed"]
  <2>1. /\ txn[o].phase = "updated"
        /\ txn' = [txn EXCEPT ![o].phase = "flushed"]
    BY <1>4 DEF InsertAudit
  <2> QED
    BY <2>1 DEF TypeOK, Idle
<1>5. ASSUME NEW o \in Session, DuplicateKey(o) \/ Rollback(o) \/ Commit(o)
      PROVE  txn'[s] = txn[s]
  BY <1>5 DEF DuplicateKey, Rollback, Commit, TypeOK
<1>6. CASE Next
  <2>1. PICK o \in Session :
          \/ \E a \in Account, t \in AccountState, k \in Key \cup {NoKey} :
               Begin(o, a, t, k)
          \/ UpdateRow(o)
          \/ InsertAudit(o)
          \/ DuplicateKey(o) \/ Rollback(o) \/ Commit(o)
    BY <1>6 DEF Next
  <2> QED
    BY <2>1, <1>2, <1>3, <1>4, <1>5
<1> QED
  BY <1>1, <1>6

LEMMA LegalInductive == LegalInv /\ [Next]_vars => LegalInv'
<1> SUFFICES ASSUME LegalInv, [Next]_vars, TypeOK' PROVE LegalInv'
  BY TypeInductive DEF LegalInv
<1>0. TypeOK
  BY DEF LegalInv
<1>1. CASE \E s \in Session : Commit(s)
  <2> PICK s \in Session : Commit(s)
    BY <1>1
  <2>1. txn[s] \in OpenTxn /\ txn[s] # Idle
    BY <1>0 DEF Commit, TypeOK, Idle
  <2>2. PICK e \in AuditEvent :
          /\ audit' = Append(audit, e)
          /\ e.account = txn[s].account
          /\ e.old = txn[s].old
          /\ e.new = txn[s].target
    BY <2>1 DEF Commit, OpenTxn, AuditEvent
  <2>3. Reached(txn[s].account, txn[s].old)
        /\ CanTransition(txn[s].old, txn[s].target)
    BY <2>1 DEF LegalInv, TxnsLegal
  <2>4. /\ \A a, x : Reached(a, x) => Reached(a, x)'
        /\ Reached(e.account, e.new)'
        /\ DOMAIN audit' = 1..(Len(audit) + 1)
        /\ \A i \in 1..Len(audit) : audit'[i] = audit[i]
        /\ audit'[Len(audit) + 1] = e
    BY <1>0, <2>2, ReachedGrows
  <2>5. RowsReached'
    <3>1. SUFFICES ASSUME NEW a \in Account PROVE Reached(a, row[a].state)'
      BY DEF RowsReached
    <3>2. CASE a = txn[s].account
      BY <1>0, <2>2, <2>4, <3>2 DEF Commit, TypeOK
    <3>3. CASE a # txn[s].account
      BY <1>0, <2>4, <3>3 DEF Commit, TypeOK, LegalInv, RowsReached
    <3> QED
      BY <3>2, <3>3
  <2>6. TxnsLegal'
    <3>1. \A o \in Session : txn'[o] = txn[o] \/ txn'[o] = Idle
      BY <1>0 DEF Commit, TypeOK
    <3> QED
      BY <2>4, <3>1 DEF LegalInv, TxnsLegal
  <2>7. AuditedStepsAreLegal'
    <3>1. audit \in Seq(AuditEvent) /\ Len(audit) \in Nat /\ DOMAIN audit = 1..Len(audit)
      BY <1>0 DEF TypeOK
    <3>2. ASSUME NEW i \in 1..Len(audit)
          PROVE  /\ CanTransition(audit'[i].old, audit'[i].new)
                 /\ \/ audit'[i].old = DefaultState
                    \/ \E j \in 1..(i - 1) : /\ audit'[j].account = audit'[i].account
                                             /\ audit'[j].new = audit'[i].old
      <4>1. 1..(i - 1) \subseteq 1..Len(audit)
        BY <3>1
      <4> QED
        BY <2>4, <3>1, <4>1 DEF LegalInv, AuditedStepsAreLegal
    <3>3. CanTransition(e.old, e.new)
      BY <2>2, <2>3
    <3>4. \/ e.old = DefaultState
          \/ \E j \in 1..Len(audit) : /\ audit'[j].account = e.account
                                      /\ audit'[j].new = e.old
      BY <2>2, <2>3, <2>4, <3>1 DEF Reached
    <3>5. Len(audit) + 1 - 1 = Len(audit)
      BY <3>1
    <3>6. \A i \in 1..(Len(audit) + 1) : i \in 1..Len(audit) \/ i = Len(audit) + 1
      BY <3>1
    <3> QED
      BY <2>4, <3>2, <3>3, <3>4, <3>5, <3>6 DEF AuditedStepsAreLegal
  <2> QED
    BY <2>5, <2>6, <2>7 DEF LegalInv
<1>2. CASE UNCHANGED <<row, audit>>
  <2>1. RowsReached' /\ AuditedStepsAreLegal'
    BY <1>2 DEF LegalInv, RowsReached, Reached, AuditedStepsAreLegal
  <2>2. ASSUME NEW s \in Session, txn'[s] # Idle
        PROVE  /\ Reached(txn'[s].account, txn'[s].old)
               /\ CanTransition(txn'[s].old, txn'[s].target)
    <3>1. CASE txn'[s] = txn[s]
      BY <2>2, <3>1 DEF LegalInv, TxnsLegal
    <3>2. ASSUME txn[s] # Idle,
                 \/ txn'[s] = [txn[s] EXCEPT !.phase = "updated"]
                 \/ txn'[s] = [txn[s] EXCEPT !.phase = "flushed"]
          PROVE  /\ Reached(txn'[s].account, txn'[s].old)
                 /\ CanTransition(txn'[s].old, txn'[s].target)
      <4>1. txn[s] \in OpenTxn
        BY <1>0, <3>2 DEF TypeOK
      <4>2. /\ txn'[s].account = txn[s].account
            /\ txn'[s].old = txn[s].old
            /\ txn'[s].target = txn[s].target
        BY <3>2, <4>1 DEF OpenTxn
      <4> QED
        BY <3>2, <4>2 DEF LegalInv, TxnsLegal
    <3>3. ASSUME NEW a \in Account, NEW t \in AccountState,
                 NEW k \in Key \cup {NoKey},
                 CanTransition(row[a].state, t),
                 txn'[s] = [phase |-> "assigned", account |-> a,
                            old |-> row[a].state, target |-> t,
                            version |-> row[a].version + 1, key |-> k]
          PROVE  /\ Reached(txn'[s].account, txn'[s].old)
                 /\ CanTransition(txn'[s].old, txn'[s].target)
      BY <3>3 DEF LegalInv, RowsReached
    <3> QED
      BY <1>0, <2>2, <3>1, <3>2, <3>3, TxnStep
  <2>3. TxnsLegal'
    BY <1>2, <2>2 DEF TxnsLegal, Reached
  <2> QED
    BY <2>1, <2>3 DEF LegalInv
<1> QED
  BY <1>1, <1>2, OnlyCommitWrites

\* Every audited step is a legal transition out of a state the account was
\* in before, whatever the number of sessions and however they interleave.
THEOREM StepsAreLegal == Spec => []AuditedStepsAreLegal
<1>1. Init => LegalInv
  BY TypeInit DEF Init, LegalInv, RowsReached, Reached, TxnsLegal, AuditedStepsAreLegal
<1>2. LegalInv => AuditedStepsAreLegal
  BY DEF LegalInv
<1> QED
  BY <1>1, <1>2, LegalInductive, PTL DEF Spec

-----------------------------------------------------------------------------
(* Idempotency keys.  The invariant follows a key from the INSERT to the   *)
(* commit: a session that holds one is alone to hold it, and the log does  *)
(* not have it yet.                                                        *)

HeldKeysAreNew ==
    \A s \in Session, k \in Key : HoldsKey(s, k) => ~KeyCommitted(k)

HeldKeysAreExclusive ==
    \A s, o \in Session, k \in Key : HoldsKey(s, k) /\ HoldsKey(o, k) => s = o

KeyInv == HeldKeysAreNew /\ HeldKeysAreExclusive /\ KeyCommitsOnce

LEMMA KeyInductive == TypeOK /\ KeyInv /\ [Next]_vars => KeyInv'
<1> SUFFICES ASSUME TypeOK, KeyInv, [Next]_vars PROVE KeyInv'
  OBVIOUS
<1>1. CASE UNCHANGED vars
  BY <1>1 DEF KeyInv, HeldKeysAreNew, HeldKeysAreExclusive, KeyCommitsOnce,
              HoldsKey, KeyCommitted, vars
<1>2. ASSUME NEW s \in Session, InsertAudit(s) PROVE KeyInv'
  <2>1. /\ txn' = [txn EXCEPT ![s].phase = "flushed"]
        /\ UNCHANGED <<row, audit>>
        /\ txn[s].phase = "updated"
    BY <1>2 DEF InsertAudit
  <2>2. \A o \in Session \ {s}, k \in Key : HoldsKey(o, k)' <=> HoldsKey(o, k)
    BY <2>1 DEF HoldsKey, TypeOK
  <2>3. \A k \in Key : HoldsKey(s, k)' => k = txn[s].key
    <3>1. txn[s] \in OpenTxn
      BY <2>1 DEF TypeOK, Idle
    <3>2. txn'[s].key = txn[s].key
      BY <2>1, <3>1 DEF TypeOK, OpenTxn
    <3> QED
      BY <3>2 DEF HoldsKey
  <2>4. \A k \in Key : k = txn[s].key =>
          /\ ~KeyCommitted(k)
          /\ \A o \in Session : ~HoldsKey(o, k)
    BY <1>2, LifecycleAssumption DEF InsertAudit
  <2>5. \A k \in Key : KeyCommitted(k)' <=> KeyCommitted(k)
    BY <2>1 DEF KeyCommitted
  <2>6. HeldKeysAreNew'
    BY <2>2, <2>3, <2>4, <2>5 DEF KeyInv, HeldKeysAreNew
  <2>7. HeldKeysAreExclusive'
    BY <2>2, <2>3, <2>4 DEF KeyInv, HeldKeysAreExclusive
  <2>8. KeyCommitsOnce'
    BY <2>1 DEF KeyInv, KeyCommitsOnce
  <2> QED
    BY <2>6, <2>7, <2>8 DEF KeyInv
<1>3. ASSUME NEW s \in Session, Commit(s) PROVE KeyInv'
  <2>1. txn[s] \in OpenTxn /\ txn[s].phase = "flushed" /\ txn' = [txn EXCEPT ![s] = Idle]
    BY <1>3 DEF Commit, TypeOK, Idle
  <2>2. PICK e \in AuditEvent : audit' = Append(audit, e) /\ e.key = txn[s].key
    BY <1>3, <2>1 DEF Commit, OpenTxn, AuditEvent
  <2>3. /\ audit \in Seq(AuditEvent) /\ Len(audit) \in Nat
        /\ DOMAIN audit = 1..Len(audit)
        /\ DOMAIN audit' = 1..(Len(audit) + 1)
        /\ \A i \in 1..Len(audit) : audit'[i] = audit[i]
        /\ audit'[Len(audit) + 1] = e
    BY <2>2 DEF TypeOK
  <2>4. \A k : KeyCommitted(k)' <=> KeyCommitted(k) \/ k = e.key
    BY <2>3 DEF KeyCommitted
  <2>5. \A o \in Session, k \in Key : HoldsKey(o, k)' => HoldsKey(o, k) /\ o # s
    BY <2>1 DEF HoldsKey, TypeOK, Idle
  <2>6. \A k \in Key : k = e.key => HoldsKey(s, k)
    BY <2>1, <2>2 DEF HoldsKey
  <2>7. HeldKeysAreNew'
    BY <2>4, <2>5, <2>6 DEF KeyInv, HeldKeysAreNew, HeldKeysAreExclusive
  <2>8. HeldKeysAreExclusive'
    BY <2>5 DEF KeyInv, HeldKeysAreExclusive
  <2>9. KeyCommitsOnce'
    <3>1. e.key \in Key => ~KeyCommitted(e.key)
      BY <2>6 DEF KeyInv, HeldKeysAreNew
    <3>2. e.key \in Key \cup {NoKey}
      BY DEF AuditEvent
    <3>3. \A i \in 1..Len(audit) : e.key # NoKey => audit[i].key # e.key
      BY <2>3, <3>1, <3>2 DEF KeyCommitted
    <3>4. \A i \in DOMAIN audit' : i \in 1..Len(audit) \/ i = Len(audit) + 1
      BY <2>3
    <3> QED
      BY <2>3, <3>3, <3>4 DEF KeyInv, KeyCommitsOnce
  <2> QED
    BY <2>7, <2>8, <2>9 DEF KeyInv
<1>4. ASSUME NEW s \in Session,
             \/ \E a \in Account, t \in AccountState, k \in Key \cup {NoKey} :
                  Begin(s, a, t, k)
             \/ UpdateRow(s) \/ DuplicateKey(s) \/ Rollback(s)
      PROVE  KeyInv'
  <2>1. UNCHANGED audit
    BY <1>4 DEF Begin, UpdateRow, DuplicateKey, Rollback
  <2>2. \A o \in Session, k \in Key : HoldsKey(o, k)' => HoldsKey(o, k)
    <3>1. CASE UpdateRow(s)
      BY <3>1 DEF UpdateRow, HoldsKey, TypeOK
    <3>2. CASE \E a \in Account, t \in AccountState, k \in Key \cup {NoKey} :
                 Begin(s, a, t, k)
      BY <3>2 DEF Begin, HoldsKey, TypeOK
    <3>3. CASE DuplicateKey(s) \/ Rollback(s)
      BY <3>3 DEF DuplicateKey, Rollback, HoldsKey, TypeOK, Idle
    <3> QED
      BY <1>4, <3>1, <3>2, <3>3
  <2> QED
    BY <2>1, <2>2 DEF KeyInv, HeldKeysAreNew, HeldKeysAreExclusive,
                      KeyCommitsOnce, KeyCommitted
<1> QED
  BY <1>1, <1>2, <1>3, <1>4 DEF Next

\* At most one committed audit event per idempotency key, in every
\* interleaving of any number of sessions.
THEOREM KeysCommitOnce == Spec => []KeyCommitsOnce
<1>1. Init => KeyInv
  BY DEF Init, KeyInv, HeldKeysAreNew, HeldKeysAreExclusive, KeyCommitsOnce,
         HoldsKey, Idle
<1>2. KeyInv => KeyCommitsOnce
  BY DEF KeyInv
<1> QED
  BY <1>1, <1>2, KeyInductive, TypeCorrect, PTL DEF Spec

-----------------------------------------------------------------------------
(* The shape of the funnel follows from the legality of the steps: each    *)
(* stage after contactable has one way in.                                 *)

LEMMA OneWayIn ==
    ASSUME NEW x \in AccountState, NEW n \in 2..Len(ContactStages),
           CanTransition(x, ContactStages[n])
    PROVE  x = ContactStages[n - 1]
  BY DEF CanTransition, VALID_TRANSITIONS, AccountState, ContactStages

LEMMA NoStageIsDefault ==
    \A n \in 1..Len(ContactStages) : ContactStages[n] # DefaultState
  BY DEF ContactStages, DefaultState

LEMMA LegalImpliesOrder == TypeOK /\ AuditedStepsAreLegal => FunnelOrder
<1> SUFFICES ASSUME TypeOK, AuditedStepsAreLegal, NEW a \in Account,
                    NEW n \in 2..Len(ContactStages),
                    ContactStages[n] \in Visited(a)
             PROVE  ContactStages[n - 1] \in Visited(a)
  BY DEF FunnelOrder
<1>1. n \in 1..Len(ContactStages) /\ n - 1 \in 1..Len(ContactStages)
  BY DEF ContactStages
<1>2. PICK i \in DOMAIN audit : audit[i].account = a /\ audit[i].new = ContactStages[n]
  BY <1>1, NoStageIsDefault DEF Visited
<1>3. audit[i] \in AuditEvent /\ DOMAIN audit = 1..Len(audit) /\ Len(audit) \in Nat
  BY <1>2 DEF TypeOK
<1>4. audit[i].old = ContactStages[n - 1]
  <2>1. audit[i].old \in AccountState /\ CanTransition(audit[i].old, audit[i].new)
    BY <1>2, <1>3 DEF AuditEvent, AuditedStepsAreLegal
  <2> QED
    BY <1>2, <2>1, OneWayIn
<1>5. PICK j \in 1..(i - 1) : audit[j].account = a /\ audit[j].new = ContactStages[n - 1]
  BY <1>1, <1>2, <1>4, NoStageIsDefault DEF AuditedStepsAreLegal
<1>6. j \in DOMAIN audit
  BY <1>3, <1>5
<1> QED
  BY <1>5, <1>6 DEF Visited

\* No account skips a stage between contactable and activated, even with
\* lost updates.
THEOREM FunnelIsOrdered == Spec => []FunnelOrder
  BY StepsAreLegal, TypeCorrect, LegalImpliesOrder, PTL

-----------------------------------------------------------------------------
(* Retired accounts: what a stale read can and cannot undo.                *)

LEMMA RetiredStep ==
    ASSUME TypeOK, [Next]_vars, NEW a \in Account, Retired(a)
    PROVE  Retired(a)' /\ row'[a] = row[a]
<1>1. CASE UNCHANGED vars
  BY <1>1 DEF vars, Retired
<1>2. ASSUME NEW s \in Session, NEW b \in Account, NEW t \in AccountState,
             NEW k \in Key \cup {NoKey}, Begin(s, b, t, k)
      PROVE  Retired(a)' /\ row'[a] = row[a]
  <2>1. b # a
    BY <1>2 DEF Begin, Retired, Terminal, CanTransition
  <2> QED
    BY <1>2, <2>1 DEF Begin, Retired, TypeOK
<1>3. ASSUME NEW s \in Session, UpdateRow(s) \/ InsertAudit(s)
      PROVE  Retired(a)' /\ row'[a] = row[a]
  <2>1. txn[s] \in OpenTxn /\ txn[s] # Idle
    BY <1>3 DEF UpdateRow, InsertAudit, TypeOK, Idle
  <2>2. /\ txn[s].account = txn'[s].account
        /\ \A o \in Session \ {s} : txn'[o] = txn[o]
        /\ UNCHANGED <<row, audit>>
    BY <1>3, <2>1 DEF UpdateRow, InsertAudit, TypeOK, OpenTxn
  <2> QED
    BY <2>1, <2>2 DEF Retired
<1>4. ASSUME NEW s \in Session, DuplicateKey(s) \/ Rollback(s)
      PROVE  Retired(a)' /\ row'[a] = row[a]
  BY <1>4 DEF DuplicateKey, Rollback, Retired, TypeOK
<1>5. ASSUME NEW s \in Session, Commit(s)
      PROVE  Retired(a)' /\ row'[a] = row[a]
  <2>1. txn[s] \in OpenTxn /\ txn[s] # Idle
    BY <1>5 DEF Commit, TypeOK, Idle
  <2>2. row'[a] = row[a]
    BY <1>5, <2>1 DEF Commit, Retired, TypeOK
  <2>3. \A o \in Session : txn'[o] # Idle => txn'[o] = txn[o]
    BY <1>5 DEF Commit, TypeOK
  <2> QED
    BY <2>2, <2>3 DEF Retired
<1>6. CASE Next
  <2>1. PICK s \in Session :
          \/ \E b \in Account, t \in AccountState, k \in Key \cup {NoKey} :
               Begin(s, b, t, k)
          \/ UpdateRow(s) \/ InsertAudit(s)
          \/ DuplicateKey(s) \/ Rollback(s)
          \/ Commit(s)
    BY <1>6 DEF Next
  <2> QED
    BY <2>1, <1>2, <1>3, <1>4, <1>5
<1> QED
  BY <1>1, <1>6

\* An account that is terminal and that no open request has read stays as
\* it is for ever.
THEOREM RetiredStaysRetired == Spec => RetiredForGood
<1>1. TypeOK /\ [Next]_vars =>
        [\A a \in Account : Retired(a) => Retired(a)' /\ row'[a] = row[a]]_vars
  BY RetiredStep
<1> QED
  BY <1>1, TypeCorrect, PTL DEF Spec, RetiredForGood

-----------------------------------------------------------------------------
(* Refinement, for one session: nothing comes between its read and its     *)
(* commit, so what it read is still in the row when it writes.             *)

FreshRead ==
    \A s \in Session : txn[s] # Idle =>
        /\ txn[s].old = row[txn[s].account].state
        /\ CanTransition(txn[s].old, txn[s].target)

LEMMA FreshInductive ==
    ASSUME \A s, o \in Session : s = o, TypeOK, FreshRead, [Next]_vars
    PROVE  FreshRead'
<1>1. CASE \E s \in Session : Commit(s)
  <2>1. \A s \in Session : txn'[s] = Idle
    BY <1>1 DEF Commit, TypeOK
  <2> QED
    BY <2>1 DEF FreshRead
<1>2. CASE UNCHANGED <<row, audit>>
  <2>1. ASSUME NEW s \in Session, txn'[s] # Idle
        PROVE  /\ txn'[s].old = row[txn'[s].account].state
               /\ CanTransition(txn'[s].old, txn'[s].target)
    <3>1. CASE txn'[s] = txn[s]
      BY <2>1, <3>1 DEF FreshRead
    <3>2. ASSUME txn[s] # Idle,
                 \/ txn'[s] = [txn[s] EXCEPT !.phase = "updated"]
                 \/ txn'[s] = [txn[s] EXCEPT !.phase = "flushed"]
          PROVE  /\ txn'[s].old = row[txn'[s].account].state
                 /\ CanTransition(txn'[s].old, txn'[s].target)
      <4>1. txn[s] \in OpenTxn
        BY <3>2 DEF TypeOK
      <4>2. /\ txn'[s].account = txn[s].account
            /\ txn'[s].old = txn[s].old
            /\ txn'[s].target = txn[s].target
        BY <3>2, <4>1 DEF OpenTxn
      <4> QED
        BY <3>2, <4>2 DEF FreshRead
    <3>3. ASSUME NEW a \in Account, NEW t \in AccountState,
                 NEW k \in Key \cup {NoKey},
                 CanTransition(row[a].state, t),
                 txn'[s] = [phase |-> "assigned", account |-> a,
                            old |-> row[a].state, target |-> t,
                            version |-> row[a].version + 1, key |-> k]
          PROVE  /\ txn'[s].old = row[txn'[s].account].state
                 /\ CanTransition(txn'[s].old, txn'[s].target)
      BY <3>3
    <3> QED
      BY <2>1, <3>1, <3>2, <3>3, TxnStep
  <2> QED
    BY <1>2, <2>1 DEF FreshRead
<1> QED
  BY <1>1, <1>2, OnlyCommitWrites

LEMMA FunnelStep ==
    ASSUME TypeOK, FreshRead, [Next]_vars
    PROVE  [Funnel!Next]_([a \in Account |-> row[a].state])
<1>1. ASSUME NEW s \in Session, Commit(s)
      PROVE  Funnel!Next
  <2>1. txn[s] \in OpenTxn /\ txn[s] # Idle
    BY <1>1 DEF Commit, TypeOK, Idle
  <2>2. /\ txn[s].account \in Account /\ txn[s].target \in AccountState
        /\ CanTransition(row[txn[s].account].state, txn[s].target)
    BY <2>1 DEF OpenTxn, FreshRead
  <2>3. [a \in Account |-> row'[a].state]
          = [[a \in Account |-> row[a].state] EXCEPT ![txn[s].account] = txn[s].target]
    BY <1>1, <2>2 DEF Commit, TypeOK
  <2>4. Funnel!CanTransition(row[txn[s].account].state, txn[s].target)
    BY <2>2 DEF CanTransition, Funnel!CanTransition, VALID_TRANSITIONS,
                Funnel!VALID_TRANSITIONS, AccountState, Funnel!AccountState
  <2>5. txn[s].target \in Funnel!AccountState
    BY <2>2 DEF AccountState, Funnel!AccountState
  <2> QED
    BY <2>2, <2>3, <2>4, <2>5 DEF Funnel!Next, Funnel!Move
<1>2. CASE UNCHANGED <<row, audit>>
  BY <1>2
<1> QED
  BY <1>1, <1>2, OnlyCommitWrites

\* With one session the service implements the sequential state machine;
\* with more it implements the machine below only.
THEOREM SerialServiceIsTheFunnel ==
    (\A s, o \in Session : s = o) => (Spec => ImplementsFunnel)
<1> SUFFICES ASSUME \A s, o \in Session : s = o
             PROVE  Spec => ImplementsFunnel
  OBVIOUS
<1>1. Init => Funnel!Init /\ FreshRead
  BY DEF Init, Funnel!Init, DefaultState, Funnel!DefaultState, FreshRead
<1>2. TypeOK /\ FreshRead /\ [Next]_vars =>
        FreshRead' /\ [Funnel!Next]_([a \in Account |-> row[a].state])
  BY FreshInductive, FunnelStep
<1> QED
  BY <1>1, <1>2, TypeCorrect, PTL DEF Spec, ImplementsFunnel, Funnel!Spec

-----------------------------------------------------------------------------
(* Refinement, for any sessions: a request moves its account out of a      *)
(* state the log has, whatever the row shows by then.                      *)

Rows == [a \in Account |-> row[a].state]

Logs == [a \in Account |-> Visited(a)]

\* What is visited is what is reached.
LEMMA VisitedReached == \A a, x : x \in Visited(a) <=> Reached(a, x)
  BY DEF Visited, Reached

LEMMA StaleStep ==
    ASSUME LegalInv, [Next]_vars
    PROVE  [Stale!Next]_<<[a \in Account |-> row[a].state], [a \in Account |-> Visited(a)]>>
<1>1. ASSUME NEW s \in Session, Commit(s)
      PROVE  Stale!Next
  <2> DEFINE a == txn[s].account
             t == txn[s].target
  <2>1. txn[s] \in OpenTxn /\ txn[s] # Idle
    BY <1>1 DEF Commit, LegalInv, TypeOK, Idle
  <2>2. /\ a \in Account /\ t \in AccountState
        /\ txn[s].old \in Visited(a) /\ CanTransition(txn[s].old, t)
    BY <2>1, VisitedReached DEF OpenTxn, LegalInv, TxnsLegal
  <2>3. PICK e \in AuditEvent :
          /\ audit' = Append(audit, e)
          /\ e.account = a /\ e.new = t
    BY <1>1, <2>1 DEF Commit, OpenTxn, AuditEvent
  <2>4. Rows' = [Rows EXCEPT ![a] = t]
    <3>1. row' = [row EXCEPT ![a] = [state |-> t, version |-> txn[s].version]]
      BY <1>1 DEF Commit
    <3> QED
      BY <2>2, <3>1 DEF Rows, LegalInv, TypeOK
  <2>5. \A b \in Account : Visited(b)' = IF b = a THEN Visited(b) \cup {t} ELSE Visited(b)
    <3>1. /\ audit \in Seq(AuditEvent) /\ Len(audit) \in Nat
          /\ DOMAIN audit = 1..Len(audit) /\ DOMAIN audit' = 1..(Len(audit) + 1)
          /\ \A i \in 1..Len(audit) : audit'[i] = audit[i]
          /\ audit'[Len(audit) + 1] = e
      BY <2>3 DEF LegalInv, TypeOK
    <3>2. \A b \in Account : \A x : x \in Visited(b)' <=>
            x \in Visited(b) \/ (b = a /\ x = t)
      <4>1. \A i \in DOMAIN audit' : i \in DOMAIN audit \/ i = Len(audit) + 1
        BY <3>1
      <4>2. \A i \in DOMAIN audit : i \in DOMAIN audit' /\ audit'[i] = audit[i]
        BY <3>1
      <4>3. Len(audit) + 1 \in DOMAIN audit'
        BY <3>1
      <4> QED
        BY <2>3, <3>1, <4>1, <4>2, <4>3 DEF Visited
    <3> QED
      BY <3>2
  <2>6. Logs' = [Logs EXCEPT ![a] = @ \cup {t}]
    BY <2>2, <2>5 DEF Logs
  <2>7. /\ Stale!CanTransition(txn[s].old, t) /\ t \in Stale!AccountState
        /\ txn[s].old \in Logs[a]
    BY <2>2 DEF CanTransition, Stale!CanTransition, VALID_TRANSITIONS,
                Stale!VALID_TRANSITIONS, AccountState, Stale!AccountState, Logs
  <2> QED
    BY <2>2, <2>4, <2>6, <2>7 DEF Stale!Next, Stale!Move, Rows, Logs
<1>2. CASE UNCHANGED <<row, audit>>
  BY <1>2 DEF Rows, Logs, Visited
<1> QED
  BY <1>1, <1>2, OnlyCommitWrites

\* With any number of sessions the service implements the machine that may
\* move an account out of any state it has been in.
THEOREM ServiceIsTheStaleFunnel == Spec => ImplementsStaleFunnel
<1>1. Init => LegalInv /\ Stale!Init
  <2> SUFFICES ASSUME Init PROVE LegalInv /\ Stale!Init
    OBVIOUS
  <2>1. LegalInv
    BY TypeInit DEF Init, LegalInv, RowsReached, Reached, TxnsLegal, AuditedStepsAreLegal
  <2>2. \A a \in Account : row[a].state = DefaultState /\ Visited(a) = {DefaultState}
    BY DEF Init, Visited
  <2>3. Stale!Init
    BY <2>2 DEF Stale!Init, DefaultState, Stale!DefaultState
  <2> QED
    BY <2>1, <2>3
<1>2. LegalInv /\ [Next]_vars => LegalInv' /\ [Stale!Next]_<<[a \in Account |-> row[a].state], [a \in Account |-> Visited(a)]>>
  BY LegalInductive, StaleStep
<1> QED
  BY <1>1, <1>2, PTL DEF Spec, ImplementsStaleFunnel, Stale!Spec
=============================================================================
