-------------------------- MODULE AccountLifecycle --------------------------
(***************************************************************************)
(* The account state machine as the service runs it: requests to           *)
(* POST /accounts/{id}/transition, each in a database session of its own,   *)
(* over the accounts table and the append-only audit log.                  *)
(*                                                                         *)
(* One request is  db.get -> guard -> assign -> flush -> commit.  The read  *)
(* takes no lock and the transaction runs at READ COMMITTED, so what it     *)
(* read may be stale when it writes; the UPDATE of the flush writes the     *)
(* assigned values whatever the row holds by then.  The flush locks the     *)
(* row until the transaction ends, and the unique index on the             *)
(* idempotency key makes the second INSERT of a key wait for the first.     *)
(***************************************************************************)
EXTENDS AccountStates, Integers, Sequences

CONSTANTS
    Account,      \* the accounts
    Session,      \* database sessions, one request at a time each
    Key,          \* the idempotency keys requests carry
    NoKey,        \* a request without a key (a NULL in the column)
    MaxAudit      \* bound: no request begins once the log is this long

ASSUME LifecycleAssumption ==
    /\ NoKey \notin Key
    /\ MaxAudit \in Nat

VARIABLES
    row,          \* row[a]: the committed row, its state and its version
    audit,        \* the committed audit events, in commit order
    txn           \* txn[s]: what session s has done and not yet committed

vars == <<row, audit, txn>>

AuditEvent ==
    [account : Account, old : AccountState, new : AccountState,
     key : Key \cup {NoKey}]

Row == [state : AccountState, version : Nat]

Idle == [phase |-> "idle"]

\* A request past its guard: "assigned" in memory, then "updated" once the
\* UPDATE holds the row lock, then "flushed" once the audit row is inserted.
OpenTxn ==
    [phase : {"assigned", "updated", "flushed"}, account : Account,
     old : AccountState, target : AccountState, version : Nat,
     key : Key \cup {NoKey}]

TypeOK ==
    /\ row \in [Account -> Row]
    /\ audit \in Seq(AuditEvent)
    /\ txn \in [Session -> OpenTxn \cup {Idle}]

-----------------------------------------------------------------------------
Init ==
    /\ row = [a \in Account |-> [state |-> DefaultState, version |-> 1]]
    /\ audit = <<>>
    /\ txn = [s \in Session |-> Idle]

HoldsRow(s, a) == txn[s].phase \in {"updated", "flushed"} /\ txn[s].account = a

HoldsKey(s, k) == txn[s].phase = "flushed" /\ txn[s].key = k

KeyCommitted(k) == \E i \in DOMAIN audit : audit[i].key = k

\* Mutant of Begin: old_state is read after the assignment.
BeginOldAfterAssignment(s, a, target, key) ==
    /\ txn[s] = Idle
    /\ Len(audit) < MaxAudit
    /\ CanTransition(row[a].state, target)
    /\ txn' = [txn EXCEPT ![s] =
                 [phase |-> "assigned", account |-> a, old |-> target,
                  target |-> target, version |-> row[a].version + 1,
                  key |-> key]]
    /\ UNCHANGED <<row, audit>>

\* db.get, the guard and the assignments: nothing is awaited between the
\* read and the flush.  A target the guard refuses is answered 409 and
\* leaves no trace, so there is no step for it.
Begin(s, a, target, key) ==
    /\ txn[s] = Idle
    /\ Len(audit) < MaxAudit
    /\ CanTransition(row[a].state, target)
    /\ txn' = [txn EXCEPT ![s] =
                 [phase |-> "assigned", account |-> a, old |-> row[a].state,
                  target |-> target, version |-> row[a].version + 1,
                  key |-> key]]
    /\ UNCHANGED <<row, audit>>

\* Mutant of UpdateRow: the read takes a shared lock, so that the UPDATE of
\* one reader waits for every other reader of the row.
UpdateAfterSharedRead(s) ==
    /\ txn[s].phase = "assigned"
    /\ \A o \in Session \ {s} :
          txn[o] # Idle => txn[o].account # txn[s].account
    /\ txn' = [txn EXCEPT ![s].phase = "updated"]
    /\ UNCHANGED <<row, audit>>

\* flush, first statement: UPDATE accounts waits for the row lock.
UpdateRow(s) ==
    /\ txn[s].phase = "assigned"
    /\ \A o \in Session : ~HoldsRow(o, txn[s].account)
    /\ txn' = [txn EXCEPT ![s].phase = "updated"]
    /\ UNCHANGED <<row, audit>>

\* Mutant of InsertAudit: no unique index, the key is looked up instead.
InsertAuditAfterLookup(s) ==
    /\ txn[s].phase = "updated"
    /\ txn[s].key = NoKey \/ ~KeyCommitted(txn[s].key)
    /\ txn' = [txn EXCEPT ![s].phase = "flushed"]
    /\ UNCHANGED <<row, audit>>

\* flush, second statement: INSERT INTO audit_events waits while another
\* transaction holds the same key.
InsertAudit(s) ==
    /\ txn[s].phase = "updated"
    /\ \/ txn[s].key = NoKey
       \/ /\ \A o \in Session : ~HoldsKey(o, txn[s].key)
          /\ ~KeyCommitted(txn[s].key)
    /\ txn' = [txn EXCEPT ![s].phase = "flushed"]
    /\ UNCHANGED <<row, audit>>

\* The same INSERT when the key is in the log: an IntegrityError, which the
\* session's exit turns into a rollback.
DuplicateKey(s) ==
    /\ txn[s].phase = "updated"
    /\ txn[s].key # NoKey
    /\ KeyCommitted(txn[s].key)
    /\ txn' = [txn EXCEPT ![s] = Idle]
    /\ UNCHANGED <<row, audit>>

\* Mutant of Commit: the row is written and the audit event is not.
CommitUnaudited(s) ==
    /\ txn[s].phase = "flushed"
    /\ row' = [row EXCEPT ![txn[s].account] =
                 [state |-> txn[s].target, version |-> txn[s].version]]
    /\ txn' = [txn EXCEPT ![s] = Idle]
    /\ UNCHANGED audit

\* db.commit: the row and the audit event become visible together.
Commit(s) ==
    /\ txn[s].phase = "flushed"
    /\ row' = [row EXCEPT ![txn[s].account] =
                 [state |-> txn[s].target, version |-> txn[s].version]]
    /\ audit' = Append(audit, [account |-> txn[s].account, old |-> txn[s].old,
                               new |-> txn[s].target, key |-> txn[s].key])
    /\ txn' = [txn EXCEPT ![s] = Idle]

\* The process dies, the client goes away or the database refuses the
\* transaction at any point before the commit: the session closes.
Rollback(s) ==
    /\ txn[s] # Idle
    /\ txn' = [txn EXCEPT ![s] = Idle]
    /\ UNCHANGED <<row, audit>>

Next ==
    \E s \in Session :
        \/ \E a \in Account, target \in AccountState, k \in Key \cup {NoKey} :
               Begin(s, a, target, k)
        \/ UpdateRow(s)
        \/ InsertAudit(s)
        \/ DuplicateKey(s)
        \/ Commit(s)
        \/ Rollback(s)

Spec == Init /\ [][Next]_vars

\* The database queues lock waiters first come first served and the event
\* loop resumes a session whose statement has returned, so a statement that
\* can run again and again does run.  Nobody owes a rollback or a request.
FairSpec ==
    /\ Spec
    /\ \A s \in Session : SF_vars(UpdateRow(s)) /\ SF_vars(InsertAudit(s))
    /\ \A s \in Session : WF_vars(DuplicateKey(s)) /\ WF_vars(Commit(s))

-----------------------------------------------------------------------------
\* The states account a has been in, as the audit log tells it.
Visited(a) ==
    {DefaultState} \cup
    {audit[i].new : i \in {j \in DOMAIN audit : audit[j].account = a}}

\* Every audit event is a legal transition out of a state the account had
\* reached before: a stale read can make the log jump back, but no request
\* ever enters a state by an edge the table does not have, whatever commits
\* between the read of StateMachine.transition and its flush.
AuditedStepsAreLegal ==
    \A i \in DOMAIN audit :
        /\ CanTransition(audit[i].old, audit[i].new)
        /\ \/ audit[i].old = DefaultState
           \/ \E j \in 1..(i - 1) : /\ audit[j].account = audit[i].account
                                   /\ audit[j].new = audit[i].old

\* No two committed audit events carry the same idempotency key, however
\* the two requests interleave: a client that repeats a request with its key
\* moves the account once.
KeyCommitsOnce ==
    \A i, j \in DOMAIN audit :
        audit[i].key = audit[j].key /\ audit[i].key # NoKey => i = j

\* The stages that lead from the first contact to a customer, in order.
ContactStages ==
    <<"contactable", "contacted", "replied", "intake_open", "uploaded",
      "fulfilled", "offer_sent", "paid", "activated">>

\* No account skips a stage of the funnel: one that is activated has been
\* paid, one that is paid has been sent an offer, and so on back to
\* contactable.  The lost updates of concurrent requests do not break it.
FunnelOrder ==
    \A a \in Account : \A n \in 2..Len(ContactStages) :
        ContactStages[n] \in Visited(a) => ContactStages[n - 1] \in Visited(a)

\* An account in a terminal state that no open request has read is out of
\* the machine for good: it keeps its state, and no request on it begins.
\* Only a request that read the row before it became terminal can undo it.
Retired(a) ==
    /\ row[a].state \in Terminal
    /\ \A s \in Session : txn[s] # Idle => txn[s].account # a

RetiredForGood ==
    [][\A a \in Account : Retired(a) => Retired(a)' /\ row'[a] = row[a]]_vars

\* A request that has begun ends, by a commit or an abort: the row locks and
\* the waits for a key never close a cycle (StateMachine takes the row first
\* and the key second).
EveryRequestEnds ==
    \A s \in Session : txn[s] # Idle ~> txn[s] = Idle

\* The rows, seen without sessions and log, are the sequential machine.
Funnel == INSTANCE AccountFunnel WITH state <- [a \in Account |-> row[a].state]

\* With one session at a time the service implements the sequential machine.
ImplementsFunnel == Funnel!Spec

\* The rows beside the states the log tells of.
Stale == INSTANCE StaleFunnel WITH
           state <- [a \in Account |-> row[a].state],
           reached <- [a \in Account |-> Visited(a)]

\* With sessions that overtake each other between the read and the commit of
\* StateMachine.transition, the service implements the machine that forgets:
\* a lost update can put an account back to where it has been, and the row
\* never shows a state that no audited legal transition has led to.
ImplementsStaleFunnel == Stale!Spec
=============================================================================
