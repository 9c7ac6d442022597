------------------------------ MODULE Mailboxes ------------------------------
(***************************************************************************)
(* MailboxOrchestrator (src/workers/send/mailbox_orchestrator.py): a batch  *)
(* of recipients is given to the mailboxes by health, use and caps.         *)
(***************************************************************************)
EXTENDS Addresses, Integers, SequencesExt

CONSTANTS
    Mailbox,       \* the mailboxes, numbered in the order of the pool
    HourlyCap,
    DailyCap,
    MailboxDomain  \* MailboxDomain[m]: the domain m sends from, as written

ASSUME MailboxAssumption ==
    /\ Mailbox \subseteq Nat \ {0}
    /\ HourlyCap \in Nat /\ DailyCap \in Nat
    /\ MailboxDomain \in [Mailbox -> Domain \X Spelling]

VARIABLE box       \* box[m]: the state of mailbox m

\* 0 is a health score below one half or DNS records that are not ready.
Health == 0..2

\* sent_today and sent_this_hour grow together and nothing ever resets
\* them: one number stands for both.
Box == [status : {"active", "paused"}, health : Health, used : Nat]

BoxesInit ==
    box = [m \in Mailbox |-> [status |-> "active", health |-> 2, used |-> 0]]

Free(used) == used < DailyCap /\ used < HourlyCap

\* get_available, without its order
Available ==
    {m \in Mailbox : /\ box[m].status = "active" /\ box[m].health > 0
                     /\ Free(box[m].used)}

\* Its order, which is not renewed within a batch.
Before(m, n) ==
    \/ box[m].health > box[n].health
    \/ /\ box[m].health = box[n].health
       /\ box[m].used < box[n].used
    \/ /\ box[m].health = box[n].health
       /\ box[m].used = box[n].used
       /\ m < n

First(S) == CHOOSE m \in S : \A n \in S \ {m} : Before(m, n)

\* Mutant of Suitable: a recipient in the first mailbox's domain ends the
\* search.
SuitableFirst(to, used) ==
    LET open == {m \in Available : Free(used[m])}
    IN  IF open = {} THEN {}
        ELSE {First(open)} \ {m \in open : MailboxDomain[m] = DomainPart(to)}

\* The mailboxes that can take a recipient, used being the counters by now.
Suitable(to, used) ==
    {m \in Available : Free(used[m]) /\ MailboxDomain[m] # DomainPart(to)}

\* The turn of the n-th recipient.  A dry run does not count.
Give(batch, dryRun, result, n) ==
    LET fit == Suitable(batch[n], result.used)
        m == First(fit)
        counted == [result.used EXCEPT ![m] = @ + 1]
    IN  IF fit = {}
          THEN [result EXCEPT !.unallocated = @ \cup {n}]
          ELSE [result EXCEPT
                  !.allocated = Append(@, [to |-> batch[n], from |-> m]),
                  !.used = IF dryRun THEN @ ELSE counted]

\* allocate: what each recipient in turn is given, those left over by their
\* place in the batch, and the counters afterwards.
Allocation(batch, dryRun) ==
    LET start == [allocated |-> <<>>, unallocated |-> {},
                  used |-> [m \in Mailbox |-> box[m].used]]
    IN  FoldLeftDomain(LAMBDA result, n : Give(batch, dryRun, result, n),
                       start, batch)

PauseMailbox(m) == box' = [box EXCEPT ![m].status = "paused"]

ResumeMailbox(m) == box' = [box EXCEPT ![m].status = "active"]

\* The checks of scores and DNS records, outside the orchestrator.
HealthChanges(m, h) == box' = [box EXCEPT ![m].health = h]
=============================================================================
