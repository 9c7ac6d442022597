------------------------------- MODULE SendPath -------------------------------
(***************************************************************************)
(* From the allocation of a recipient to the mail that goes out: mailboxes, *)
(* policy decision, send worker (src/workers/send/send_worker.py), and the  *)
(* suppressions and pauses that come in between.  Each call is atomic; the  *)
(* dispatcher between them is not in the repository, so that here anything  *)
(* can happen between two calls and every call can be repeated.            *)
(***************************************************************************)
EXTENDS Suppression, Mailboxes, SafetyPauses, FiniteSets

CONSTANTS
    Batches,       \* bound: the batches of recipients allocated
    Admin,         \* bound: what an admin suppresses and removes
    Watched,       \* bound: the scopes that are paused and resumed
    System,        \* the scope of a pause of the whole system
    MaxTasks,      \* bound: recipients given to a mailbox
    MaxMails       \* bound: mails that go out for one task

ASSUME SendAssumption ==
    /\ Batches \subseteq Seq(Address)
    /\ Admin \subseteq Named
    /\ Scope = Mailbox \cup {System} /\ System \notin Mailbox
    /\ Watched \subseteq Scope
    /\ MaxTasks \in Nat /\ MaxMails \in Nat

VARIABLES
    tasks,         \* the live allocations, in order
    approved,      \* the tasks a policy decision allows
    mails,         \* mails[i]: how many mails went out for task i
    stopped,       \* people who bounced or complained, and no admin removed it
    breached       \* scopes with a breach no operator has acted on since

vars == <<entries, box, pauses, tasks, approved, mails, stopped, breached>>

Task == [to : Address, from : Mailbox]

TypeOK ==
    /\ entries \subseteq Key
    /\ box \in [Mailbox -> Box]
    /\ pauses \in [Scope -> Pause]
    /\ tasks \in Seq(Task) /\ Len(tasks) <= MaxTasks
    /\ approved \subseteq DOMAIN tasks
    /\ mails \in [1..MaxTasks -> 0..MaxMails]
    /\ stopped \subseteq Person
    /\ breached \subseteq Scope

Init ==
    /\ entries = {}
    /\ BoxesInit
    /\ pauses = [k \in Scope |-> "none"]
    /\ tasks = <<>>
    /\ approved = {}
    /\ mails = [i \in 1..MaxTasks |-> 0]
    /\ stopped = {}
    /\ breached = {}

-----------------------------------------------------------------------------
(* The mailboxes.                                                          *)

\* Mutant of Allocate: the counters are kept for the batch only.
AllocateUncounted(batch) ==
    LET a == Allocation(batch, FALSE)
    IN  /\ Len(tasks) + Len(a.allocated) <= MaxTasks
        /\ a.allocated # <<>>
        /\ tasks' = tasks \o a.allocated
        /\ UNCHANGED <<entries, box, pauses, approved, mails, stopped, breached>>

\* allocate, and a send task for each allocation; a dry run changes nothing.
Allocate(batch) ==
    LET a == Allocation(batch, FALSE)
    IN  /\ Len(tasks) + Len(a.allocated) <= MaxTasks
        /\ a.allocated # <<>>
        /\ box' = [m \in Mailbox |-> [box[m] EXCEPT !.used = a.used[m]]]
        /\ tasks' = tasks \o a.allocated
        /\ UNCHANGED <<entries, pauses, approved, mails, stopped, breached>>

Operate(m) ==
    /\ \/ PauseMailbox(m)
       \/ ResumeMailbox(m)
       \/ \E h \in Health : HealthChanges(m, h)
    /\ UNCHANGED <<entries, pauses, tasks, approved, mails, stopped, breached>>

-----------------------------------------------------------------------------
(* Policy and sending.                                                     *)

\* PolicyEngine.evaluate, given what holds now: the rules about pauses,
\* suppression and mailbox health must all pass, and so must the rules about
\* the account and the message, which the task fulfils or not.
Approve(i) ==
    /\ i \notin approved
    /\ ~AnyPauseActive({System, tasks[i].from})
    /\ ~IsSuppressed(tasks[i].to, <<AccountOf[tasks[i].to[1]], tasks[i].to[2]>>)
    /\ box[tasks[i].from].health > 0
    /\ approved' = approved \cup {i}
    /\ UNCHANGED <<entries, box, pauses, tasks, mails, stopped, breached>>

\* send, for the first time, again after an error, or replayed.  validate_task
\* asks for the id of a decision, never what it says, and looks the recipient
\* up; the provider takes the mail, whether send_fn returns or raises then.
Send(i) ==
    /\ ~IsSuppressed(tasks[i].to, <<AccountOf[tasks[i].to[1]], tasks[i].to[2]>>)
    /\ mails[i] < MaxMails
    /\ mails' = [mails EXCEPT ![i] = @ + 1]
    /\ UNCHANGED <<entries, box, pauses, tasks, approved, stopped, breached>>

\* process_bounce of a hard bounce, process_complaint: the provider writes
\* the address in its own way, and reports late and more than once.
Refused(i, spelling) ==
    LET p == tasks[i].to[1] IN
    /\ mails[i] > 0
    /\ AddEntry(<<"email", <<p, spelling>>>>)
    /\ stopped' = stopped \cup {p}
    /\ UNCHANGED <<box, pauses, tasks, approved, mails, breached>>

-----------------------------------------------------------------------------
(* Administrators and the safety monitor.                                  *)

Suppress(named) ==
    /\ AddEntry(named)
    /\ UNCHANGED <<box, pauses, tasks, approved, mails, stopped, breached>>

Import ==
    /\ BulkImport(Admin)
    /\ UNCHANGED <<box, pauses, tasks, approved, mails, stopped, breached>>

Readmit(named) ==
    /\ RemoveEntry(named)
    /\ stopped' = IF named[1] = "email" THEN stopped \ {named[2][1]} ELSE stopped
    /\ UNCHANGED <<box, pauses, tasks, approved, mails, breached>>

FindBreach(k) ==
    /\ Breach(k)
    /\ breached' = breached \cup {k}
    /\ UNCHANGED <<entries, box, tasks, approved, mails, stopped>>

\* An operator pauses the scope, without an end or until some time, or
\* resumes it.
OperatorActs(k) ==
    /\ \/ \E kind \in {"held", "timed"} : PauseScope(k, kind)
       \/ ResumeScope(k)
    /\ breached' = breached \ {k}
    /\ UNCHANGED <<entries, box, tasks, approved, mails, stopped>>

TimePasses(k) ==
    /\ Lapse(k)
    /\ UNCHANGED <<entries, box, tasks, approved, mails, stopped, breached>>

Next ==
    \/ \E batch \in Batches : Allocate(batch)
    \/ \E m \in Mailbox : Operate(m)
    \/ \E i \in DOMAIN tasks :
          \/ Approve(i)
          \/ Send(i)
          \/ \E spelling \in Spelling : Refused(i, spelling)
    \/ \E named \in Admin : Suppress(named) \/ Readmit(named)
    \/ Import
    \/ \E k \in Watched : FindBreach(k) \/ OperatorActs(k) \/ TimePasses(k)

Spec == Init /\ [][Next]_vars

-----------------------------------------------------------------------------
\* A mailbox never takes more recipients than its smaller cap, over all the
\* batches: what an earlier allocate counted, pauses, bad health and recovery
\* in between leave it the cap's remainder and no more.
CapsHold ==
    \A m \in Mailbox :
        LET taken == Cardinality({i \in DOMAIN tasks : tasks[i].from = m})
        IN  taken <= DailyCap /\ taken <= HourlyCap

\* Nobody who bounced or complained gets another mail before an admin has
\* removed the entry: not from a task approved before, not on a retry, and
\* however the provider's report and the task write the address.
NoMailAfterStop ==
    [][\A i \in 1..MaxTasks :
         mails'[i] > mails[i] => tasks[i].to[1] \notin stopped]_vars

\* While a breach of a mailbox's or the system's thresholds stands, no task
\* of it is approved: only an operator's resume or timed pause ends the stop.
BreachStopsApproval ==
    [][\A i \in approved' \ approved :
         breached \cap {System, tasks[i].from} = {}]_vars

\* A recipient of a batch is left over only when each mailbox that could
\* take it is used up by the end of the batch, and a dry run of the batch
\* leaves over nobody the real one serves.
LeftOverOnlyWhenFull ==
    \A batch \in Batches :
        LET real == Allocation(batch, FALSE)
            dry == Allocation(batch, TRUE)
        IN  /\ \A n \in real.unallocated : \A m \in Available :
                  \/ MailboxDomain[m] = DomainPart(batch[n])
                  \/ ~Free(real.used[m])
            /\ dry.unallocated \subseteq real.unallocated
=============================================================================
