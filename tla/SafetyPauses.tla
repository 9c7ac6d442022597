----------------------------- MODULE SafetyPauses -----------------------------
(***************************************************************************)
(* SafetyMonitor (src/workers/send/safety.py): one pause for each scope,    *)
(* with or without a time at which it ends by itself.                      *)
(***************************************************************************)

CONSTANT Scope     \* scopes with their keys: the system, a mailbox, ...

VARIABLE pauses    \* pauses[k]: the pause kept for scope k

\* A pause whose time is over is as good as none: is_paused drops it.
Pause == {"none", "held", "timed"}

\* is_paused
IsPaused(k) == pauses[k] # "none"

\* any_pause_active
AnyPauseActive(S) == \E k \in S : IsPaused(k)

\* Mutant of PauseScope: a pause that is there is left as it is.
PauseScopeOnce(k, kind) ==
    pauses' = [pauses EXCEPT ![k] = IF @ = "none" THEN kind ELSE @]

\* pause: the new pause replaces the one that is there, whatever it was.
PauseScope(k, kind) == pauses' = [pauses EXCEPT ![k] = kind]

\* check_health of metrics past min_sends_for_threshold with a rate over its
\* threshold: each such rate pauses the scope, untimed.
Breach(k) == PauseScope(k, "held")

\* resume
ResumeScope(k) ==
    /\ pauses[k] # "none"
    /\ pauses' = [pauses EXCEPT ![k] = "none"]

\* The clock passes auto_resume_at.
Lapse(k) ==
    /\ pauses[k] = "timed"
    /\ pauses' = [pauses EXCEPT ![k] = "none"]
=============================================================================
