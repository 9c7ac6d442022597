--------------------------- MODULE AccountStates ---------------------------
(***************************************************************************)
(* The account states and the table of legal transitions                   *)
(* (src/db/models/enums.py).  Pure data, shared by the sequential machine  *)
(* and by the transactional service that implements it.                    *)
(***************************************************************************)

AccountState ==
    {"raw_signal", "candidate_account", "qualified_account", "contactable",
     "contacted", "replied", "intake_open", "uploaded", "fulfilled",
     "offer_sent", "paid", "activated", "snoozed", "suppressed", "blocked"}

\* Mutant of DefaultState: a default that is no member of the enum.
DefaultOutsideEnum == "raw"

\* The state a new account row gets.
DefaultState == "raw_signal"

VALID_TRANSITIONS ==
    [s \in AccountState |->
       CASE s = "raw_signal"        -> {"candidate_account", "blocked"}
         [] s = "candidate_account" -> {"qualified_account", "snoozed", "blocked"}
         [] s = "qualified_account" -> {"contactable", "snoozed", "suppressed", "blocked"}
         [] s = "contactable"       -> {"contacted", "snoozed", "suppressed", "blocked"}
         [] s = "contacted"         -> {"replied", "snoozed", "suppressed", "blocked"}
         [] s = "replied"           -> {"intake_open", "snoozed", "suppressed", "blocked"}
         [] s = "intake_open"       -> {"uploaded", "snoozed", "blocked"}
         [] s = "uploaded"          -> {"fulfilled", "blocked"}
         [] s = "fulfilled"         -> {"offer_sent", "blocked"}
         [] s = "offer_sent"        -> {"paid", "snoozed", "blocked"}
         [] s = "paid"              -> {"activated", "blocked"}
         [] s = "snoozed"           -> {"candidate_account", "qualified_account",
                                        "contactable", "blocked"}
         [] OTHER                   -> {}]

\* Mutant of CanTransition: blocking is legal from every state.
CanTransitionOrBlock(current, target) ==
    target \in VALID_TRANSITIONS[current] \/ target = "blocked"

\* StateMachine.can_transition
CanTransition(current, target) == target \in VALID_TRANSITIONS[current]

\* The states with no way out.
Terminal == {s \in AccountState : VALID_TRANSITIONS[s] = {}}
=============================================================================
