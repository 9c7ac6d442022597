---------------------------- MODULE StaleFunnel ----------------------------
(***************************************************************************)
(* What is left of the account funnel when requests overtake each other:   *)
(* an account moves along the table of legal transitions, but out of any   *)
(* state it has been in, since a request may have read that one long ago.  *)
(***************************************************************************)
EXTENDS AccountStates

CONSTANT Account

VARIABLES
    state,     \* state[a]: the state of account a
    reached    \* reached[a]: the states it has been in

Init ==
    /\ state = [a \in Account |-> DefaultState]
    /\ reached = [a \in Account |-> {DefaultState}]

Move(a, target) ==
    /\ \E from \in reached[a] : CanTransition(from, target)
    /\ state' = [state EXCEPT ![a] = target]
    /\ reached' = [reached EXCEPT ![a] = @ \cup {target}]

Next == \E a \in Account, target \in AccountState : Move(a, target)

Spec == Init /\ [][Next]_<<state, reached>>
=============================================================================
