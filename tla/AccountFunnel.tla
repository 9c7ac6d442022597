--------------------------- MODULE AccountFunnel ---------------------------
(***************************************************************************)
(* What the state machine promises, seen from outside: each account is in  *)
(* one state and moves only along the table of legal transitions.  No      *)
(* sessions, no transactions, no log.                                      *)
(***************************************************************************)
EXTENDS AccountStates

CONSTANT Account

VARIABLE state      \* state[a]: the state of account a

Init == state = [a \in Account |-> DefaultState]

Move(a, target) ==
    /\ CanTransition(state[a], target)
    /\ state' = [state EXCEPT ![a] = target]

Next == \E a \in Account, target \in AccountState : Move(a, target)

Spec == Init /\ [][Next]_state
=============================================================================
