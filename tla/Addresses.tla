------------------------------ MODULE Addresses ------------------------------
(***************************************************************************)
(* The people mails go to, and their addresses as somebody writes them.    *)
(***************************************************************************)

CONSTANTS
    Person,
    Domain,
    AccountId,
    DomainOf,      \* DomainOf[p]: the domain of p's address
    AccountOf      \* AccountOf[p]: the account p is a contact of

ASSUME AddressAssumption ==
    /\ DomainOf \in [Person -> Domain]
    /\ AccountOf \in [Person -> AccountId]

\* How a name is written: lowered and stripped, or not.
Spelling == {"plain", "odd"}

Address == Person \X Spelling

\* The part of an address behind the @, as it is written.
DomainPart(to) == <<DomainOf[to[1]], to[2]>>
=============================================================================
