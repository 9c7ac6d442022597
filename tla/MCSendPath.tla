----------------------------- MODULE MCSendPath -----------------------------
(* SendPath on small sets. *)
EXTENDS SendPath, TLC

CONSTANTS p1, p2, d1, d2, acc

TwoDomains == (p1 :> d1) @@ (p2 :> d2)
OneAccount == [p \in Person |-> acc]
\* The first mailbox sends from the domain of the second person.
Senders == (1 :> <<d2, "plain">>) @@ (2 :> <<d1, "odd">>)
Pool == {1, 2}
Scopes == Pool \cup {System}
FirstAndAll == {1, System}
\* Two batches fit into the bound in any order, the first one twice.
OddAndPlain == {<<<<p1, "plain">>, <<p1, "odd">>>>, <<<<p2, "plain">>>>}
Operators == {<<"email", <<p1, "odd">>>>, <<"domain", <<d2, "plain">>>>}
=============================================================================
