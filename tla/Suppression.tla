----------------------------- MODULE Suppression -----------------------------
(***************************************************************************)
(* SuppressionService (src/libs/policy/suppression.py): entries by scope    *)
(* and key, where a key is lowered and stripped before it is stored or      *)
(* looked up.  What an entry says besides its key is never acted on.        *)
(***************************************************************************)
EXTENDS Addresses

VARIABLE entries   \* the keys suppressed now

\* Scopes and names as somebody writes them.  A campaign's entry can be made
\* too; no caller in the repository looks one up.
Named ==
    ({"email"} \X Address) \cup ({"domain"} \X (Domain \X Spelling))
        \cup ({"account"} \X (AccountId \X Spelling))

Key ==
    ({"email"} \X Person) \cup ({"domain"} \X Domain)
        \cup ({"account"} \X AccountId)

\* _make_key
MakeKey(named) == <<named[1], named[2][1]>>

\* add
AddEntry(named) == entries' = entries \cup {MakeKey(named)}

\* remove
RemoveEntry(named) ==
    /\ MakeKey(named) \in entries
    /\ entries' = entries \ {MakeKey(named)}

\* bulk_import
BulkImport(records) == entries' = entries \cup {MakeKey(n) : n \in records}

\* Mutant of IsSuppressed: names are looked up as they are written.
IsSuppressedAsWritten(to, account) ==
    /\ to[2] = "plain"
    /\ {MakeKey(<<"email", to>>), MakeKey(<<"domain", DomainPart(to)>>),
        MakeKey(<<"account", account>>)} \cap entries # {}

\* is_suppressed with an email and an account, as the send worker calls it;
\* the domain is cut from the email.
IsSuppressed(to, account) ==
    {MakeKey(<<"email", to>>), MakeKey(<<"domain", DomainPart(to)>>),
     MakeKey(<<"account", account>>)} \cap entries # {}
=============================================================================
