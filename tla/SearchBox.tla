----------------------------- MODULE SearchBox -----------------------------
(* What is typed into the search inputs of the list pages.  A query is a     *)
(* fragment of text, or nothing, with or without a blank typed after it.  A  *)
(* page's index says which of its rows have a text that contains a fragment, *)
(* a fragment with a blank after it, and a blank at all.                     *)
CONSTANT Nothing

Query(fragments) == [word : fragments \cup {Nothing}, pad : BOOLEAN]
NoQuery == [word |-> Nothing, pad |-> FALSE]
Trim(q) == [q EXCEPT !.pad = FALSE]
IsBlank(q) == q.word = Nothing

\* text.toLowerCase().includes(needle), for the rows of an index.
Including(index, q) ==
    IF IsBlank(q) THEN IF q.pad THEN index.blank ELSE index.all
    ELSE IF q.pad THEN index.followed[q.word] ELSE index.with[q.word]

\* if (q.trim()) needle = q.toLowerCase(): the test is trimmed, the needle not.
FindUnlessBlank(index, q) ==
    IF IsBlank(q) THEN index.all ELSE Including(index, q)

\* const q = search.trim().toLowerCase()
FindTrimmed(index, q) == Including(index, Trim(q))

\* A query that is not trimmed at all is Including itself.
=============================================================================
