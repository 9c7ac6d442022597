----------------------------- MODULE TrustRoom -----------------------------
(* A buyer's trust room behind its agreement (app/r/[token]/page.tsx).       *)

VARIABLE room   \* the state of a mounted TrustRoomPage

\* --------------------------------------------------------------- gate
\* What an email field holds, as trim() sees it.
Typed == {"empty", "blank", "text"}

RoomMounted == [ndaAccepted |-> FALSE, checked |-> FALSE, email |-> "empty"]

CanAccess == room.checked /\ room.email = "text"

\* The form is there until the agreement is accepted.
CheckTerms ==
    /\ ~room.ndaAccepted
    /\ room' = [room EXCEPT !.checked = ~@]

TypeEmail ==
    /\ ~room.ndaAccepted
    /\ \E t \in Typed : room' = [room EXCEPT !.email = t]

HandleAccess ==
    /\ ~room.ndaAccepted
    /\ CanAccess
    /\ room' = [room EXCEPT !.ndaAccepted = TRUE]

RoomNext == CheckTerms \/ TypeEmail \/ HandleAccess

RoomTypeOK ==
    room \in [ndaAccepted : BOOLEAN, checked : BOOLEAN, email : Typed]

\* The list of documents, which the page shows only behind the agreement.
DocumentsShown == room.ndaAccepted

\* Whoever sees the documents has the box checked and an address in the field,
\* still: neither can be taken back once the room is open.
ShownOnlyToSigners == DocumentsShown => room.checked /\ room.email = "text"
=============================================================================
