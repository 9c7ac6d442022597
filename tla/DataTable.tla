----------------------------- MODULE DataTable -----------------------------
(* The table of the component library (components/ui/data-table.tsx): its    *)
(* search, sorting and pages, over data that a refetch replaces.  The row    *)
(* models are the library's (@tanstack/react-table).  Rows are selected by   *)
(* nothing in the table itself, so that its rowSelection stays empty.        *)
EXTENDS Integers, Sequences, FiniteSets

CONSTANTS
    Versions,   \* the data that a refetch may bring: sequences of rows
    Matching,   \* the rows that a typed search matches
    Text,       \* whether the sorted column holds strings
    PageSize    \* rows on a page: 25 by default

ASSUME TableAssumption ==
    /\ PageSize \in Nat \ {0}
    /\ \A rows \in Versions : Len(rows) \in Nat /\ DOMAIN rows = 1 .. Len(rows)

VARIABLES
    data,       \* the prop: the rows in the order of the server
    table       \* sorting, globalFilter and pageIndex

TableMounted == [sort |-> "none", search |-> FALSE, page |-> 0]

\* The rows that the search leaves.
Found == {i \in DOMAIN data : table.search => data[i] \in Matching}

PageCount == (Cardinality(Found) + PageSize - 1) \div PageSize

\* The search, the sorting and the data reset the page (autoResetPageIndex).
TypeTableSearch ==
    /\ table' = [table EXCEPT !.search = ~@, !.page = 0]
    /\ UNCHANGED data

\* Where the library begins: upwards if the first row found has a string there.
FirstSortDir == IF Text /\ Found # {} THEN "asc" ELSE "desc"

\* The click on a header: the first direction, the other, unsorted.
ToggleSort ==
    /\ table' = [table EXCEPT
                   !.sort = CASE @ = "none" -> FirstSortDir
                              [] @ = FirstSortDir -> IF @ = "asc" THEN "desc" ELSE "asc"
                              [] OTHER -> "none",
                   !.page = 0]
    /\ UNCHANGED data

NextPage ==
    /\ table.page + 1 < PageCount
    /\ table' = [table EXCEPT !.page = @ + 1]
    /\ UNCHANGED data

PreviousPage ==
    /\ table.page > 0
    /\ table' = [table EXCEPT !.page = @ - 1]
    /\ UNCHANGED data

\* Mutant of DataReplaced: the page stays, also if there are fewer of them.
ReplacedInPlace ==
    /\ data' \in Versions
    /\ UNCHANGED table

\* A refetch brings other rows, or the same ones in a new array.
DataReplaced ==
    /\ data' \in Versions
    /\ table' = [table EXCEPT !.page = 0]

TableNext ==
    \/ TypeTableSearch \/ ToggleSort \/ NextPage \/ PreviousPage \/ DataReplaced

TableTypeOK ==
    /\ data \in Versions
    /\ table.sort \in {"none", "asc", "desc"}
    /\ table.search \in BOOLEAN
    /\ table.page \in Nat

\* The page that is shown exists, or is the first one of an empty table,
\* whatever is searched, paged and refetched in between.
PageExists == table.page = 0 \/ table.page < PageCount
=============================================================================
